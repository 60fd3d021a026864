# A TLA+ development for Ephemerkey

Ephemerkey is a time-code lock: a hand-held *generator* shows TOTP codes when its
own conditions are met, and a *lock* accepts them under per-slot policies
(rhythms, zone paths, dead-man beats, quorums) with gates, decoy keys, veto
windows and budgets.  This directory holds the TLA+ modules that model the code
under `src/firmware`, the TLC configurations that check them on small instances,
and the theorems TLAPS proves about them for every instance.

## 1. Inventory

| component | source | state it keeps | operations | talks to |
|---|---|---|---|---|
| Slot policies | `ephemerkey-core/src/policy.rs` | `SlotState`: count, last counter, window start, last code, sustained, quorum mask, drawn pacing window | `on_code`, `tick`, `reset`, `pace_draw` | called by the engine |
| Lock engine | `ephemerkey-core/src/engine.rs` | slot states, replay watermarks, lockouts, armed veto windows, fire counts, owed re-locks and fires, receipt buffer | `enter_code_with`, `tick`, `take_relocks`, `take_fires`, `take_receipt`, `attest` | emulator, lock console |
| Confirm receipts | `ephemerkey-core/src/receipt.rs` | minter's event counter; validator's expected counter | `mint`, `verify`, `verify_code` | minted by the engine, carried by a person to a validator |
| Code reveal | `ephemerkey-core/src/reveal.rs` | gate, unlock and duress flags, chain feed, last real reveal | `reveal`, `feed_chain`, setters | generator UI |
| Config store | `ephemerkey-store/src/lib.rs` | RAM mirror, generation, two flash slots | `mount`, `commit_config`, `set_identity`, `wifi_set`, `wifi_clear` | provisioning |
| Provisioning | `ephemerkey-provision/src/lib.rs`, `ephemerkey-rs/src/provision.rs` | transfer in progress, event ring | BEGIN, CHUNK, COMMIT, EVENTS, WIFI... | host over USB; config store |
| Frame link | `ephemerkey-frame/src/lib.rs`, `Provisioner::feed`, `ephemerkey-rs/src/usbprov.rs` | parser buffer, two queued frames, connection | `feed`, `scan`, `read_packet`, `write_packet` | host; provisioning |
| Config decoding | `ephemerkey-config/src/lib.rs`, `ephemerkey-rs/src/config.rs`; written by `scenario_to_cbor` of the emulator | the model a device booted with | `parse`, `build_lock`, `build_generator`, `load` | store at boot; engines |
| Generator task | `ephemerkey-rs/src/generator.rs` | selection, dial, button deadlines, held code, screen | one poll of the buttons | reveal, emission gate, clock |
| Clock and emission gate | `ephemerkey-rs/src/clock.rs`, `gate.rs`, `gnss.rs` | time, age of the last sync, fence latch | `discipline_utc`, `update_from_fix`, `may_emit` | GNSS fixes; generator task |
| Emulator | `ephemerkey-emu/src/main.rs` | engine, clock, generator | line commands, drains, the scenario encoder | engine |
| Lock console | `ephemerkey-rs/src/lockconsole.rs` | engine, line buffer | code line, `T` line | engine, RTC |
| Lock board | `lock-attiny/src/main.c`, `lock_twi.c`, `nonce.c`, `config.c` | mailbox, flags, nonces, EEPROM | bus interrupt, service loop, sleep | lock MCU over I2C; actuator |
| Actuator | `lock-attiny/src/actuate.c` and the drivers | running sequence, sub-phase, early-off counters, pins, rail | begin, abort, tick | lock board; motor, coil, boost |
| Envelope | `ephemerkey-envelope/src/lib.rs`, `cbor.rs` | none | `sign1_write`, `sign1_verify`, `seal_write`, `open` | host that writes a configuration; provisioning |
| Others | NMEA, CRC, display, sensors | none, or drivers | pure functions and I/O | |

What is hard in this system:

- **Long protocols over compressed state.**  A slot remembers a count, one
  counter and two times, and must still enforce what a whole history of codes
  looked like.  Resets, replays, late codes and clock steps happen in between.
- **Checks separated from effects.**  A veto slot's budget and policy are checked
  when it arms; it acts when a later `tick` finds its window over.
- **Owed work.**  Re-locks, delayed fires and receipts are queued in the engine
  and performed by its caller, in the caller's order.
- **Time.**  `u32` differences wrap when the clock is set back; every call ticks
  first, so a code can arrive in the same call that expires the round it
  belongs to.
- **Bounded buffers.**  The receipt buffer is one larger than the slot table.
- **Power loss, restarts, lossy relays** in the store, the receipt stream, the
  provisioning transfer and the lock board's EEPROM.
- **An interrupt beside a main loop.**  On the lock board the bus interrupt and the
  loop share one mailbox for two messages, the nonces and the wake-up from sleep.
- **Deadlines looked at once per poll.**  The generator's gestures, window and held
  code are all resolved when a poll happens to come.
- **A format with defaults.**  A configuration is a map of small integers: what is
  absent is defaulted, what is unknown is skipped.

What makes each component correct:

- *Policies and engine*: a slot acts only on a round its policy describes; a code
  serves once; vetoes, budgets, lockouts and gates hold in every interleaving;
  the end of a sustain always owes the re-lock.
- *Receipts*: each event has a counter of its own; a validator accepts each counter
  at most once and in order.
- *Reveal*: no real code is shown while a gate, the ritual or the chain says no.
- *Store and provisioning*: after any power loss the mounted configuration is one
  that was committed; an accepted sequence number never goes back.
- *Frame link*: frames that arrive whole are found, in order, whatever lies between
  them; a request that is repeated is answered in the end.
- *Config decoding*: a device runs what its owner wrote, field by field, or is shut.
- *Generator task*: a code is shown on a fresh fix inside the fence, inside the
  ritual's window, and leaves the screen.
- *Lock board*: a challenge serves one command; nonces never come back after a
  reset that left the mark in EEPROM whole; a completed write is serviced.
- *Actuator*: pins and rail follow one step at a time, every cycle ends, and an idle
  board drives nothing.

`PROJECT.json` lists the hazards of the code line by line, with the property that
watches each one.

## 2. Modules

| module | what it models |
|---|---|
| `SlotPolicy` | `policy.rs` as operators: `OnCode`, `Expired`, `Candidates`, pacing draws |
| `LockEngine` | `engine.rs`: one action per public method, one per outcome of `enter_code_with` |
| `UnlockContract` | what the engine promises, without policies or codes (abstract) |
| `LockHistory` | the engine with history variables; the promises of `policy.rs` over them; the refinement of `UnlockContract` |
| `LockEmulator` | the engine under the caller written in `ephemerkey-emu/src/main.rs` |
| `MCLock`, `MCLockEmulator` | slot tables for TLC |
| `DurableRegister` | what a store that survives power loss promises (abstract) |
| `ConfigStore` | the flash journal of `ephemerkey-store`: mirror, two slots, erase and write as separate steps |
| `Envelope` | what a signature and a seal cover, as operators |
| `Provision` | `ephemerkey-provision` over that journal: transfer, checks, commit, acknowledgement |
| `FrameLink`, `MCLink` | the frame parser, the queue behind it and the USB pump, with noise, broken connections and a host that repeats its request |
| `ConfigDecode` | `ephemerkey-config`: every field parser, and the tables built for the engines |
| `ScenarioEncode` | the encoder of `ephemerkey-emu`: the document an owner seals |
| `ConfigBoot`, `MCConfig` | from a scenario through transfer, flash and boot to the tables a device runs on; owners, blobs and documents for TLC |
| `Receipts` | `receipt.rs` as operators: the code a person carries, and what a validator accepts |
| `RevealGate` | `reveal.rs`: ritual windows, show-once cadence and receipt chain, with the lock that mints, the clock and restarts |
| `MCReveal` | generator keys for TLC |
| `GeneratorTask`, `MCGenerator` | the button task over `RevealGate`, the emission gate and the clock that fixes set |
| `Actuator` | `actuate.c` over the pins of its drivers |
| `LockBoard`, `MCLockBoard` | the bus interrupt, the main loop, nonces and EEPROM over `Actuator`; blobs and bus masters for TLC |
| `LockEngineProofs`, `LockHistoryProofs`, `ProvisionProofs`, `FrameLinkProofs`, `RevealGateProofs`, `GeneratorProofs`, `LockBoardProofs`, `LockEmulatorProofs` | the theorems |

`LockEngine` extends `SlotPolicy`; `LockHistory` and `LockEmulator` each extend
`LockEngine`, the one with what happened, the other with who calls.  `Provision`
extends `Envelope` and `ConfigStore`, which implements `DurableRegister`; `ConfigBoot` composes
`Provision` with `ScenarioEncode` and, through it, `ConfigDecode`.  `GeneratorTask`
extends `RevealGate`, which extends `Receipts`, and every step of it is shown to be
a step of `RevealGate`.  `LockBoard` extends `Actuator`.  `FrameLink` stands alone:
what it delivers are the frames that `Provision` takes in any order.

### How the engine's state and actions correspond to the code

Every field of `LockEngine` that changes is a variable of the same name; the slot
table, key table and feature switches are constants.  `armed_until: [Option<u32>]`
is a function with `NotArmed` for `None`; the receipt buffer keeps its places, so
that holes are visible.  `outcome` is the value the last call returned.

`enter_code_with` is a sequence of early returns.  `EnterCode` follows it: the
tick every call begins with is folded in through `TickedState`, `TickedArmed`,
`TickedFired`, `TickedRelock`, `TickedFire` and `TickEvents`; then
`EnterVetoed`, else the scan (`Hits`, `ScanStopsAt`) and `EnterRefused`,
`EnterAdvanced`, `EnterSatisfied`, `EnterNegative`, else `EnterInvalid`.

What is abstracted, and why it is sound to:

- A code is the pair (key, counter) it was minted from.  Digits that collide
  between keys are a probability, not a behaviour of this code.
- The xorshift draw of jittered pacing is any value it can return.
- The environment passed to `enter_code_with` is the set of shut gates: the
  gate predicates are pure.
- Receipts keep their counter and action; the codes in them are functions of
  these and of time.
- Elapsed times are `u32` subtractions, modulo `Word`.  The runs use a `Word` far
  above every time in them, so a difference wraps exactly when the clock has
  been set back, and wraps to a large number, as in the code.

In the store, `flash[s]` is what a mount would make of slot `s`: a whole record, or
`Blank` for a page that is erased, torn or fails its CRC.  `persist()` is cut where
its outcome can be: `Begin` (the mirror has changed), `Erase`, `Write`, and
`FlashFails` in place of either.  `PowerLoss` may come between any two of them and
`Mount` reads the slots as `load_config` does.  In `Provision` each frame is an
action; COMMIT and WIFI_SET stop at the store (`job`) until `Saving` is done and
`Answer` signs.  Hosts are unconstrained: any frame of any blob may come next, so
lost frames, lost answers, retries and mixed transfers need no actions of their
own.  Abstracted there:

- A blob is what `Envelope` puts into it: the key id, configuration and sequence
  number it shows, its signature and its tag, each being what it was computed from.
  Cryptography is taken to work; an owner is its key, and an id that is no key is
  `NoOwner`.  The CRC announced by BEGIN identifies a blob.
- Reads succeed; a refused write leaves no complete record; the generation, a
  `u32`, does not wrap within the life of the flash.
- The identity page (written at first boot only), the event ring, and the text of
  answers that carry no signature.

A configuration is a document (`Document[c]`): a scenario, and the edits another
writer of the format would make to its encoding.  `scenario_to_cbor` and `Parse`
are the encoder and the decoder, one operator per function of the source, over a
tree of CBOR items; `ReadMap` is the loop every map parser has, and the fields of a
map are a table.  `Boot` mounts the journal and loads what is there.  `RunsAsWritten`
compares what then runs with the scenario itself, in its own terms.

- A secret is its name and its length, a zone its radius; that the bytes form a tree
  of items is taken for granted.
- 8-bit and 16-bit numbers are cut as the code cuts them (`Width`); 32-bit ones are not.

In `FrameLink` a read takes any number of tokens up to a packet, `Scanned` is
`Parser::scan` as a recursive function, and `Handled` the two frames `feed` keeps.
Bytes come in tokens of two; the checksum is injective, and no payload or noise
contains one (`ChecksumAssumption`); both may look like a magic and a header.  The
host is external.

On the lock board the main loop is a program counter whose steps end wherever the
interrupt can tell; a bus event is one action, and an event wakes the loop.
`take_challenge` runs with interrupts off and is one step, while the copy of a nonce
is two.  Booting is steps of the loop as well, with the bus still off (`twi.on`).  The
mark of the nonce counter is written byte by byte, so a reset can leave part of the
new one and part of the old (`SaveHalf`, `Partly`): where the write is cut
(`Boundaries`) and which part comes first are both left open.  In `Actuator`,
`ActuateTick` is one tick of the phase machine.

- Messages are chunks rather than bytes; a MAC is what it was computed from; the
  32-bit counter does not reach its end.  A message may be longer than any buffer
  (`Overlong`).
- An erased EEPROM reads as a mark of 0, which is what `nonce_init` makes of it; the
  first write, from 0xFFFFFFFF in the code, is from 0 here.
- A call of the actuator engine is one step.  In the code the pin changes a few
  instructions before its bit in STATUS, with interrupts on (`actuate.c:292-293`,
  `181-183`, `189`), so a master that reads STATUS in between sees the old bit once:
  `StatusIsLive` speaks of the board between two calls of the engine.
- A sub-phase has elapsed or not; the two servos are one; pulse widths and duty cycles are
  left out.  A reset outlasts the discharge of the rail (`ResetBleeds`).
- The sensor bits of STATUS and the boot window are not told apart.

In the generator, `key_state[k]` is `GenKeyState` with the expected counter of the
key's chain validator; `reveal` is three actions, one for each thing the display
may then show: the real code, the decoy twin, or nothing.  `FeedChain` feeds any
code a person ever carried, so that slips are kept, swapped and fed again.

- The lock is reduced to its receipts (`LockMints`, `LockRestarts`), the ritual
  engine to its outcomes: either may fire whenever a ritual is dialed.
- A ritual is dialed only while the device looks locked.  That is the rule of the
  button task (`generator.rs`), and the windows need it: with a clock set back
  and a second duress ritual inside the first one's window, `duress_until` would
  fall behind an `unlocked_until` that only a duress ritual had raised.  The
  emulator's `gen unlock` command does not have the rule.
- The code of a receipt is what its HMAC binds; lock and generator read one clock.

In `GeneratorTask` one `Poll` is one round of the task's loop: mode sync, buttons,
taps, doubles, holds, then the screen.  `Elapse` is a unit of the time gestures are
measured in, `Second` a second of the clock, `Fix` a sentence from the receiver;
all three fall between polls in any order.

- The digit being set is left out: a dialed code is its length, and what the ritual
  makes of it is any outcome.
- Two buttons turn the ring or do not; the times of gestures and of the clock are
  not related to each other.
- Every date a fix reports is accepted; the zone test is any outcome.

## 3. Runs

Times are scaled so that `PERIOD_S` is 2: a code can be half a period old and
windows straddle period boundaries.  `StartTime` leaves two whole periods before
power-up, so that stale codes exist.

| run | asks | bounds |
|---|---|---|
| `lock_rounds` | Is every fire justified by its codes, budgeted, once per code, after its veto delay; does the engine implement `UnlockContract`? | one table, three scenarios: a delayed, jittered three-code rhythm in 10 s; a path through a repeated zone key above an alternating, paced quorum on the same keys, 2 s, with room for a member to repeat a code between two others; a gated, decoyed rhythm with lockout above a budgeted courier slot with a veto, 3 s, the clock set back and forth |
| `emu_commands` | Does draining after every command keep the caller in step with the engine, and is no receipt lost or reordered? | a dead-man and a vetoable slot; `Len(SlotTable) + 1` receipts, as in the code; the fire counter saturates at 2 |
| `prov_store` | Does any power loss, flash fault, retry or mixed transfer lose an owner binding or an acknowledged configuration; is the journal an atomic register; does a boot run what the owner wrote? | four blobs of two owners, two chunks each, three saves, each of which may fail or be cut; and about eighty other documents, and six blobs that are spoilt (sealed for another device, renumbered, changed inside or outside the seal, without a key id or under another's), each sent alone, as the protocol has it, with power cuts |
| `reveal_chain` | Can any order of rituals, reveals, receipts, clock corrections and restarts show a real code in a duress window, outside a ritual's, or without a receipt? | clock of 3 s with windows of 2 s, three receipts for each power-up of the lock, look-ahead 2: skipped, stale, repeated and re-minted receipts all occur |
| `gen_task` | Does the button task show codes only on a fresh fix in the ritual's window, take them down again, and drive the gate by its rules? | a gated key with a twin and a bare key; a dial of one digit; holds of three units, doubles of two; one clock correction; with and without a ritual |
| `board` | Do interrupt and loop lose a write, repeat a nonce or accept a message twice over; does every cycle end, and no rail, coil or servo stay on? | four masters: faulty writes, two resets, starts and reconfigurations in mid-cycle, a first configuration cut by a reset; two or three reads, one or two writes each, of which one too long; resets in the midst of an EEPROM write, the mark's cut at a byte (`Boundaries` {4}); two steps a sequence |
| `link` | Are whole frames found in order through noise and breaks, and every request answered? | two requests, the second one's payload a magic and a header; one burst of each kind of noise, one break; packets of up to 7 tokens |
| `emu_late_beat` | *fails*: does the caller agree with the engine when the clock is set forward past a beat? | one slot |
| `emu_receipt_overflow` | *fails*: does the buffer hold the events of one call? | two dead-man slots with veto windows, three places |
| `prov_failed_commit` | *fails*: does a commit that the flash refused change nothing? | as `prov_store` |
| `prov_unchecked_config` | *fails*: can the next boot run what the device acknowledged? | a document that names the cascade as critical |
| `board_nonce_reuse` | *fails*: is each nonce accepted once? | one master that configures while a command is verified |

The failing runs record five places where a document or a comment of the code says
more than the code does; `PROJECT.json` quotes them under `findings`:

1. After a missed beat that no tick has noticed, a late code re-locks and re-fires
   the slot in one call; the caller performs the fire first and the re-lock
   second, and the slot is sustained with the bolt closed (`engine.rs:245`).
2. A slot can owe a re-lock and a delayed fire in the same tick, so one call can
   mint more events than the buffer has places (`engine.rs:173`).
3. `commit_config` changes the mirror before it saves, and keeps the change when the
   save fails: the device answers STORAGE, then refuses a retry as a rollback, and
   a later WiFi save makes the refused commit durable.
4. The device's store does not override `validate_config`: it signs the
   acknowledgement of a configuration that its own decoder refuses at the next boot,
   and then runs shut.  (With the check the emulator makes before it commits,
   `Unfit <- Undecodable`, `AckedRuns` holds.)
5. A NONCE read after the loop has looked at `twi_nonce_consumed` arms a nonce that
   is not replaced before a CONFIG write under it is serviced; a second read arms it
   again, and two messages are accepted under one nonce (`main.c:154`).  Each of them
   was still paid for by a read (`ReadPerAcceptance`).

Seven more places are worth a reader's attention, though no run of their own:

- A quorum member's repeated code is answered `Ignored` and yet moves the pacing
  reference (`policy.rs:411-414`).  So a quorum's contributions are not paced "exactly
  like Sequence" (`policy.rs:142-146`): with `gap_max_s` one period, codes of C, B and A
  complete a quorum though the last two were minted two periods apart, when C repeats a
  code between them.  `RoundJustified` claims for a Quorum what the code does, a pace from
  the newest code the slot had accepted (`PacedByAny`); with `Paced` in its place, as
  for a Sequence, TLC finds this round in `lock_rounds`.
- `alternating` compares with the last *contributor* (`policy.rs:407`), not with the
  last code: after A, B, A a second code of A is ignored, although "the same key
  twice in a row resets the round" (`policy.rs:141`).
- `nonce.c` writes the mark of its counter with `eeprom_update_dword`, one byte after
  the other.  If the low byte goes first and the write carries into the next, as from
  0x000000C0 to 0x00000100, a reset in between leaves 0: the counter starts again and
  nonces come back, although they are to "never repeat across reboots/power loss"
  (`nonce.h:4-6`).  `past.lost` records that it happened and
  `NoncesNeverRepeat` excludes it; without that premise TLC finds the repetition in
  `board`.  A write that begins with the high bytes can lose nothing
  (`TopDownKeepsTheMark`).
- STATUS can be read between a pin and its bit, see section 2.
- `ServoOffHotRail` needs `ResetBleeds`: after a reset too short to empty the rail,
  the flag that remembers its charge is gone and a servo can be put on a hot rail
  (`actuate.c:219`).  With `ResetBleeds = FALSE` and the master `JustRestarting` TLC
  shows it.
- A dead-man slot that opens at once and has spent its budget is sustained by the
  next code, which fires nothing: `on_code` sets `sustained` (`policy.rs:381-390`)
  before the engine looks at the budget (`engine.rs:357-360`).  Then it is sustained
  on a locked bolt, against `engine.rs:267-271`.
- A release in the poll in which a pending tap runs out replaces that tap, which is
  then lost (`generator.rs:181`).

Deadlock is checked in every run but `board`, `board_nonce_reuse` and `link`: there
masters, requests and noise are finite, and a board at rest or a host that has all
its answers has nothing left to do.  Elsewhere time can be bounded, but a tick or a
code, a frame or a power loss is always possible.

### Fairness

The lock engine, the store and the reveal gate have safety properties only: nothing
guarantees that a lock is ticked or a host returns.  Three runs state liveness:

- `board` (`WritesServiced`, `CyclesEnd`): weak fairness of the loop's next step, of
  the millisecond interrupt while its timer runs, and of the end of a sub-phase.  The
  processor runs its loop unless it sleeps, and the timer is hardware.  Nothing is
  asked of the bus master.
- `gen_task` (`WindowCloses`): weak fairness of a poll, of the gesture clock and of
  the second.  The executor runs the task from a timer; no button need be pressed
  and no fix need come.
- `link` (`RequestsAnswered`): weak fairness of the connection, the pump's reads and
  writes, and the host's sending.  The answer also rests on the host not giving up,
  which is outside this repository; noise and breaks are finitely many.

## 4. Theorems

TLC checks tables of a few slots; the theorems about the lock hold for every `SlotTable`,
`Decoy`, `PERIOD_S`, `Word`, `MaxReceipts`, `FiredMax` and clock, under the
assumptions named in `SlotPolicy` and `LockEngine`: a slot has a candidate key for
every leg, delay windows are not inverted, budgets fit their width.

`LockEngineProofs` rests on one inductive invariant, `Inv`:

- `TypeOK` alone is inductive, and is proved first.
- `RoundInv(i)` is `RoundCoherent` for a slot, strengthened by what an open round
  must look like for the next code to keep it coherent: a state with no count is
  `Fresh` in the fields that matter, an open round's last counter is the
  watermark, and a quorum's mask is a finite set counted by `count`.
- `BudgetInv(i)` strengthens `BudgetKept`: an armed slot with a budget has
  `fired_count` strictly below it, for the fire that is still to come.  Without
  this conjunct the tick that fires would not preserve the bound.

`TypeCorrect`, `BudgetSafe` and `RoundsCoherent` follow from it; `SustainReleased`
and `ReceiptsUnique` are proved over the same actions.  The receipts need a
counting argument: the k-th hole takes the k-th event, so two places never take
the same event (lemmas on `HoleNumber` and `Rank`).

`LockHistoryProofs` adds `HInv`, which ties the history to the engine's state:
`consumed` is at most the watermark, the codes of an open round lie between the
two, and `armed_at` is set exactly when `armed_until` is, `veto_delay` earlier.
From it follow `ServesOnce`, `VetoKept`, and `KeepsContract`: every step of the
engine is a step of `UnlockContract` or changes none of its variables.

`RoundsEarned`, in the same module, is `RoundJustified` for every table: no slot acts
without the whole round its policy describes.  Its invariant `JInv` adds to `HInv`
what the few fields of an open round know of the codes typed in it (`Round`), policy
by policy: a Sequence knows its newest counter, its window start and a pace within
the slot's (`Rhythmic`); a Path the legs behind its count (`Routed`); a Quorum which
members contributed, each paced by the newest code accepted before it (`Gathered`).  One lemma per policy (`Follows`) then shows that
the next code either completes such a round, extends it or starts afresh.  The
theorem assumes `ClockFits`: no time the clock shows is within a window of the end of
the 32-bit second counter, in the year 2106.  Otherwise a clock set back by nearly
the counter's whole range would pass for one that moved on by seconds.

`LockEmulatorProofs` proves what `emu_commands` checks of the engine's caller.  `EInv`
says that all rests on the order of the drains: each command that reads the clock
ticks and drains, so that between commands no dead-man slot is stale, nothing is
owed and the receipt buffer is empty; in the midst of a command a slot is sustained
exactly when its bolt is as it fired it and no re-lock is owed (`Agrees`), and the
receipts lie in the order of their events (`Sorted`).

- `DrainsOldestFirst` holds as it stands.
- `BoltFollowsSustain` holds for tables in which no dead-man slot that opens at once
  has a budget (`NoBudgetedSustain`).  With a budget it is false, see section 3.
- `NoReceiptLost` holds where the buffer has a place for a fire of every slot and a
  re-lock of every dead-man slot (`RoomPerCall`).  With the `MAX_SLOTS + 1` places of
  the code that is any full table with one dead-man slot, or any table half full;
  `emu_receipt_overflow` is a table where it fails.  The argument counts: the events of
  a call have ranks (`Ranked`) that are onto 1 .. n (`RankOnto`), the k-th event goes
  to the k-th hole (`MintHeld`), and a call has at most one event for each slot and
  one more for each dead-man slot (`EventsFit`).

The first half of `ProvisionProofs` proves that the journal refines `DurableRegister`
(`StoreIsAtomic`), for every set of owners, configurations and credentials.  Its
invariant `JInv` says that while there is power the journal's `cur_slot` is the slot
a mount would choose and `generation` its generation, which no single field check
implies: an erase then never touches the live record (`BlankedTarget`), and the
record that is written is newer than the one left behind (`WrittenTarget`).  The
assumptions are the typing ones named in `ConfigStore`.

`RevealGateProofs` proves all that `reveal_chain` checks, for every table of keys,
window, look-ahead, receipt mode and clock:

- `Windows`: `unlocked_until` is the deadline of the last unlocking ritual or of
  the last duress ritual, and never before the latter.  Its induction is where
  the rule that no ritual is dialed in an open window is needed.  `DuressWins`,
  `GateHolds` and `DuressUnseen` follow.
- `Ledger(k)`: a chain's accepted codes lie below the counter it expects, and a
  chain that is not spent has an accepted code left for its next reveal.
  `ChainsPaid` follows; that a code is new to the ledger (`NewWitness`) is the
  step where a validator that accepts a counter twice would fail.

The other half of `ProvisionProofs` builds on it.  Its invariant `PInv` adds to `JInv`
that the RAM mirror may be ahead of flash, by a save that failed, but never behind it
or beside it (`Ahead`); that whoever has no owner has no version (`Unbound`); and that
a commit waiting for its answer is in the mirror, and in flash once the save is done
(`JobInMirror`).  `Ahead` is why finding 3 does no lasting harm to what was
acknowledged: a refused commit can only be newer, and of the same owner.
`AcksAreDurable`, `AcksGrow` and `OwnerStays` follow, for any number of blobs,
chunks, restarts and faults, and whatever is sent: what is acknowledged was signed by
the owner it names and sealed for this device with its number (`GenuineOnly`).

`GeneratorProofs` proves the safety side of `gen_task` for every ring of keys,
deadline, window and staleness limit.  `Latch` ties the fence latch to the last fix,
`Window` the open window to the last ritual that fired: the latter is inductive only
because a ritual is dialed in a shut window, which the task enforces.  `KeepsGate`
says that every step of the task is a step of `RevealGate`, so that what
`RevealGateProofs` proves of such steps holds of the task's.

`LockBoardProofs` proves two properties of the nonces for every stride, blob and
master.  `Counter` orders the first halves of all nonces: this life's are at most the
counter (`Numbers`), the counter is below the mark in EEPROM or the mark is being
written (`Marked`), and every nonce of an earlier life is below all of this one's
(`Aged`), as long as no reset has cut a write of the mark and left it lower; so
`NoncesAreFresh`, with that exception in its statement.  `TopDownKeepsTheMark` says
that the exception is one of order alone: half a write that starts with the high bytes
never lowers the mark.  Only the first half of a nonce is needed, which is why a read
that catches one half copied does no harm here.  `Ledger`
counts an armed nonce, and one taken for a message not yet verified, as reads not yet
paid out; so `ReadsPayForMessages`, in spite of finding 5.

The same module proves the safety of the actuator and of the mailbox.  `BInv` is
`AInv` and `MInv`.  `AInv` describes the engine and the pins in every sub-phase of a
cycle (`Cycling`): the supply and coil of a step are those it asks for and no
others', a charged rail is remembered (`s_rail_hot`), and an idle board drives
nothing (`Quiet`).  It is inductive only with the state of the rail in it, through
aborts, writes of new sequences and resets in mid-cycle.  `MInv` types what is in
transit: the mailbox both messages share, and the main loop's copy of it, hold whole
or partial messages that masters sent.  `BoardTypes`, `IdleDrivesNothing`,
`StatusTells`, `OnlyItsStepDrives`, `ServoNeverHot` and `NoEdgeNoEarlyOff` follow.
`ServoNeverHot` assumes `ResetBleeds` (section 3); `NoEdgeNoEarlyOff` assumes that a
sensor must agree more than once (`CONFIRM_N > 1`; the firmware has 50).

`FrameLinkProofs` proves the safety of the link for every set of requests, all noise,
every length of packets and payloads and any number of breaks.  `Scanned` is
recursive, and a theorem of induction over a formula is out of the provers' reach;
the module proves one over sets instead.  `Recursion` says that a functional which
looks only at lesser arguments has a fixpoint; a round of the scan's loop shortens
the buffer (`NextType`), so `Scanned` is that fixpoint (`ScanRound`), and what holds
of every round holds of every scan (`ScanInduction`).  `FedSteps` does the same for
the fold of a read over its tokens.

- `RoomForEveryByte`: a scan returns only with less than a whole frame in its
  buffer.  It needs no assumption on checksums.
- `FramesInOrder`: its invariant `OrderInv` follows the checksums through the link.
  Those in the buffer come before those on the wire, both rise, and none is below
  the last frame found or above the host's request.  Dropping bytes keeps that;
  finding a frame moves its checksum from the buffer to the frames (`Shed`).
- `NoFrameLost`: its invariant `TrackInv` says that the buffer is the end of the
  stream, and that no frame that began before it can still be completed (`Tracks`).
  A round drops no place where a frame starts, unless it takes that frame
  (`RoundLossless`).  That a bad frame is given up only to the end of its magic, and
  that no frame starts inside another (`FrameAlone`), are the two facts this rests
  on; the second is where payloads must hold no checksum.

Model-checked only:

- `RunsAsWritten`: the decoder folds over the fields of a document, whose number and
  nesting are the document's;
- liveness: `WindowCloses`, `CyclesEnd`, `WritesServiced`, `RequestsAnswered`;
- the properties of the failing runs.

## 5. Plan

What is left, in order:

1. The receipt validator that sees whole receipts (`verify`), over a relay that
   loses, duplicates and delays them, in `Receipts`.
2. The event ring of the provisioning engine and the identity challenge, above
   `Provision`.
3. The emulator's generator commands, composed with the lock: codes shown under
   duress never open it.
4. `RunsAsWritten` for every scenario, with the induction of `FrameLinkProofs`.

## 6. Not modelled

NMEA and CRC (pure functions with their own tests), ciphers, signatures and byte-level
CBOR (taken to work), HMAC and truncation (an injective function), zone
geometry, display and sensor drivers, the reading of a scenario's text, the
rendering of screens, and the older C application under `ephemerkey-stm32`.
