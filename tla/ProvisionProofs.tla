---------------------------- MODULE ProvisionProofs ----------------------------
(***************************************************************************)
(* The flash journal implements DurableRegister, for every set of owners,  *)
(* configurations and credentials and any number of saves, power losses    *)
(* and flash faults; and what the provisioning engine promises above the   *)
(* journal, for every set of blobs and chunks besides and any number of    *)
(* frames.                                                                 *)
(***************************************************************************)
EXTENDS Provision, TLAPS


(***************************************************************************)
(* While there is power the journal knows which slot is live: the one a    *)
(* mount would choose, under its generation.  After the erase the target is*)
(* blank.                                                                  *)
(***************************************************************************)
LiveGeneration == IF Newest = NoSlot THEN 0 ELSE flash[Newest].generation

JInv ==
  /\ JTypeOK
  /\ On => cur_slot = Newest /\ generation = LiveGeneration
  /\ ~On => stage = "idle"
  /\ stage = "write" => flash[Target] = Blank

LEMMA TargetType == Target \in Slot
BY DEF Target, Slot

\* A slot that loses its record was not the live one, and the live one stays.
LEMMA BlankedTarget ==
  ASSUME JInv, On, NEW page \in {flash[Target], Blank},
         flash' = [flash EXCEPT ![Target] = page]
  PROVE  /\ Newest' = Newest
         /\ Mounted' = Mounted
         /\ LiveGeneration' = LiveGeneration
         /\ flash' \in [Slot -> Record \cup {Blank}]
<1>1. flash \in [Slot -> Record \cup {Blank}] /\ cur_slot = Newest
  BY DEF JInv, JTypeOK
<1>2. CASE cur_slot = "a"
  <2>1. Target = "b" /\ flash'["a"] = flash["a"] /\ flash["a"] # Blank
    BY <1>1, <1>2 DEF Target, Slot, Newest, NoSlot
  <2>2. flash'["b"] = page /\ flash' \in [Slot -> Record \cup {Blank}]
    BY <1>1, <2>1 DEF Slot
  <2>3. Newest' = "a"
    BY <1>1, <1>2, <2>1, <2>2 DEF Newest, NoSlot
  <2>4. QED
    BY <1>1, <1>2, <2>1, <2>2, <2>3 DEF Mounted, LiveGeneration
<1>3. CASE cur_slot # "a"
  <2>1. Target = "a" /\ flash'["b"] = flash["b"]
    BY <1>1, <1>3 DEF Target, Slot
  <2>2. flash'["a"] = page /\ flash' \in [Slot -> Record \cup {Blank}]
    BY <1>1, <2>1 DEF Slot
  <2>3. Newest' = Newest /\ Newest \in {"b", NoSlot}
    BY <1>1, <1>3, <2>1, <2>2 DEF Newest, NoSlot
  <2>4. QED
    BY <2>1, <2>2, <2>3 DEF Mounted, LiveGeneration, NoSlot
<1>4. QED
  BY <1>2, <1>3

\* The record that persist() writes is newer than the one it leaves behind.
LEMMA WrittenTarget ==
  ASSUME JInv, Write
  PROVE  /\ Newest' = Target
         /\ Mounted' = mirror
         /\ LiveGeneration' = generation + 1
         /\ flash' \in [Slot -> Record \cup {Blank}]
<1> DEFINE rec == [generation |-> generation + 1, contents |-> mirror]
<1>1. /\ flash \in [Slot -> Record \cup {Blank}] /\ generation \in Nat
      /\ mirror \in Contents /\ cur_slot = Newest /\ generation = LiveGeneration
  BY DEF JInv, JTypeOK, Write, On
<1>2. rec \in Record /\ rec # Blank
  BY <1>1, BlankAssumption DEF Record
<1>3. /\ flash' = [flash EXCEPT ![Target] = rec]
      /\ flash'[Target] = rec
      /\ flash' \in [Slot -> Record \cup {Blank}]
  BY <1>1, <1>2, TargetType DEF Write, NextGeneration
<1>4. CASE cur_slot = "a"
  <2>1. Target = "b" /\ flash'["a"] = flash["a"] /\ flash["a"] # Blank
    BY <1>1, <1>3, <1>4 DEF Target, Slot, Newest, NoSlot
  <2>2. generation = flash["a"].generation
    BY <1>1, <1>4 DEF LiveGeneration, NoSlot
  <2>3. flash'["b"].generation > flash'["a"].generation
    BY <1>1, <1>3, <2>1, <2>2
  <2>4. Newest' = "b"
    BY <1>2, <1>3, <2>1, <2>3 DEF Newest
  <2>5. QED
    BY <1>3, <2>1, <2>4 DEF Mounted, LiveGeneration, NoSlot
<1>5. CASE cur_slot = "b"
  <2>1. Target = "a" /\ flash'["b"] = flash["b"] /\ flash["b"] # Blank
    BY <1>1, <1>3, <1>5 DEF Target, Slot, Newest, NoSlot
  <2>2. generation = flash["b"].generation
    BY <1>1, <1>5 DEF LiveGeneration, NoSlot
  <2>3. ~(flash'["b"].generation > flash'["a"].generation)
    BY <1>1, <1>3, <2>1, <2>2
  <2>4. Newest' = "a"
    BY <1>2, <1>3, <2>1, <2>3 DEF Newest
  <2>5. QED
    BY <1>3, <2>1, <2>4 DEF Mounted, LiveGeneration, NoSlot
<1>6. CASE cur_slot = NoSlot
  <2>1. Target = "a" /\ flash'["b"] = Blank
    BY <1>1, <1>3, <1>6 DEF Target, Slot, Newest, NoSlot
  <2>2. Newest' = "a"
    BY <1>2, <1>3, <2>1 DEF Newest
  <2>3. QED
    BY <1>3, <2>1, <2>2 DEF Mounted, LiveGeneration, NoSlot
<1>7. QED
  BY <1>4, <1>5, <1>6 DEF JInv, JTypeOK, Slot

LEMMA MountedType ==
  ASSUME JTypeOK
  PROVE  Mounted \in Contents
<1>1. Empty \in Contents
  BY DEF Empty, Contents
<1>2. QED
  BY <1>1 DEF JTypeOK, Mounted, Newest, NoSlot, Slot, Record

LEMMA JInitInv == JInit => JInv
<1> SUFFICES ASSUME JInit PROVE JInv
  OBVIOUS
<1>1. JTypeOK
  BY DEF JInit, JTypeOK, Empty, Contents
<1>2. Newest = NoSlot
  BY DEF JInit, Newest, Slot
<1>3. QED
  BY <1>1, <1>2 DEF JInit, JInv, LiveGeneration

\* A frame that reaches the store gives the mirror its new contents.
LEMMA BeginInv ==
  ASSUME JInv, NEW contents \in Contents, Begin(contents)
  PROVE  JInv' /\ Mounted' = Mounted /\ mirror \in Contents
<1>1. Newest' = Newest /\ Mounted' = Mounted /\ LiveGeneration' = LiveGeneration
  BY DEF Begin, Newest, Mounted, LiveGeneration
<1>2. JTypeOK'
  BY DEF JInv, JTypeOK, Begin
<1>3. On /\ On' /\ mirror \in Contents
  BY BlankAssumption DEF JInv, JTypeOK, Begin, Idle, On
<1>4. stage' = "erase" /\ cur_slot' = cur_slot /\ generation' = generation
  BY DEF Begin
<1>5. QED
  BY <1>1, <1>2, <1>3, <1>4 DEF JInv

LEMMA Saves ==
  ASSUME JTypeOK, JNext
  PROVE  \/ \E contents \in Contents : Begin(contents)
         \/ UNCHANGED jvars
         \/ Erase \/ Write \/ FlashFails \/ PowerLoss \/ Mount
<1>1. ASSUME NEW owner \in Owner, NEW seq \in Nat, NEW config \in Config,
             CommitConfig(owner, seq, config)
      PROVE  \E contents \in Contents : Begin(contents)
  <2> DEFINE new == [mirror EXCEPT !.owner = owner, !.seq = seq, !.config = config]
  <2>1. mirror \in Contents /\ Begin(new)
    BY <1>1 DEF JTypeOK, CommitConfig, Begin, Idle, On
  <2>2. new \in Contents
    BY <1>1, <2>1 DEF Contents
  <2>3. QED
    BY <2>1, <2>2
<1>2. ASSUME NEW wifi \in Wifi \cup {NoWifi}, Begin([mirror EXCEPT !.wifi = wifi])
      PROVE  \E contents \in Contents : Begin(contents)
  BY <1>2 DEF JTypeOK, Begin, Idle, On, Contents
<1>3. QED
  BY <1>1, <1>2 DEF JNext, WifiSet, WifiClear, CommitTooBig

LEMMA JNextInv == JInv /\ [JNext]_jvars => JInv'
<1> SUFFICES ASSUME JInv, [JNext]_jvars PROVE JInv'
  OBVIOUS
<1>1. ASSUME NEW contents \in Contents, Begin(contents) PROVE JInv'
  BY <1>1, BeginInv
<1>2. CASE UNCHANGED jvars
  BY <1>2 DEF JInv, JTypeOK, jvars, On, Newest, LiveGeneration, Target
<1>3. CASE Erase
  <2>1. /\ Newest' = Newest /\ LiveGeneration' = LiveGeneration
        /\ flash' \in [Slot -> Record \cup {Blank}]
    BY <1>3, BlankedTarget DEF Erase
  <2>2. Target' = Target /\ flash'[Target] = Blank
    BY <1>3, TargetType DEF Erase, Target, JInv, JTypeOK
  <2>3. QED
    BY <1>3, <2>1, <2>2 DEF Erase, JInv, JTypeOK, On
<1>4. CASE Write
  <2>1. /\ Newest' = Target /\ LiveGeneration' = generation + 1
        /\ flash' \in [Slot -> Record \cup {Blank}]
    BY <1>4, WrittenTarget
  <2>2. QED
    BY <1>4, <2>1, TargetType DEF Write, NextGeneration, JInv, JTypeOK, On
<1>5. CASE FlashFails
  <2>1. PICK page \in {flash[Target], Blank} : flash' = [flash EXCEPT ![Target] = page]
    BY <1>5 DEF FlashFails
  <2>2. /\ Newest' = Newest /\ LiveGeneration' = LiveGeneration
        /\ flash' \in [Slot -> Record \cup {Blank}]
    BY <1>5, <2>1, BlankedTarget DEF FlashFails
  <2>3. QED
    BY <1>5, <2>2 DEF FlashFails, JInv, JTypeOK, On
<1>6. CASE PowerLoss
  BY <1>6 DEF PowerLoss, JInv, JTypeOK, On
<1>7. CASE Mount
  <2>1. Newest' = Newest /\ LiveGeneration' = LiveGeneration
    BY <1>7 DEF Mount, Newest, LiveGeneration
  <2>2. Mounted \in Contents /\ Mounted # Blank
    BY MountedType, BlankAssumption DEF JInv
  <2>3. Newest \in Slot \cup {NoSlot} /\ LiveGeneration \in Nat
    BY DEF JInv, JTypeOK, Newest, NoSlot, Slot, LiveGeneration, Record
  <2>4. QED
    BY <1>7, <2>1, <2>2, <2>3 DEF Mount, JInv, JTypeOK, On, LiveGeneration
<1>8. QED
  BY <1>1, <1>2, <1>3, <1>4, <1>5, <1>6, <1>7, Saves DEF JInv

\* The journal's fields keep their types.
THEOREM StoreTypeCorrect == JSpec => []JTypeOK
<1>1. JInv => JTypeOK
  BY DEF JInv
<1>2. QED
  BY <1>1, JInitInv, JNextInv, PTL DEF JSpec

\* Every step of the journal is a step of the register or none at all: what a
\* mount would find changes only when a save completes, to the whole of what
\* was saved (persist, ephemerkey-store/src/lib.rs:261-309).
THEOREM StoreIsAtomic == JSpec => SavesAreAtomic
<1>1. JInit => Register!Init
  BY DEF JInit, Register!Init, Mounted, Newest, Slot
<1>2. JInv /\ [JNext]_jvars => [Register!Next]_(Register!rvars)
  <2> SUFFICES ASSUME JInv, [JNext]_jvars PROVE [Register!Next]_(Register!rvars)
    OBVIOUS
  <2>1. ASSUME NEW contents \in Contents, Begin(contents) PROVE Register!Save
    <3>1. Mounted' = Mounted
      BY <2>1, BeginInv
    <3>2. QED
      BY <2>1, <3>1 DEF Begin, Idle, On, Register!Save
  <2>2. CASE UNCHANGED jvars
    BY <2>2 DEF jvars, Register!rvars, Mounted, Newest
  <2>3. CASE Erase
    <3>1. Mounted' = Mounted
      BY <2>3, BlankedTarget DEF Erase
    <3>2. QED
      BY <2>3, <3>1 DEF Erase, Register!rvars
  <2>4. CASE Write
    <3>1. Mounted' = mirror
      BY <2>4, WrittenTarget
    <3>2. QED
      BY <2>4, <3>1 DEF Write, Register!Next, Register!Saved
  <2>5. CASE FlashFails
    <3>1. Mounted' = Mounted
      BY <2>5, BlankedTarget DEF FlashFails
    <3>2. QED
      BY <2>5, <3>1 DEF FlashFails, Register!Next, Register!SaveFails
  <2>6. CASE PowerLoss
    <3>1. Mounted' = Mounted
      BY <2>6 DEF PowerLoss, Mounted, Newest
    <3>2. QED
      BY <2>6, <3>1 DEF PowerLoss, On, Register!Next, Register!PowerLoss
  <2>7. CASE Mount
    <3>1. Mounted' = Mounted
      BY <2>7 DEF Mount, Mounted, Newest
    <3>2. QED
      BY <2>7, <3>1 DEF Mount, On, Register!Next, Register!Restart
  <2>8. QED
    BY <2>1, <2>2, <2>3, <2>4, <2>5, <2>6, <2>7, Saves DEF JInv, Register!Next
<1>3. QED
  BY <1>1, <1>2, JInitInv, JNextInv, PTL DEF JSpec, SavesAreAtomic, Register!Spec

-------------------------------------------------------------------------------

(***************************************************************************)
(* The RAM mirror may be ahead of flash, by a save that failed, but never  *)
(* behind it or beside it; whoever has no owner has no version either; and *)
(* a commit that waits for its answer is in the mirror, and in flash once  *)
(* the save is done.                                                       *)
(***************************************************************************)
PTypes ==
  /\ xfer \in [blob : Blobs \cup {NoBlob}, filled : Nat, seq_hint : Nat]
  /\ xfer = NoXfer \/ xfer.blob \in Blobs
  /\ job \in [kind : {"none", "wifi", "commit"}, blob : Blobs \cup {NoBlob}]
  /\ acked \in Blobs \cup {NoBlob}

Ahead ==
  On => /\ Mounted.owner # NoOwner => mirror.owner = Mounted.owner
        /\ mirror.seq >= Mounted.seq
        /\ Mounted.owner # NoOwner /\ mirror.seq = Mounted.seq => mirror.config = Mounted.config

Unbound ==
  /\ Mounted.owner = NoOwner => Mounted.seq = 0
  /\ On /\ mirror.owner = NoOwner => mirror.seq = 0

JobInMirror ==
  job.kind = "commit" =>
    /\ On /\ job.blob \in Blobs /\ Genuine(job.blob) /\ job.blob.owner # NoOwner
    /\ mirror.owner = job.blob.owner /\ mirror.seq = job.blob.seq
    /\ mirror.config = job.blob.config
    /\ stage = "idle" => Mounted = mirror
    /\ acked # NoBlob => job.blob.owner = acked.owner /\ job.blob.seq > acked.seq

AckedOwned == acked # NoBlob => acked.owner # NoOwner

PInv ==
  JInv /\ PTypes /\ Ahead /\ Unbound /\ JobInMirror /\ AckedOwned /\ AckedIsDurable

LEMMA BlobFacts ==
  /\ NoBlob \notin Blobs
  /\ \A b \in Blobs : b.owner \in Owner \cup {NoOwner} /\ b.seq \in Nat /\ b.config \in Config
<1>1. ASSUME NEW b \in Blobs
      PROVE  b.owner \in Owner \cup {NoOwner} /\ b.seq \in Nat /\ b.config \in Config
  BY ProvisionAssumption DEF Blob
<1>2. NoBlob.config = NoConfig /\ NoConfig \notin Config
  BY StoreAssumption DEF NoBlob
<1>3. QED
  BY <1>1, <1>2

\* What opens and verifies was made by its owner for this device.
LEMMA GenuineOnly ==
  ASSUME NEW b, open_with(b, Self), sign1_verify(sign1_parse(b), b.owner)
  PROVE  Genuine(b)
BY DEF open_with, Tag, sign1_verify, sign1_parse, Signature, Genuine

LEMMA PInitInv == PInit => PInv
<1> SUFFICES ASSUME PInit PROVE PInv
  OBVIOUS
<1>1. JInv
  BY JInitInv DEF PInit
<1>2. Mounted = Empty /\ mirror = Empty
  BY DEF PInit, JInit, Mounted, Newest, Slot
<1>3. PTypes
  BY DEF PInit, PTypes, NoXfer, NoJob
<1>4. Ahead /\ Unbound
  BY <1>2 DEF Ahead, Unbound, Empty
<1>5. JobInMirror /\ AckedOwned /\ AckedIsDurable
  BY DEF PInit, NoJob, JobInMirror, AckedOwned, AckedIsDurable
<1>6. QED
  BY <1>1, <1>3, <1>4, <1>5 DEF PInv

-------------------------------------------------------------------------------
\* Steps that leave the journal alone.
LEMMA QuietStep ==
  ASSUME PInv, UNCHANGED <<jvars, acked>>, PTypes', job' = job \/ job'.kind # "commit"
  PROVE  PInv'
<1>1. /\ JInv' /\ Mounted' = Mounted /\ On' = On
  BY JNextInv DEF PInv, jvars, Mounted, Newest, On
<1>2. QED
  BY <1>1 DEF PInv, jvars, Ahead, Unbound, JobInMirror, AckedOwned, AckedIsDurable

\* A frame that the store begins to save.
LEMMA BeginStep ==
  ASSUME PInv, PTypes', UNCHANGED acked, NEW contents \in Contents, Begin(contents)
  PROVE  /\ JInv' /\ AckedIsDurable' /\ AckedOwned' /\ On /\ On'
         /\ Mounted' = Mounted /\ mirror' = contents /\ stage' = "erase"
         /\ mirror \in Contents /\ Mounted \in Contents
<1>1. JInv' /\ Mounted' = Mounted /\ mirror \in Contents
  BY BeginInv DEF PInv
<1>2. Mounted \in Contents
  BY MountedType DEF PInv, JInv
<1>3. QED
  BY <1>1, <1>2, BlankAssumption DEF Begin, Idle, On, PInv, AckedOwned, AckedIsDurable

LEMMA CommitStep == PInv /\ ConfigCommit => PInv'
<1> SUFFICES ASSUME PInv, ConfigCommit PROVE PInv'
  OBVIOUS
<1> DEFINE b == xfer.blob
           new == [mirror EXCEPT !.owner = b.owner, !.seq = b.seq, !.config = b.config]
<1>1. b \in Blobs /\ b.owner \in Owner /\ b.owner # NoOwner /\ b.seq \in Nat /\ b.config \in Config
  BY BlobFacts DEF PInv, PTypes, ConfigCommit, Accepted
<1>2. mirror \in Contents /\ Begin(new) /\ UNCHANGED acked
  BY DEF PInv, JInv, JTypeOK, ConfigCommit, CommitConfig, Begin, Idle, On
<1>3. new \in Contents
  BY <1>1, <1>2 DEF Contents
<1>4. PTypes'
  BY <1>1 DEF PInv, PTypes, ConfigCommit, NoXfer
<1>5. /\ JInv' /\ AckedIsDurable' /\ AckedOwned' /\ On /\ On' /\ Mounted' = Mounted
      /\ mirror' = new /\ stage' = "erase" /\ Mounted \in Contents
  BY <1>2, <1>3, <1>4, BeginStep
<1>6. /\ mirror'.owner = b.owner /\ mirror'.seq = b.seq /\ mirror'.config = b.config
  BY <1>2, <1>5 DEF Contents
<1>7. /\ mirror.owner # NoOwner => b.seq > mirror.seq /\ b.owner = mirror.owner
  BY <1>1, <1>2 DEF ConfigCommit, Accepted, Rollback, WrongSet, Contents
<1>8. /\ Mounted.owner # NoOwner => mirror.owner = Mounted.owner /\ mirror.seq >= Mounted.seq
      /\ Mounted.owner = NoOwner => Mounted.seq = 0
  BY <1>5 DEF PInv, Ahead, Unbound
<1>9. mirror.seq \in Nat /\ Mounted.seq \in Nat
  BY <1>2, <1>5 DEF Contents
<1>10. Ahead' /\ Unbound'
  BY <1>1, <1>5, <1>6, <1>7, <1>8, <1>9 DEF Ahead, Unbound
<1>11. JobInMirror'
  <2>1. job' = [kind |-> "commit", blob |-> b] /\ acked' = acked
    BY DEF ConfigCommit
  <2>2. ASSUME acked # NoBlob PROVE b.owner = acked.owner /\ b.seq > acked.seq
    <3>1. acked \in Blobs /\ acked.owner # NoOwner /\ acked.seq \in Nat
      BY <2>2, BlobFacts DEF PInv, PTypes, AckedOwned
    <3>2. Mounted.owner = acked.owner /\ Mounted.seq >= acked.seq
      BY <2>2 DEF PInv, AckedIsDurable
    <3>3. QED
      BY <1>1, <1>7, <1>8, <1>9, <3>1, <3>2
  <2>3. Genuine(b)
    BY GenuineOnly DEF ConfigCommit, Accepted
  <2>4. QED
    BY <1>1, <1>5, <1>6, <2>1, <2>2, <2>3 DEF JobInMirror
<1>12. QED
  BY <1>4, <1>5, <1>10, <1>11 DEF PInv

LEMMA WifiStep == PInv /\ SetWifi => PInv'
<1> SUFFICES ASSUME PInv, SetWifi PROVE PInv'
  OBVIOUS
<1>1. PICK wifi \in Wifi \cup {NoWifi} : Begin([mirror EXCEPT !.wifi = wifi])
  BY DEF SetWifi, WifiSet, WifiClear
<1> DEFINE new == [mirror EXCEPT !.wifi = wifi]
<1>2. mirror \in Contents
  BY <1>1 DEF PInv, JInv, JTypeOK, Begin, Idle, On
<1>3. new \in Contents
  BY <1>2 DEF Contents
<1>4. PTypes' /\ UNCHANGED acked
  BY DEF PInv, PTypes, SetWifi
<1>5. /\ JInv' /\ AckedIsDurable' /\ AckedOwned' /\ On /\ On' /\ Mounted' = Mounted /\ mirror' = new
  BY <1>1, <1>3, <1>4, BeginStep
<1>6. mirror'.owner = mirror.owner /\ mirror'.seq = mirror.seq /\ mirror'.config = mirror.config
  BY <1>2, <1>5 DEF Contents
<1>7. Ahead' /\ Unbound'
  BY <1>5, <1>6 DEF PInv, Ahead, Unbound
<1>8. JobInMirror'
  BY DEF SetWifi, JobInMirror
<1>9. QED
  BY <1>4, <1>5, <1>7, <1>8 DEF PInv

-------------------------------------------------------------------------------
\* Steps of the flash that leave the stored record as it was.
LEMMA KeptStep ==
  ASSUME PInv, JInv', PTypes', UNCHANGED <<mirror, acked>>, Mounted' = Mounted,
         \/ job' = job /\ stage' # "idle"
         \/ job'.kind # "commit"
  PROVE  PInv'
BY DEF PInv, On, Ahead, Unbound, JobInMirror, AckedOwned, AckedIsDurable

LEMMA SavingStep == PInv /\ Saving => PInv'
<1> SUFFICES ASSUME PInv, Saving PROVE PInv'
  OBVIOUS
<1>1. JInv' /\ PTypes'
  BY JNextInv DEF PInv, PTypes, Saving, JNext
<1>2. CASE Erase
  <2>1. Mounted' = Mounted
    BY <1>2, BlankedTarget DEF Erase, PInv
  <2>2. UNCHANGED <<mirror, acked, job>> /\ stage' # "idle"
    BY <1>2 DEF Erase, Saving
  <2>3. QED
    BY <1>1, <2>1, <2>2, KeptStep
<1>3. CASE Write
  <2>1. Mounted' = mirror /\ mirror' = mirror /\ On /\ On'
    BY <1>3, WrittenTarget DEF Write, PInv, On
  <2>2. UNCHANGED <<job, acked>>
    BY DEF Saving
  <2>3. mirror \in Contents /\ Mounted \in Contents
    BY <2>1, MountedType DEF PInv, JInv, JTypeOK, On
  <2>4. mirror.seq \in Nat /\ Mounted.seq \in Nat
    BY <2>3 DEF Contents
  <2>5. Ahead' /\ Unbound'
    BY <2>1, <2>4 DEF PInv, Ahead, Unbound
  <2>6. JobInMirror'
    BY <2>1, <2>2 DEF PInv, JobInMirror
  <2>7. ASSUME acked # NoBlob PROVE AckedIsDurable'
    <3>1. acked.owner # NoOwner /\ acked.seq \in Nat
      BY <2>7, BlobFacts DEF PInv, PTypes, AckedOwned
    <3>2. /\ Mounted.owner = acked.owner /\ Mounted.seq >= acked.seq
          /\ Mounted.seq = acked.seq => Mounted.config = acked.config
      BY <2>7 DEF PInv, AckedIsDurable
    <3>3. /\ mirror.owner = acked.owner /\ mirror.seq >= Mounted.seq
          /\ mirror.seq = Mounted.seq => mirror.config = Mounted.config
      BY <2>1, <3>1, <3>2 DEF PInv, Ahead
    <3>4. QED
      BY <2>1, <2>2, <2>4, <3>1, <3>2, <3>3 DEF AckedIsDurable
  <2>8. AckedIsDurable' /\ AckedOwned'
    BY <2>2, <2>7 DEF AckedIsDurable, AckedOwned, PInv
  <2>9. QED
    BY <1>1, <2>5, <2>6, <2>8 DEF PInv
<1>4. QED
  BY <1>2, <1>3 DEF Saving

LEMMA RefusedStep == PInv /\ SaveRefused => PInv'
<1> SUFFICES ASSUME PInv, SaveRefused PROVE PInv'
  OBVIOUS
<1>1. JInv'
  BY JNextInv DEF PInv, SaveRefused, JNext
<1>2. PTypes' /\ job'.kind # "commit" /\ UNCHANGED acked
  BY DEF PInv, PTypes, SaveRefused, NoJob
<1>3. UNCHANGED mirror /\ On
  BY DEF SaveRefused, FlashFails
<1>4. PICK page \in {flash[Target], Blank} : flash' = [flash EXCEPT ![Target] = page]
  BY DEF SaveRefused, FlashFails
<1>5. Mounted' = Mounted
  BY <1>3, <1>4, BlankedTarget DEF PInv
<1>6. QED
  BY <1>1, <1>2, <1>3, <1>5, KeptStep

LEMMA AnswerStep == PInv /\ Answer => PInv'
<1> SUFFICES ASSUME PInv, Answer PROVE PInv'
  OBVIOUS
<1>1. PTypes' /\ job'.kind # "commit"
  BY DEF PInv, PTypes, Answer, NoJob
<1>2. CASE job.kind # "commit"
  BY <1>1, <1>2, QuietStep DEF Answer
<1>3. CASE job.kind = "commit"
  <2>1. JInv' /\ Mounted' = Mounted /\ On' = On /\ mirror' = mirror
    BY JNextInv DEF PInv, Answer, jvars, Mounted, Newest, On
  <2>2. acked' = job.blob /\ stage = "idle"
    BY <1>3 DEF Answer, Idle
  <2>3. /\ Mounted = mirror /\ job.blob.seq \in Nat
        /\ mirror.owner = job.blob.owner /\ mirror.seq = job.blob.seq
        /\ mirror.config = job.blob.config
    BY <1>3, <2>2, BlobFacts DEF PInv, JobInMirror
  <2>4. AckedIsDurable' /\ AckedOwned'
    BY <1>3, <2>1, <2>2, <2>3 DEF AckedIsDurable, AckedOwned, PInv, JobInMirror
  <2>5. Ahead' /\ Unbound' /\ JobInMirror'
    BY <1>1, <2>1 DEF PInv, Ahead, Unbound, JobInMirror
  <2>6. QED
    BY <1>1, <2>1, <2>4, <2>5 DEF PInv
<1>4. QED
  BY <1>2, <1>3

LEMMA CutStep == PInv /\ PowerCut => PInv'
<1> SUFFICES ASSUME PInv, PowerCut PROVE PInv'
  OBVIOUS
<1>1. JInv' /\ Mounted' = Mounted /\ ~On'
  BY JNextInv DEF PInv, PowerCut, PowerLoss, JNext, Mounted, Newest, On
<1>2. PTypes' /\ job'.kind # "commit" /\ UNCHANGED acked
  BY DEF PInv, PTypes, PowerCut, NoXfer, NoJob
<1>3. QED
  BY <1>1, <1>2 DEF PInv, Ahead, Unbound, JobInMirror, AckedOwned, AckedIsDurable

LEMMA UpStep == PInv /\ PowerUp => PInv'
<1> SUFFICES ASSUME PInv, PowerUp PROVE PInv'
  OBVIOUS
<1>1. JInv' /\ Mounted' = Mounted /\ mirror' = Mounted /\ ~On
  BY JNextInv DEF PInv, PowerUp, Mount, JNext, Mounted, Newest
<1>2. PTypes' /\ UNCHANGED <<job, acked>>
  BY DEF PInv, PTypes, PowerUp
<1>3. Mounted.seq \in Nat
  BY MountedType DEF PInv, JInv, Contents
<1>4. Ahead' /\ Unbound'
  BY <1>1, <1>3 DEF PInv, Ahead, Unbound
<1>5. JobInMirror' /\ AckedOwned' /\ AckedIsDurable'
  BY <1>1, <1>2 DEF PInv, JobInMirror, AckedOwned, AckedIsDurable
<1>6. QED
  BY <1>1, <1>2, <1>4, <1>5 DEF PInv

LEMMA PNextInv == PInv /\ [PNext]_pvars => PInv'
<1> SUFFICES ASSUME PInv, [PNext]_pvars PROVE PInv'
  OBVIOUS
<1>1. CASE UNCHANGED pvars
  BY <1>1, QuietStep DEF pvars, PInv, PTypes
<1>2. ASSUME NEW b \in Blobs, NEW hint \in {0, b.seq}, ConfigBegin(b, hint) PROVE PInv'
  <2>1. hint \in Nat
    BY BlobFacts
  <2>2. PTypes' /\ UNCHANGED <<jvars, job, acked>>
    BY <1>2, <2>1 DEF ConfigBegin, PInv, PTypes
  <2>3. QED
    BY <2>2, QuietStep
<1>3. ASSUME NEW b \in Blobs, NEW k \in 1 .. NChunks, ConfigChunk(b, k) PROVE PInv'
  <2>1. PTypes' /\ UNCHANGED <<jvars, job, acked>>
    BY <1>3 DEF ConfigChunk, PInv, PTypes
  <2>2. QED
    BY <2>1, QuietStep
<1>4. CASE ConfigRefused \/ ConfigTooBig
  <2>1. PTypes' /\ UNCHANGED <<jvars, job, acked>>
    BY <1>4 DEF ConfigRefused, ConfigTooBig, CommitTooBig, PInv, PTypes, NoXfer
  <2>2. QED
    BY <2>1, QuietStep
<1>5. QED
  BY <1>1, <1>2, <1>3, <1>4, CommitStep, WifiStep, SavingStep, RefusedStep, AnswerStep,
     CutStep, UpStep DEF PNext, Serve

-------------------------------------------------------------------------------
\* What was acknowledged survives every restart, or gives way to a newer
\* configuration of the same owner only (commit,
\* ephemerkey-provision/src/lib.rs:277-297).
THEOREM AcksAreDurable == PSpec => []AckedIsDurable
<1>1. PInv => AckedIsDurable
  BY DEF PInv
<1>2. QED
  BY <1>1, PInitInv, PNextInv, PTL DEF PSpec

\* The acknowledgements of a device are for what an owner signed and sealed for
\* it, and carry one owner and increasing sequence numbers, over any restarts and
\* refused saves ("`seq` must strictly increase",
\* ephemerkey-provision/src/lib.rs:9-13).
THEOREM AcksGrow == PSpec => AcksIncrease
<1>1. ASSUME PInv, [PNext]_pvars, acked' # acked
      PROVE  /\ Genuine(acked')
             /\ acked # NoBlob => acked'.seq > acked.seq /\ acked'.owner = acked.owner
  <2>1. Answer
    BY <1>1 DEF PNext, Serve, pvars, ConfigBegin, ConfigChunk, ConfigRefused, ConfigTooBig,
       ConfigCommit, SetWifi, Saving, SaveRefused, PowerCut, PowerUp
  <2>2. job.kind = "commit" /\ acked' = job.blob
    BY <1>1, <2>1 DEF Answer
  <2>3. QED
    BY <1>1, <2>2 DEF PInv, JobInMirror
<1>2. PInv /\ [PNext]_pvars =>
        [acked' # acked =>
           /\ Genuine(acked')
           /\ acked # NoBlob => acked'.seq > acked.seq /\ acked'.owner = acked.owner]_pvars
  BY <1>1
<1>3. QED
  BY <1>2, PInitInv, PNextInv, PTL DEF PSpec, AcksIncrease

\* An owner binding in flash outlives every commit, torn write, flash fault and
\* restart (Store, ephemerkey-provision/src/lib.rs:34-36).
THEOREM OwnerStays == PSpec => OwnerNeverLost
<1>1. ASSUME PInv, [PNext]_pvars, Mounted.owner # NoOwner
      PROVE  Mounted'.owner = Mounted.owner
  <2>1. CASE Write
    <3>1. Mounted' = mirror /\ On
      BY <1>1, <2>1, WrittenTarget DEF Write, PInv
    <3>2. QED
      BY <1>1, <3>1 DEF PInv, Ahead
  <2>2. CASE Erase
    BY <1>1, <2>2, BlankedTarget DEF Erase, PInv
  <2>3. CASE FlashFails
    <3>1. PICK page \in {flash[Target], Blank} : flash' = [flash EXCEPT ![Target] = page]
      BY <2>3 DEF FlashFails
    <3>2. QED
      BY <1>1, <2>3, <3>1, BlankedTarget DEF FlashFails, PInv
  <2>4. CASE UNCHANGED flash
    BY <2>4 DEF Mounted, Newest
  <2>5. QED
    BY <1>1, <2>1, <2>2, <2>3, <2>4 DEF PNext, Serve, pvars, jvars, ConfigBegin, ConfigChunk,
       ConfigRefused, ConfigTooBig, CommitTooBig, ConfigCommit, CommitConfig, SetWifi, WifiSet,
       WifiClear, Begin, Saving, SaveRefused, Answer, PowerCut, PowerLoss, PowerUp, Mount
<1>2. PInv /\ [PNext]_pvars =>
        [Mounted.owner # NoOwner => Mounted'.owner = Mounted.owner]_pvars
  BY <1>1
<1>3. QED
  BY <1>2, PInitInv, PNextInv, PTL DEF PSpec, OwnerNeverLost
===============================================================================
