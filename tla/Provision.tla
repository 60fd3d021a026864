------------------------------- MODULE Provision -------------------------------
(***************************************************************************)
(* The provisioning engine of ephemerkey-provision/src/lib.rs on top of the*)
(* flash journal: a host transfers a sealed configuration in chunks and    *)
(* commits it; the engine checks it, saves it and signs an acknowledgement.*)
(*                                                                         *)
(* The host may send any frame at any time: a frame or an answer that is   *)
(* lost, a retry, or a transfer given up and started again are all orders  *)
(* of the actions below.  The engine answers one frame before it reads the *)
(* next; while it saves, only the flash and the power supply act.          *)
(*                                                                         *)
(* Abstractions.                                                           *)
(*  - Every blob has NChunks chunks, and its CRC identifies it.  One whose *)
(*    inner structure does not parse is one that does not open.            *)
(*  - What validate_config refuses is a set of configurations.             *)
(*  - What a frame is answered is told apart only where it is a signed     *)
(*    acknowledgement.  Frames that change nothing (identity, challenge,   *)
(*    status, and any that is malformed or out of turn) and the event ring *)
(*    are left out.                                                        *)
(***************************************************************************)
EXTENDS ConfigStore, Envelope

CONSTANTS
  Device,     \* the devices a blob may be sealed for
  Self,       \* this device
  Blobs,      \* the blobs there are
  Unfit,      \* what validate_config refuses: nothing, unless the store overrides it
  NChunks,    \* chunks of a blob
  MaxFilled   \* bound: chunks received in one transfer

\* What may be sent: anything signed and sealed by somebody, or pieces of such things;
\* a blob without a key id, or with one that is no key, has no owner.
Blob ==
  LET KeyId == Owner \cup {NoOwner}
      Signatures == [key : Owner, config : Config]
      Signed == [owner : KeyId, config : Config, signature : Signatures]
  IN  [owner : KeyId, config : Config, signature : Signatures, seq : Nat,
       tag : [device : Device, seq : Nat, signed : Signed]]

\* No chunk and no transfer: nothing that was ever sent.
NoBlob == [owner |-> NoOwner, config |-> NoConfig, seq |-> 0]

ASSUME ProvisionAssumption ==
  /\ Self \in Device
  /\ Blobs \subseteq Blob
  /\ Unfit \subseteq Config
  /\ NChunks \in Nat \ {0} /\ MaxFilled \in Nat

\* Option<Xfer>
NoXfer == [blob |-> NoBlob, filled |-> 0, seq_hint |-> 0]

NoJob == [kind |-> "none", blob |-> NoBlob]

VARIABLES
  xfer,      \* the transfer under way: the blob BEGIN announced by its CRC
  cfg_buf,   \* cfg_buf[k]: the blob whose k-th chunk is there
  job,       \* the frame that is waiting for the store
  acked      \* history: the blob acknowledged last

pvars == <<jvars, xfer, cfg_buf, job, acked>>

PInit ==
  /\ JInit
  /\ xfer = NoXfer
  /\ cfg_buf = [k \in 1 .. NChunks |-> NoBlob]
  /\ job = NoJob
  /\ acked = NoBlob

Ready == Idle /\ job = NoJob

-------------------------------------------------------------------------------
ConfigBegin(b, hint) ==
  /\ Ready
  /\ xfer' = [blob |-> b, filled |-> 0, seq_hint |-> hint]
  /\ UNCHANGED <<jvars, cfg_buf, job, acked>>

\* A chunk lands in the buffer; only the bytes are counted, not the places.
ConfigChunk(b, k) ==
  /\ Ready /\ xfer # NoXfer
  /\ xfer.filled < MaxFilled
  /\ cfg_buf' = [cfg_buf EXCEPT ![k] = b]
  /\ xfer' = [xfer EXCEPT !.filled = @ + 1]
  /\ UNCHANGED <<jvars, job, acked>>

Intact ==
  /\ xfer.filled = NChunks
  /\ \A k \in 1 .. NChunks : cfg_buf[k] = xfer.blob

\* (mutant: an older version is as good as a newer one)
Rollback_Never(b) == FALSE

Rollback(b) == mirror.owner # NoOwner /\ b.seq <= mirror.seq

\* (mutant: a bound device adopts again)
WrongSet_Never(b) == FALSE

WrongSet(b) == mirror.owner # NoOwner /\ b.owner # mirror.owner

\* The checks of commit(): all must hold, or the frame is refused.
Accepted ==
  /\ Intact
  /\ open_with(xfer.blob, Self)
  /\ xfer.blob.seq = xfer.seq_hint
  /\ ~Rollback(xfer.blob)
  /\ xfer.blob.owner # NoOwner
  /\ ~WrongSet(xfer.blob)
  /\ sign1_verify(sign1_parse(xfer.blob), xfer.blob.owner)
  /\ xfer.blob.config \notin Unfit

\* COMMIT takes the transfer, whatever becomes of it.
ConfigRefused ==
  /\ Ready /\ xfer # NoXfer
  /\ ~Accepted
  /\ xfer' = NoXfer
  /\ UNCHANGED <<jvars, cfg_buf, job, acked>>

ConfigTooBig ==
  /\ Ready /\ xfer # NoXfer
  /\ Accepted
  /\ CommitTooBig(xfer.blob.config)
  /\ xfer' = NoXfer
  /\ UNCHANGED <<cfg_buf, job, acked>>

ConfigCommit ==
  /\ Ready /\ xfer # NoXfer
  /\ Accepted
  /\ CommitConfig(xfer.blob.owner, xfer.blob.seq, xfer.blob.config)
  /\ job' = [kind |-> "commit", blob |-> xfer.blob]
  /\ xfer' = NoXfer
  /\ UNCHANGED <<cfg_buf, acked>>

\* WIFI_SET, with an empty SSID to clear.
SetWifi ==
  /\ Ready
  /\ WifiClear \/ \E wifi \in Wifi : WifiSet(wifi)
  /\ job' = [kind |-> "wifi", blob |-> NoBlob]
  /\ UNCHANGED <<xfer, cfg_buf, acked>>

\* The store at work on the frame.
Saving ==
  /\ Erase \/ Write
  /\ UNCHANGED <<xfer, cfg_buf, job, acked>>

SaveRefused ==
  /\ FlashFails
  /\ job' = NoJob
  /\ UNCHANGED <<xfer, cfg_buf, acked>>

\* The save is done: the engine signs its answer.
Answer ==
  /\ Idle /\ job # NoJob
  /\ job' = NoJob
  /\ IF job.kind = "commit"
       THEN acked' = job.blob
       ELSE UNCHANGED acked
  /\ UNCHANGED <<jvars, xfer, cfg_buf>>

\* Everything in RAM is gone.
PowerCut ==
  /\ PowerLoss
  /\ xfer' = NoXfer
  /\ cfg_buf' = [k \in 1 .. NChunks |-> NoBlob]
  /\ job' = NoJob
  /\ UNCHANGED acked

PowerUp ==
  /\ Mount
  /\ UNCHANGED <<xfer, cfg_buf, job, acked>>

\* Hosts that hold some of the blobs, and the device while it has power.
Serve(blobs) ==
  \/ \E b \in blobs : \E hint \in {0, b.seq} : ConfigBegin(b, hint)
  \/ \E b \in blobs, k \in 1 .. NChunks : ConfigChunk(b, k)
  \/ ConfigRefused
  \/ ConfigTooBig
  \/ ConfigCommit
  \/ SetWifi
  \/ Saving
  \/ SaveRefused
  \/ Answer

PNext == Serve(Blobs) \/ PowerCut \/ PowerUp

PSpec == PInit /\ [][PNext]_pvars

-------------------------------------------------------------------------------
(***************************************************************************)
(* Properties.                                                             *)
(***************************************************************************)

\* Once flash holds an owner binding, no commit of another owner, torn write,
\* flash fault or restart ever removes or changes it ("a torn write may lose
\* the new config but must never lose the owner binding", Store,
\* ephemerkey-provision/src/lib.rs:34-36).
OwnerNeverLost ==
  [][Mounted.owner # NoOwner => Mounted'.owner = Mounted.owner]_pvars

\* Signed by the owner it names, and sealed for this device with that number.
Genuine(b) ==
  /\ b.signature = [key |-> b.owner, config |-> b.config]
  /\ b.tag.device = Self /\ b.tag.seq = b.seq

\* The acknowledgements a device ever signs are for what their owner wrote for
\* it, for one owner, and for sequence numbers that strictly increase, restarts
\* and failed saves included ("`seq` must strictly increase",
\* ephemerkey-provision/src/lib.rs:9-13).
AcksIncrease ==
  [][acked' # acked =>
       /\ Genuine(acked')
       /\ acked # NoBlob => acked'.seq > acked.seq /\ acked'.owner = acked.owner]_pvars

\* What was acknowledged is not taken back: at any later moment a restart
\* would find that configuration or a newer one, complete with its
\* owner (commit, ephemerkey-provision/src/lib.rs:277-297).
AckedIsDurable ==
  acked # NoBlob =>
    /\ Mounted.owner = acked.owner
    /\ Mounted.seq >= acked.seq
    /\ Mounted.seq = acked.seq => Mounted.config = acked.config

\* Between frames the running configuration is the stored one: a commit that
\* the store refused has changed nothing ("Atomically commit a verified
\* config: owner binding + anti-rollback seq + the config bytes",
\* commit_config, ephemerkey-store/src/lib.rs:231-242).
CommitsAllOrNothing ==
  Ready => /\ mirror.owner = Mounted.owner
           /\ mirror.seq = Mounted.seq
           /\ mirror.config = Mounted.config
===============================================================================
