-------------------------------- MODULE Envelope --------------------------------
(***************************************************************************)
(* The envelope of ephemerkey-envelope/src/lib.rs: a configuration signed  *)
(* by its owner (COSE_Sign1) and sealed to one device (COSE_Encrypt0).     *)
(*                                                                         *)
(* Cryptography is taken to work: a signature or a tag can be made only    *)
(* with its key, and is what it was computed from.  An owner is known by   *)
(* the owner's key.  The encoding of an item is a function of the item;    *)
(* the ephemeral key, the IV and the target device's name, which the       *)
(* device does not look at, are left out.                                  *)
(***************************************************************************)

\* Ed25519 over the Sig_structure: it covers the payload, and not the key id
\* beside it.
Signature(key, config) == [key |-> key, config |-> config]

sign1_write(config, kid, key) ==
  [owner |-> kid, config |-> config, signature |-> Signature(key, config)]

sign1_verify(signed, key) == signed.signature = Signature(key, signed.config)

\* The GCM tag under the key agreed with a device: it covers the protected header,
\* where the sequence number is, and what is encrypted.
Tag(device, seq, signed) == [device |-> device, seq |-> seq, signed |-> signed]

seal_write(signed, device, seq) ==
  [owner |-> signed.owner, config |-> signed.config, signature |-> signed.signature,
   seq |-> seq, tag |-> Tag(device, seq, signed)]

\* What is inside a sealed blob.
sign1_parse(blob) ==
  [owner |-> blob.owner, config |-> blob.config, signature |-> blob.signature]

\* The header's sequence number is worth something once the blob opens.
open_with(blob, device) == blob.tag = Tag(device, blob.seq, sign1_parse(blob))
===============================================================================
