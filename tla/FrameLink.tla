------------------------------- MODULE FrameLink -------------------------------
(***************************************************************************)
(* The serial link under provisioning: the frame codec of ephemerkey-frame,*)
(* the queue between parser and engine (Provisioner::feed) and the USB pump*)
(* (usbprov.rs), with a host that repeats a request until it is answered.  *)
(*                                                                         *)
(* The line carries noise, and a connection may break in mid-frame: what   *)
(* the host had not yet got through is lost, the parser keeps what it has  *)
(* read.  A packet cuts the stream anywhere.                               *)
(*                                                                         *)
(* Bytes come in tokens of two, but for the two of the magic and the four  *)
(* of a header.  A checksum is the frame it was computed over: different   *)
(* contents have different checksums.  A payload, like the noise, may look *)
(* like a magic and a header, but not like a checksum.                     *)
(***************************************************************************)
EXTENDS Naturals, SequencesExt

CONSTANTS
  Payload,      \* the requests the host makes: the payload of each
  MAX_PAYLOAD,  \* longest payload, in tokens
  PACKET,       \* longest read, in tokens
  QUEUE,        \* frames feed() keeps of one read
  Bursts,       \* noise: the sequences of tokens that may come between frames
  MaxWire,      \* bound: tokens in flight
  MaxBursts,    \* bound: bursts of noise
  MaxBreaks     \* bound: broken connections

Requests == 1 .. Len(Payload)

\* "other" is a token of two bytes that is no part of a magic or a header.
Token == [kind : {"E", "K", "header", "crc", "other"}, id : Nat, plen : Nat]
Tok(kind) == [kind |-> kind, id |-> 0, plen |-> 0]
Header(id, plen) == [kind |-> "header", id |-> id, plen |-> plen]
Crc(id) == [kind |-> "crc", id |-> id, plen |-> 0]

MAGIC == <<Tok("E"), Tok("K")>>
Overhead == 4                       \* magic, header and checksum
Capacity == MAX_PAYLOAD + Overhead  \* Parser.buf

ASSUME LinkAssumption ==
  /\ Payload \in Seq(Seq(Token))
  /\ \A r \in Requests : Len(Payload[r]) <= MAX_PAYLOAD
  /\ \A b \in Bursts : b \in Seq(Token)
  /\ {MAX_PAYLOAD, PACKET, QUEUE, MaxWire} \subseteq Nat \ {0}
  /\ {MaxBursts, MaxBreaks} \subseteq Nat

\* Checksums come up nowhere but at the ends of frames.
NoChecksum(s) == \A i \in DOMAIN s : s[i].kind # "crc"

ASSUME ChecksumAssumption ==
  /\ \A r \in Requests : NoChecksum(Payload[r])
  /\ \A b \in Bursts : NoChecksum(b)

\* encode
Encoded(r) == MAGIC \o <<Header(r, Len(Payload[r]))>> \o Payload[r] \o <<Crc(r)>>

Drop(s, n) == SubSeq(s, n + 1, Len(s))
LastOf(s, n) == IF Len(s) <= n THEN s ELSE Drop(s, Len(s) - n)

VARIABLES
  connected,
  req,       \* the request the host waits for an answer to
  wire,      \* tokens on their way to the device
  buf,       \* Parser.buf[..len]
  out,       \* answers the device has still to write
  last,      \* history: the last request handled
  recent,    \* history: the last tokens read before this step
  packet,    \* history: the tokens this step read
  found,     \* history: the frames the parser found in them
  troubles   \* bursts and breaks so far

history == <<last, recent, packet, found>>

lvars == <<connected, req, wire, buf, out, history, troubles>>

NothingRead ==
  /\ recent' = LastOf(recent \o packet, Capacity)
  /\ packet' = << >> /\ found' = << >>
  /\ UNCHANGED last

LInit ==
  /\ connected = FALSE /\ req = 1
  /\ wire = << >> /\ buf = << >> /\ out = << >>
  /\ last = 0 /\ recent = << >> /\ packet = << >> /\ found = << >>
  /\ troubles = [bursts |-> 0, breaks |-> 0]

-------------------------------------------------------------------------------
(***************************************************************************)
(* Parser::scan.                                                           *)
(***************************************************************************)
MagicAt(s, i) == i < Len(s) /\ s[i] = MAGIC[1] /\ s[i + 1] = MAGIC[2]

\* The buffer from its first magic on, or its last byte.
Hunted(s) ==
  IF s = << >> THEN s
  ELSE Drop(s, (CHOOSE i \in DOMAIN s :
                  /\ MagicAt(s, i) \/ i = Len(s)
                  /\ \A j \in 1 .. (i - 1) : ~MagicAt(s, j)) - 1)

\* The length field of a buffer that starts with a magic.
Total(h) == h[3].plen + Overhead

\* (mutant: one token too many is let through)
FalseSync_OffByOne(h) == h[3].kind # "header" \/ h[3].plen > MAX_PAYLOAD + 1

\* Another version, or a payload too long.
FalseSync(h) == h[3].kind # "header" \/ h[3].plen > MAX_PAYLOAD

\* (mutant: the checksum is not looked at)
Intact_Always(h) == TRUE

\* (mutant: the checksum leaves out the payload)
Intact_HeaderOnly(h) == h[Total(h)] = Crc(h[3].id) /\ Total(h) = Overhead

\* The checksum is that of the header and the payload before it.
Intact(h) ==
  /\ h[3].id \in Requests
  /\ SubSeq(h, 1, Total(h)) = Encoded(h[3].id)

\* (mutant: a bad frame is dropped whole)
PastBad_Whole(h) == Drop(h, Total(h))

\* A bad frame is dropped up to the end of its magic only.
PastBad(h) == Drop(h, 2)

\* p.rest is the buffer, p.ids the frames found so far.
Scanned[p \in [rest : Seq(Token), ids : Seq(Nat)]] ==
  LET h == Hunted(p.rest)
      Again(rest, ids) == Scanned[[rest |-> rest, ids |-> ids]]
  IN  CASE Len(h) < Overhead -> [rest |-> h, ids |-> p.ids]
        [] Len(h) >= Overhead /\ FalseSync(h) -> Again(Drop(h, 2), p.ids)
        [] Len(h) >= Overhead /\ ~FalseSync(h) ->
             CASE Len(h) < Total(h) -> [rest |-> h, ids |-> p.ids]
               [] Len(h) >= Total(h) /\ Intact(h) ->
                    Again(Drop(h, Total(h)), Append(p.ids, h[3].id))
               [] Len(h) >= Total(h) /\ ~Intact(h) -> Again(PastBad(h), p.ids)

Scan(p) == Scanned[p]

\* Parser::feed, one token: a full buffer loses its front.
Fed(p, token) ==
  LET room == IF Len(p.rest) = Capacity THEN Drop(p.rest, 1) ELSE p.rest
  IN  Scan([rest |-> Append(room, token), ids |-> p.ids])

FedAll(p, tokens) == FoldLeft(Fed, p, tokens)

-------------------------------------------------------------------------------
(***************************************************************************)
(* The device.                                                             *)
(***************************************************************************)
\* wait_connection
Connect ==
  /\ ~connected
  /\ connected' = TRUE
  /\ NothingRead /\ UNCHANGED <<req, wire, buf, out, troubles>>

\* read_packet, then feed: the frames found, as many as the queue takes, are
\* handled, and each is answered.  The next read waits for the answers' writing.
Handled(ids) == SubSeq(ids, 1, IF Len(ids) < QUEUE THEN Len(ids) ELSE QUEUE)

Read(n) ==
  /\ connected /\ out = << >> /\ n <= Len(wire)
  /\ wire' = Drop(wire, n)
  /\ recent' = LastOf(recent \o packet, Capacity)
  /\ packet' = SubSeq(wire, 1, n)
  /\ LET parsed == FedAll([rest |-> buf, ids |-> << >>], packet')
     IN  /\ buf' = parsed.rest
         /\ found' = parsed.ids
  /\ out' = Handled(found')
  /\ last' = IF found' = << >> THEN last ELSE out'[Len(out')]
  /\ UNCHANGED <<connected, req, troubles>>

SomeRead == \E n \in 1 .. PACKET : Read(n)

\* write_packet: the host takes an answer, and goes on if it is to its request.
WriteAnswer ==
  /\ connected /\ out # << >>
  /\ out' = Tail(out)
  /\ req' = IF Head(out) = req THEN req + 1 ELSE req
  /\ NothingRead /\ UNCHANGED <<connected, wire, buf, troubles>>

-------------------------------------------------------------------------------
(***************************************************************************)
(* The host and the line.                                                  *)
(***************************************************************************)
\* The host sends its request, or repeats it after a timeout of any length.
Send ==
  /\ connected /\ req \in Requests
  /\ Len(wire) + Len(Encoded(req)) <= MaxWire
  /\ wire' = wire \o Encoded(req)
  /\ NothingRead /\ UNCHANGED <<connected, req, buf, out, troubles>>

Noise(burst) ==
  /\ troubles.bursts < MaxBursts
  /\ connected /\ Len(wire) + Len(burst) <= MaxWire
  /\ wire' = wire \o burst
  /\ troubles' = [troubles EXCEPT !.bursts = @ + 1]
  /\ NothingRead /\ UNCHANGED <<connected, req, buf, out>>

\* What is in flight either way is lost: the write in progress fails, and the
\* pump ends.
Break ==
  /\ troubles.breaks < MaxBreaks
  /\ connected
  /\ connected' = FALSE
  /\ wire' = << >> /\ out' = << >>
  /\ troubles' = [troubles EXCEPT !.breaks = @ + 1]
  /\ NothingRead /\ UNCHANGED <<req, buf>>

LNext ==
  \/ Connect
  \/ SomeRead
  \/ WriteAnswer
  \/ Send
  \/ \E burst \in Bursts : Noise(burst)
  \/ Break

\* The pump runs while there is something to read or write, and the host does not
\* give up.
LFairness ==
  WF_lvars(Connect) /\ WF_lvars(SomeRead) /\ WF_lvars(WriteAnswer) /\ WF_lvars(Send)

LSpec == LInit /\ [][LNext]_lvars /\ LFairness

-------------------------------------------------------------------------------
(***************************************************************************)
(* Properties.                                                             *)
(***************************************************************************)

\* Between reads the buffer has room for a byte, whatever was read: the branch that
\* drops the front of a full buffer (lib.rs:93-97) never loses one.
BufferHasRoom == buf \in Seq(Token) /\ Len(buf) < Capacity

\* Frames come out only as they were sent, in the order of the requests, whatever
\* noise and halves of frames lie between them ("skips non-frame noise and drops
\* bad-CRC frames", lib.rs:73-74).
GenuineInOrder ==
  [][\A i \in DOMAIN found' :
       /\ found'[i] \in Requests /\ found'[i] >= last
       /\ \A j \in 1 .. i : found'[j] <= found'[i]]_lvars

\* The places at which a whole frame ends in a stream.
Ends(s) ==
  {e \in DOMAIN s : \E r \in Requests :
     /\ Len(Encoded(r)) <= e
     /\ SubSeq(s, e + 1 - Len(Encoded(r)), e) = Encoded(r)}

\* The parser loses no frame that arrived whole, however noise and broken frames
\* around it are read: each one that a read completes is found in that read, or
\* waits in the buffer behind a header that promises more.
FramesFoundOrHeld ==
  [][LET completed == {e \in Ends(recent' \o packet') : e > Len(recent')}
     IN  Len(found') + Cardinality(Ends(buf'))
           = Cardinality(Ends(buf)) + Cardinality(completed)]_lvars

\* A request is answered in the end, however often the line was disturbed, although
\* frames held back by a false header come out in one read and only the first ones
\* are handled (Provisioner::feed, lib.rs:107-118).
RequestsAnswered == \A r \in Requests : req = r ~> req > r
===============================================================================
