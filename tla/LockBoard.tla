------------------------------ MODULE LockBoard ------------------------------
(***************************************************************************)
(* The lock board: the bus interrupt (lock_twi.c) and the main loop        *)
(* (main.c) share a mailbox, the nonces and the wake-up of a sleeping      *)
(* processor; nonce.c and config.c share an EEPROM that outlives a reset.  *)
(*                                                                         *)
(* A bus event is one or a few bytes handled by the interrupt at once; the *)
(* main loop is a program counter whose steps end wherever an interrupt    *)
(* can tell the difference.  Messages are chunks: a COMMAND is a command   *)
(* and a MAC, a CONFIG is a header, the sequences and a MAC, so that       *)
(* lengths, short writes and half-overwritten buffers mean what they do.   *)
(* A MAC is the key, the nonce and the payload it was computed from.       *)
(***************************************************************************)
EXTENDS Actuator, Sequences

CONSTANTS
  DefaultBlob,   \* k_defaults
  CTR_STRIDE,    \* nonces per EEPROM write
  Boundaries,    \* weights of the bytes of a dword: where its write can be cut
  ResetBleeds,   \* TRUE: a reset lasts long enough to empty the rail
  Masters        \* bounds: what a master may do, and how often

VARIABLES
  twi,      \* what the interrupt and the main loop share, and its own statics
  main,     \* the main loop: program counter and locals
  nonces,   \* s_ctr and s_watermark
  ee,       \* the EEPROM: the nonce watermark and the config blob
  host,     \* the bus master: whether it is writing, and what it has to send
  past      \* history: nonces handed out and accepted; bounds used up

bvars == <<avars, twi, main, nonces, ee, host, past>>

CMD_LEN == 2
CFG_LEN == 3
RX_MAX == CFG_LEN

Commands == {"unlock", "lock", "abort"}

\* An erased EEPROM: no magic, every other byte 0xFF.
Erased == "erased"
Magic(n) == n # Erased

\* A master sends `sent`; it starts at most `writes` writes and reads NONCE at
\* most `reads` times, with at most `faults` bus errors, short writes, long writes
\* and reads without a register, and at most `resets` resets of the board; `mark`
\* and `blob` are what the board's EEPROM holds at first (a blank mark reads as 0).
ASSUME BoardAssumption ==
  /\ {DefaultBlob, Erased} \subseteq Names
  /\ CTR_STRIDE \in Nat \ {0, 1}
  /\ Boundaries \subseteq Nat \ {0}
  /\ ResetBleeds \in BOOLEAN
  /\ \A m \in Masters : m.sent \subseteq Commands \cup Names /\ m.mark \in Nat /\ m.blob \in Names

\* A nonce is copied in two halves; equal halves are one HMAC of the counter.
Nonce(n) == <<n, n>>

Plain(p) == [key |-> "none", nonce |-> Nonce(0), first |-> p, second |-> ""]
Mac(key, nonce, p, q) == [key |-> key, nonce |-> nonce, first |-> p, second |-> q]

\* COMMAND: cmd and HMAC(pairing_secret, nonce, cmd).  CONFIG: blob and
\* HMAC(config_secret, nonce, blob).
Register(p) == IF p \in Commands THEN "COMMAND" ELSE "CONFIG"
Message(p, nonce) ==
  IF p \in Commands THEN <<Plain(p), Mac("pairing", nonce, p, "")>>
                    ELSE <<Plain(p), Plain(p), Mac("config", nonce, p, p)>>

\* A message with as much behind it as overruns the interrupt's buffer.
Overlong(p, nonce) == Message(p, nonce) \o <<Plain(p), Plain(p)>>

\* What a master may have sent: any part of a message, under any nonce it ever read.
Parts(p, n) == {Message(p, n)[i] : i \in DOMAIN Message(p, n)}
Sent(p) == UNION {Parts(p, n) : n \in past.handed \cup past.old}
Chunks == {Plain("")} \cup UNION {Sent(p) : p \in host.is.sent}

-------------------------------------------------------------------------------
(***************************************************************************)
(* Bus events.  Every interrupt wakes a sleeping main loop.                *)
(***************************************************************************)
Woken == IF main.pc = "asleep" THEN [main EXCEPT !.pc = "consume"] ELSE main

Fault == [past EXCEPT !.faults = @ + 1]
Faulty == past.faults < host.is.faults

\* A read of NONCE arms it.
Arming(t) == [t EXCEPT !.armed = TRUE, !.armed_nonce = t.next, !.consumed = TRUE]
HandedOut(p) == [p EXCEPT !.handed = @ \cup {twi.next}, !.reads = @ + 1]

\* The register byte, a repeated start, the read and its STOP.
ReadNonce ==
  /\ ~host.writing /\ past.reads < host.is.reads
  /\ twi' = Arming([twi EXCEPT !.reg = "NONCE", !.count = 0])
  /\ past' = HandedOut(past)
  /\ main' = Woken
  /\ UNCHANGED <<avars, nonces, ee, host>>

\* A STOP raises the flag of the register a write left behind, with the count
\* that write left: the interrupt does not ask whether it ends a write.
Stopped(t) ==
  CASE t.count >= 1 /\ t.reg = "COMMAND" -> [t EXCEPT !.rx_len = t.count, !.cmd_pending = TRUE]
    [] t.count >= 1 /\ t.reg = "CONFIG" -> [t EXCEPT !.rx_len = t.count, !.cfg_pending = TRUE]
    [] OTHER -> t

\* A read that selects no register first: the pointer is sticky.
BareRead ==
  /\ ~host.writing /\ Faulty
  /\ IF twi.reg = "NONCE"
       THEN past.reads < host.is.reads /\ twi' = Arming(twi) /\ past' = HandedOut(Fault)
       ELSE twi' = Stopped(twi) /\ past' = Fault
  /\ main' = Woken
  /\ UNCHANGED <<avars, nonces, ee, host>>

\* Address and register byte.  The nonce is any one the master ever read: it may
\* repeat a write it believes lost.
Writing(bytes) == [host EXCEPT !.writing = TRUE, !.todo = bytes, !.writes = @ + 1]

StartWrite(p, nonce) ==
  /\ ~host.writing /\ host.writes < host.is.writes
  /\ \/ host' = Writing(Message(p, nonce)) /\ UNCHANGED past
     \/ Faulty /\ host' = Writing(Overlong(p, nonce)) /\ past' = Fault
  /\ twi' = [twi EXCEPT !.reg = Register(p), !.count = 0]
  /\ main' = Woken
  /\ UNCHANGED <<avars, nonces, ee>>

\* The next chunk, stored up to RX_MAX.
ReceiveChunk ==
  /\ host.writing /\ host.todo # << >>
  /\ host' = [host EXCEPT !.todo = Tail(@)]
  /\ twi' = [twi EXCEPT
               !.rx_buf = IF twi.count < RX_MAX THEN [@ EXCEPT ![twi.count + 1] = Head(host.todo)]
                                                ELSE @,
               !.count = IF @ <= RX_MAX THEN @ + 1 ELSE @]
  /\ main' = Woken
  /\ UNCHANGED <<avars, nonces, ee, past>>

\* The end of a write, early if the master gives up.
Stop ==
  /\ host.writing
  /\ IF host.todo = << >> THEN UNCHANGED past ELSE Faulty /\ past' = Fault
  /\ host' = [host EXCEPT !.writing = FALSE, !.todo = << >>]
  /\ twi' = Stopped(twi)
  /\ main' = Woken
  /\ UNCHANGED <<avars, nonces, ee>>

\* A bus error drops the transaction; rx_count stays.
BusError ==
  /\ host.writing /\ Faulty
  /\ past' = Fault
  /\ host' = [host EXCEPT !.writing = FALSE, !.todo = << >>]
  /\ main' = Woken
  /\ UNCHANGED <<avars, twi, nonces, ee>>

-------------------------------------------------------------------------------
(***************************************************************************)
(* The main loop.                                                          *)
(***************************************************************************)
At(pc) == main.pc = pc
Goto(pc) == main' = [main EXCEPT !.pc = pc]

\* nonce_next's counter: the mark moves a stride ahead before a nonce reaches it.
MarkDue(n) == n.ctr + 1 >= n.mark
Counted(n) ==
  [ctr |-> n.ctr + 1,
   mark |-> IF MarkDue(n) THEN n.ctr + 1 + CTR_STRIDE ELSE n.mark]

\* What `from` is, written over with `to` byte by byte, when the bytes below the
\* boundary k are written: or, with the two exchanged, those above it.
Partly(from, to, k) == (from \div k) * k + (to % k)

Saved_Counter(n) == [ee EXCEPT !.mark = n.ctr]
Saved(n) == [ee EXCEPT !.mark = n.mark]

Consume ==
  /\ At("consume")
  /\ twi' = [twi EXCEPT !.consumed = FALSE]
  /\ Goto(IF twi.consumed THEN "regenerate" ELSE "command")
  /\ UNCHANGED <<avars, nonces, ee, host, past>>

Regenerate ==
  /\ At("regenerate")
  /\ nonces' = Counted(nonces)
  /\ Goto(IF MarkDue(nonces) THEN "save" ELSE "nonce")
  /\ UNCHANGED <<avars, twi, ee, host, past>>

\* eeprom_update_dword writes byte by byte, milliseconds each, with interrupts on;
\* the library does not say which end is first.
SaveHalf ==
  /\ At("save")
  /\ \E k \in Boundaries :
       \/ ee' = [ee EXCEPT !.mark = Partly(@, nonces.mark, k)]
       \/ ee' = [ee EXCEPT !.mark = Partly(nonces.mark, @, k)]
  /\ Goto("save_rest")
  /\ UNCHANGED <<avars, twi, nonces, host, past>>

\* Before the bus is up it is nonce_init that writes: nonce_next follows.
SaveRest ==
  /\ At("save_rest")
  /\ ee' = Saved(nonces)
  /\ Goto(IF twi.on THEN "nonce" ELSE "regenerate")
  /\ UNCHANGED <<avars, twi, nonces, host, past>>

\* The copy into twi_next_nonce is not atomic: a read may catch it half done.
DrawNonce ==
  /\ At("nonce")
  /\ twi' = [twi EXCEPT !.next[1] = nonces.ctr]
  /\ Goto("copy")
  /\ UNCHANGED <<avars, nonces, ee, host, past>>

\* The first nonce of a life is drawn before the bus is up.
CopyNonce ==
  /\ At("copy")
  /\ twi' = [twi EXCEPT !.next[2] = nonces.ctr, !.on = TRUE]
  /\ Goto(IF twi.on THEN "command" ELSE "consume")
  /\ UNCHANGED <<avars, nonces, ee, host, past>>

CheckCommand ==
  /\ At("command")
  /\ twi' = [twi EXCEPT !.cmd_pending = FALSE]
  /\ main' = IF twi.cmd_pending THEN [main EXCEPT !.pc = "take", !.reg = "COMMAND"]
                                ELSE [main EXCEPT !.pc = "config"]
  /\ UNCHANGED <<avars, nonces, ee, host, past>>

CheckConfig ==
  /\ At("config")
  /\ twi' = [twi EXCEPT !.cfg_pending = FALSE]
  /\ main' = IF twi.cfg_pending THEN [main EXCEPT !.pc = "take", !.reg = "CONFIG"]
                                ELSE [main EXCEPT !.pc = "tick"]
  /\ UNCHANGED <<avars, nonces, ee, host, past>>

\* Snapshot of the armed nonce and the payload under cli(): burns the nonce.
Cap_Mailbox == RX_MAX
Cap == IF main.reg = "COMMAND" THEN CMD_LEN ELSE CFG_LEN

Burned_Not(t) == t
Burned(t) == [t EXCEPT !.armed = FALSE]

TakeChallenge ==
  LET n == IF twi.rx_len > Cap THEN Cap ELSE twi.rx_len
  IN  /\ At("take")
      /\ main' = [main EXCEPT !.pc = "verify",
                    !.buf = SubSeq(twi.rx_buf, 1, n),
                    !.nonce = twi.armed_nonce,
                    !.len = IF twi.armed THEN twi.rx_len ELSE 0]
      /\ twi' = Burned(twi)
      /\ UNCHANGED <<avars, nonces, ee, host, past>>

CommandVerifies ==
  /\ main.len = CMD_LEN
  /\ main.buf[1].first \in Commands
  /\ main.buf[2] = Mac("pairing", main.nonce, main.buf[1].first, "")

ConfigVerifies ==
  /\ main.len = CFG_LEN
  /\ main.buf[3] = Mac("config", main.nonce, main.buf[1].first, main.buf[2].first)

Accepts ==
  At("verify") /\ IF main.reg = "COMMAND" THEN CommandVerifies ELSE ConfigVerifies

LastCmd(d, ok) ==
  [d EXCEPT !.status = IF ok THEN @ \cup {"ok"} ELSE @ \ {"ok"}]

Accepted(p) == [p EXCEPT !.accepts = @ + 1, !.served = @ \cup {main.nonce}]

Cleared == [main EXCEPT !.buf = << >>, !.nonce = Nonce(0), !.len = 0]

\* service_command after the snapshot.
ServiceCommand ==
  LET cmd == main.buf[1].first
  IN  /\ At("verify") /\ main.reg = "COMMAND"
      /\ main' = [Cleared EXCEPT !.pc = "config"]
      /\ IF CommandVerifies
           THEN /\ dev' = LET d == LastCmd(dev, TRUE)
                          IN  IF cmd = "abort" THEN ActuateAbort(d) ELSE ActuateBegin(d, cmd)
                /\ seen' = {}
                /\ past' = Accepted(past)
           ELSE dev' = LastCmd(dev, FALSE) /\ UNCHANGED <<seen, past>>
      /\ UNCHANGED <<cfg, twi, nonces, ee, host>>

Quiesced_Not(d) == d
Quiesced(d) == ActuateAbort(d)

\* service_config: the magic is checked after the cycle was aborted.
ServiceConfig ==
  LET hdr == main.buf[1].first
      seqs == main.buf[2].first
  IN  /\ At("verify") /\ main.reg = "CONFIG"
      /\ IF ConfigVerifies
           THEN /\ dev' = LastCmd(Quiesced(dev), Magic(hdr))
                /\ seen' = {}
                /\ cfg' = IF Magic(hdr) THEN [hdr |-> hdr, seqs |-> seqs] ELSE cfg
                /\ main' = [Cleared EXCEPT !.pc = IF Magic(hdr) THEN "persist" ELSE "tick"]
                /\ past' = Accepted(past)
           ELSE /\ dev' = LastCmd(dev, FALSE)
                /\ main' = [Cleared EXCEPT !.pc = "tick"]
                /\ UNCHANGED <<cfg, seen, past>>
      /\ UNCHANGED <<twi, nonces, ee, host>>

\* eeprom_update_block, in two halves: the library does not say which is first.
PersistHalf ==
  /\ At("persist")
  /\ \/ ee' = [ee EXCEPT !.hdr = cfg.hdr]
     \/ ee' = [ee EXCEPT !.seqs = cfg.seqs]
  /\ Goto("persist_rest")
  /\ UNCHANGED <<avars, twi, nonces, host, past>>

PersistRest ==
  /\ At("persist_rest")
  /\ ee' = [ee EXCEPT !.hdr = cfg.hdr, !.seqs = cfg.seqs]
  /\ Goto("tick")
  /\ UNCHANGED <<avars, twi, nonces, host, past>>

LoopTick ==
  /\ At("tick")
  /\ ActuateTick
  /\ Goto("sleep")
  /\ UNCHANGED <<twi, nonces, ee, host, past>>

Idle_Anyway == TRUE
Idle == ~twi.cmd_pending /\ ~twi.cfg_pending /\ ~twi.consumed

\* refresh_hall, then the sleep.  The check and the sleep are one step: sei() takes effect after sleep_cpu().
LoopSleep ==
  /\ At("sleep")
  /\ Sense
  /\ Goto(IF Idle THEN "asleep" ELSE "consume")
  /\ UNCHANGED <<twi, nonces, ee, host, past>>

MainStep ==
  \/ Consume \/ Regenerate \/ SaveHalf \/ SaveRest \/ DrawNonce \/ CopyNonce
  \/ CheckCommand \/ CheckConfig \/ TakeChallenge
  \/ ServiceCommand \/ ServiceConfig \/ PersistHalf \/ PersistRest
  \/ LoopTick \/ LoopSleep

\* The timer runs while a cycle does, and its interrupt wakes the loop.
MsTick ==
  /\ At("asleep") /\ dev.timer
  /\ Goto("consume")
  /\ UNCHANGED <<avars, twi, nonces, ee, host, past>>

TimerElapses == PhaseElapses /\ UNCHANGED <<twi, main, nonces, ee, host, past>>

-------------------------------------------------------------------------------
(***************************************************************************)
(* Power.                                                                  *)
(***************************************************************************)
\* nonce_init reserves a stride above what the EEPROM holds.
Reserved(mark) == [ctr |-> mark, mark |-> mark + CTR_STRIDE]

Twi ==
  [on |-> FALSE, reg |-> "STATUS", count |-> 0, rx_len |-> 0,
   rx_buf |-> [i \in 1 .. RX_MAX |-> Plain("")], cmd_pending |-> FALSE, cfg_pending |-> FALSE,
   armed |-> FALSE, armed_nonce |-> Nonce(0), next |-> Nonce(0), consumed |-> FALSE]

\* Up to nonce_init's write of the mark.
Main == [pc |-> "save", reg |-> "COMMAND",
         buf |-> << >>, nonce |-> Nonce(0), len |-> 0]

\* config_init: the defaults unless the magic is there.
Loaded(hdr, seqs) ==
  IF Magic(hdr) THEN [hdr |-> hdr, seqs |-> seqs]
                ELSE [hdr |-> DefaultBlob, seqs |-> DefaultBlob]

\* A write of the mark is cut and leaves it lower than it was: the low bytes went
\* first, and the new mark carries into a higher one.
MarkLost == At("save_rest") /\ ee.mark < nonces.ctr

\* Everything in RAM is gone; the EEPROM may hold half of a new blob or mark.
Reset ==
  /\ past.resets < host.is.resets
  /\ Restart(Loaded(ee.hdr, ee.seqs), IF ResetBleeds THEN "vbat" ELSE dev.vsol)
  /\ nonces' = Reserved(ee.mark)
  /\ twi' = Twi
  /\ main' = Main
  /\ host' = [host EXCEPT !.writing = FALSE, !.todo = << >>]
  /\ past' = [past EXCEPT !.old = @ \cup past.handed, !.handed = {}, !.served = {},
                          !.resets = @ + 1, !.lost = @ \/ MarkLost]
  /\ UNCHANGED ee

BInit ==
  \E m \in Masters :
    /\ ee = [mark |-> m.mark, hdr |-> m.blob, seqs |-> m.blob]
    /\ cfg = Loaded(m.blob, m.blob)
    /\ host = [is |-> m, writing |-> FALSE, todo |-> << >>, writes |-> 0]
    /\ dev = PowerOn("vbat")
    /\ seen = {}
    /\ nonces = Reserved(m.mark)
    /\ twi = Twi
    /\ main = Main
    /\ past = [handed |-> {}, old |-> {}, served |-> {}, reads |-> 0, accepts |-> 0,
               faults |-> 0, resets |-> 0, lost |-> FALSE]

\* Nothing answers on the bus before twi_target_init.
BusEvent ==
  /\ twi.on
  /\ \/ ReadNonce
     \/ BareRead
     \/ \E p \in host.is.sent, n \in past.handed \cup past.old : StartWrite(p, n)
     \/ ReceiveChunk
     \/ Stop
     \/ BusError

BNext == MainStep \/ MsTick \/ TimerElapses \/ BusEvent \/ Reset

\* The processor runs its loop, the timer counts; nothing is asked of the master.
BFairness == WF_bvars(MainStep) /\ WF_bvars(MsTick) /\ WF_bvars(TimerElapses)

BSpec == BInit /\ [][BNext]_bvars
BFairSpec == BSpec /\ BFairness

-------------------------------------------------------------------------------
(***************************************************************************)
(* Properties.                                                             *)
(***************************************************************************)
\* The main loop's buffer is no larger than the message it is for, although both
\* messages share one mailbox and one length (lock_twi.h:108-110).
BoardTypeOK ==
  /\ ActuatorTypeOK
  /\ nonces \in [ctr: Nat, mark: Nat]
  /\ ee.mark \in Nat
  /\ twi.rx_len \in 0 .. RX_MAX + 1 /\ twi.count \in 0 .. RX_MAX + 1
  /\ \A i \in 1 .. RX_MAX : twi.rx_buf[i] \in Chunks
  /\ main.len \in 0 .. RX_MAX + 1 /\ Len(main.buf) <= RX_MAX
  /\ main.reg = "COMMAND" => Len(main.buf) <= CMD_LEN

\* A nonce handed out before a reset is never handed out after it, wherever the
\* power failed, in the middle of a write of the mark too: nonces "never repeat
\* across reboots/power loss" (nonce.h:4-6).  One case is excepted, in which they do
\* repeat: a reset that cut the write of a mark and left it lower than it was.
NoncesNeverRepeat == ~past.lost => past.handed \cap past.old = {}

\* Every accepted message cost a read of NONCE of its own, whatever was repeated,
\* cut short or overwritten on the bus ("single-use", main.c:83).
ReadPerAcceptance == past.accepts <= past.reads

\* No message is accepted under a nonce that another one was accepted under
\* ("a MAC verifies at most once", lock-attiny/README.md:97).
AcceptsOnce == [][Accepts /\ main'.pc # main.pc => main.nonce \notin past.served]_bvars

\* A write that completed is serviced, however it falls between the checks and
\* the sleep ("don't sleep if work arrived while we were busy", main.c:193).
WritesServiced ==
  /\ twi.cmd_pending ~> ~twi.cmd_pending
  /\ twi.cfg_pending ~> ~twi.cfg_pending

\* Every cycle comes to an end and the board goes quiet, unless the master
\* starts another.
CyclesEnd == dev.active ~> ~dev.active
===============================================================================
