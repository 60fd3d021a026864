----------------------------- MODULE LockBoardProofs -----------------------------
(***************************************************************************)
(* What the lock board promises for every blob, every master and every     *)
(* stride of the EEPROM, however often the board is reset: first of its    *)
(* nonces, then of the actuator it drives and the mailbox it is told by.   *)
(***************************************************************************)
EXTENDS LockBoard, SequenceTheorems, TLAPS

Shapes ==
  /\ {"armed", "next", "on"} \subseteq DOMAIN twi /\ 1 \in DOMAIN twi.next
  /\ twi.on \in BOOLEAN
  /\ {"pc", "len"} \subseteq DOMAIN main
  /\ "mark" \in DOMAIN ee
  /\ {"handed", "old", "reads", "accepts", "lost"} \subseteq DOMAIN past /\ past.lost \in BOOLEAN

Numbers ==
  /\ nonces \in [ctr : Nat, mark : Nat] /\ nonces.ctr < nonces.mark
  /\ ee.mark \in Nat

\* Outside its own write the mark in the EEPROM is the one in RAM, and a write starts
\* from a mark that the counter has just reached; the nonce being copied is
\* the counter's.
Saving == main.pc \in {"save", "save_rest"}

Marked ==
  /\ ~Saving => ee.mark = nonces.mark
  /\ main.pc = "save" => ee.mark = nonces.ctr
  /\ main.pc = "copy" => twi.next[1] = nonces.ctr

\* The first halves of the nonces count the board's lifetime: none of this life is
\* ahead of the counter, or level with it before the mark that covers it is written,
\* and every nonce of an earlier life is below all of them.
Now == past.handed \cup {h \in {twi.next} : twi.on = TRUE}

Ages ==
  /\ \A h \in Now : h[1] \in Nat /\ h[1] <= nonces.ctr /\ (Saving => h[1] < nonces.ctr)
  /\ \A o \in past.old : o[1] \in Nat /\ o[1] < nonces.ctr
  /\ \A o \in past.old, h \in Now : o[1] < h[1]

Aged == past.lost = FALSE => Ages

Counter == Numbers /\ Marked /\ Aged

\* An armed nonce, and one taken for a message that is not verified yet, are each a
\* read that no message was accepted for.
Armed == twi.armed = TRUE
Taken == main.pc = "verify" /\ main.len # 0

Ledger ==
  /\ past.reads \in Nat /\ past.accepts \in Nat
  /\ past.accepts <= past.reads
  /\ Armed \/ Taken => past.accepts + 1 <= past.reads
  /\ Armed /\ Taken => past.accepts + 2 <= past.reads

NInv == Shapes /\ Counter /\ Ledger

LEMMA CountedUp ==
  ASSUME NEW n \in [ctr : Nat, mark : Nat], n.ctr < n.mark
  PROVE  /\ Counted(n) \in [ctr : Nat, mark : Nat]
         /\ Counted(n).ctr = n.ctr + 1 /\ Counted(n).ctr < Counted(n).mark
         /\ MarkDue(n) => n.mark = n.ctr + 1
         /\ ~MarkDue(n) => Counted(n).mark = n.mark
BY BoardAssumption DEF Counted, MarkDue

LEMMA ReservedFrom ==
  ASSUME NEW mark \in Nat
  PROVE  /\ Reserved(mark) \in [ctr : Nat, mark : Nat]
         /\ Reserved(mark).ctr = mark /\ mark < Reserved(mark).mark
BY BoardAssumption DEF Reserved

\* At the start of a life the bus is off and a mark is about to be written.
LEMMA BornWith ==
  ASSUME NEW t, NEW w, t = Twi, w = Main
  PROVE  /\ {"armed", "next", "on"} \subseteq DOMAIN t /\ 1 \in DOMAIN t.next
         /\ t.on = FALSE /\ t.armed = FALSE
         /\ {"pc", "len"} \subseteq DOMAIN w /\ w.pc = "save"
<1>1. {"pc", "len"} \subseteq DOMAIN w /\ w.pc = "save"
  BY DEF Main
<1>2. {"armed", "next", "on"} \subseteq DOMAIN t /\ t.on = FALSE /\ t.armed = FALSE
  BY DEF Twi
<1>3. t.next = <<0, 0>>
  BY DEF Twi, Nonce
<1>4. QED
  BY <1>1, <1>2, <1>3

LEMMA NInitInv == BInit => NInv
<1> SUFFICES ASSUME BInit PROVE NInv
  OBVIOUS
<1>1. PICK m \in Masters :
        /\ ee = [mark |-> m.mark, hdr |-> m.blob, seqs |-> m.blob]
        /\ nonces = Reserved(m.mark) /\ twi = Twi /\ main = Main
        /\ past = [handed |-> {}, old |-> {}, served |-> {}, reads |-> 0, accepts |-> 0,
                   faults |-> 0, resets |-> 0, lost |-> FALSE]
  BY DEF BInit
<1>2. m.mark \in Nat /\ ee.mark = m.mark /\ "mark" \in DOMAIN ee
  BY <1>1, BoardAssumption
<1>3. /\ past.handed = {} /\ past.old = {} /\ past.reads = 0 /\ past.accepts = 0
      /\ {"handed", "old", "reads", "accepts", "lost"} \subseteq DOMAIN past
      /\ past.lost = FALSE
  BY <1>1
<1>4. /\ {"armed", "next", "on"} \subseteq DOMAIN twi /\ 1 \in DOMAIN twi.next
      /\ twi.on = FALSE /\ twi.armed = FALSE
      /\ {"pc", "len"} \subseteq DOMAIN main /\ main.pc = "save"
  BY <1>1, BornWith
<1>5. nonces \in [ctr : Nat, mark : Nat] /\ nonces.ctr = ee.mark /\ nonces.ctr < nonces.mark
  BY <1>1, <1>2, ReservedFrom
<1>6. Shapes /\ Numbers
  BY <1>2, <1>3, <1>4, <1>5 DEF Shapes, Numbers
<1>7. Marked
  BY <1>2, <1>4, <1>5 DEF Marked, Saving
<1>8. Aged
  BY <1>3, <1>4 DEF Aged, Ages, Now
<1>9. Ledger
  BY <1>3, <1>4 DEF Ledger, Armed, Taken
<1>10. QED
  BY <1>6, <1>7, <1>8, <1>9 DEF NInv, Counter

-------------------------------------------------------------------------------
\* Where the mark is being written or a nonce copied.
Busied(pc) == pc \in {"save", "save_rest", "copy"}

\* A wake-up spends nothing.
LEMMA WokenSame ==
  ASSUME NInv
  PROVE  /\ {"pc", "len"} \subseteq DOMAIN Woken
         /\ Woken.len = main.len /\ (Woken.pc = "verify" <=> main.pc = "verify")
         /\ Woken.pc = main.pc \/ (~Busied(Woken.pc) /\ ~Busied(main.pc))
BY DEF NInv, Shapes, Woken, Busied

\* Steps that hand out no nonce beyond the one laid out, make none and write no mark.
LEMMA CounterSame ==
  ASSUME Counter, UNCHANGED nonces, ee'.mark = ee.mark,
         main'.pc = main.pc \/ (~Busied(main'.pc) /\ ~Busied(main.pc)),
         twi'.next = twi.next, twi'.on = twi.on,
         past'.lost = past.lost, past'.old = past.old,
         \/ past'.handed = past.handed
         \/ twi.on = TRUE /\ past'.handed = past.handed \cup {twi.next}
  PROVE  Counter'
<1>1. Now' = Now
  BY DEF Now
<1>2. Saving' <=> Saving
  BY DEF Saving, Busied
<1>3. Aged'
  <2>1. past'.lost = FALSE => Ages
    BY DEF Counter, Aged
  <2>2. Ages => Ages'
    BY <1>1, <1>2 DEF Ages
  <2>3. QED
    BY <2>1, <2>2 DEF Aged
<1>4. Marked'
  BY <1>2 DEF Counter, Marked, Busied
<1>5. QED
  BY <1>3, <1>4 DEF Counter, Numbers

\* Steps that hand out no nonce, make none and take none.
LEMMA Neutral ==
  ASSUME NInv,
         {"armed", "next", "on"} \subseteq DOMAIN twi',
         twi'.armed = twi.armed, twi'.next = twi.next, twi'.on = twi.on,
         {"pc", "len"} \subseteq DOMAIN main',
         main'.pc = main.pc \/ (~Busied(main'.pc) /\ ~Busied(main.pc)),
         main'.pc = "verify" => main.pc = "verify" /\ main'.len = main.len,
         UNCHANGED nonces, "mark" \in DOMAIN ee', ee'.mark = ee.mark,
         {"handed", "old", "reads", "accepts", "lost"} \subseteq DOMAIN past',
         past'.handed = past.handed, past'.old = past.old, past'.lost = past.lost,
         past'.reads = past.reads, past'.accepts = past.accepts
  PROVE  NInv'
<1>1. Counter'
  BY CounterSame DEF NInv
<1>2. Shapes'
  BY DEF NInv, Shapes
<1>3. Ledger'
  BY DEF NInv, Ledger, Armed, Taken
<1>4. QED
  BY <1>1, <1>2, <1>3 DEF NInv

\* A read of NONCE, with or without its register byte.
LEMMA ReadStep ==
  ASSUME NInv, UNCHANGED <<nonces, ee>>, main' = Woken, twi.on = TRUE,
         {"armed", "next", "on"} \subseteq DOMAIN twi', twi'.armed = TRUE,
         twi'.next = twi.next, twi'.on = twi.on,
         {"handed", "old", "reads", "accepts", "lost"} \subseteq DOMAIN past',
         past'.handed = past.handed \cup {twi.next}, past'.old = past.old,
         past'.lost = past.lost,
         past'.reads = past.reads + 1, past'.accepts = past.accepts
  PROVE  NInv'
<1>1. Counter'
  <2>1. main'.pc = main.pc \/ (~Busied(main'.pc) /\ ~Busied(main.pc))
    BY WokenSame
  <2>2. QED
    BY <2>1, CounterSame DEF NInv
<1>2. Shapes'
  BY WokenSame DEF NInv, Shapes
<1>3. Taken' => Taken
  <2>1. main'.len = main.len /\ (main'.pc = "verify" => main.pc = "verify")
    BY WokenSame
  <2>2. QED
    BY <2>1 DEF Taken
<1>4. Ledger'
  BY <1>3 DEF NInv, Ledger, Armed
<1>5. QED
  BY <1>1, <1>2, <1>4 DEF NInv

LEMMA BusStep == NInv /\ BusEvent => NInv'
<1> SUFFICES ASSUME NInv, BusEvent PROVE NInv'
  OBVIOUS
<1>0. twi.on = TRUE
  BY DEF BusEvent, NInv, Shapes
<1>1. CASE ReadNonce
  <2>1. /\ {"armed", "next", "on"} \subseteq DOMAIN twi' /\ twi'.armed = TRUE
        /\ twi'.next = twi.next /\ twi'.on = twi.on
        /\ {"handed", "old", "reads", "accepts", "lost"} \subseteq DOMAIN past'
        /\ past'.handed = past.handed \cup {twi.next} /\ past'.old = past.old
        /\ past'.reads = past.reads + 1 /\ past'.accepts = past.accepts
        /\ past'.lost = past.lost
    BY <1>1 DEF ReadNonce, Arming, HandedOut, NInv, Shapes
  <2>2. QED
    BY <1>0, <1>1, <2>1, ReadStep DEF ReadNonce
<1>2. CASE BareRead /\ twi.reg = "NONCE"
  <2>1. /\ {"armed", "next", "on"} \subseteq DOMAIN twi' /\ twi'.armed = TRUE
        /\ twi'.next = twi.next /\ twi'.on = twi.on
        /\ {"handed", "old", "reads", "accepts", "lost"} \subseteq DOMAIN past'
        /\ past'.handed = past.handed \cup {twi.next} /\ past'.old = past.old
        /\ past'.reads = past.reads + 1 /\ past'.accepts = past.accepts
        /\ past'.lost = past.lost
    BY <1>2 DEF BareRead, Arming, HandedOut, Fault, NInv, Shapes
  <2>2. QED
    BY <1>0, <1>2, <2>1, ReadStep DEF BareRead
<1>3. ASSUME UNCHANGED <<nonces, ee>>, main' = Woken, past' \in {past, Fault},
             {"armed", "next", "on"} \subseteq DOMAIN twi',
             twi'.armed = twi.armed, twi'.next = twi.next, twi'.on = twi.on
      PROVE  NInv'
  <2>1. /\ {"handed", "old", "reads", "accepts", "lost"} \subseteq DOMAIN past'
        /\ past'.handed = past.handed /\ past'.old = past.old /\ past'.lost = past.lost
        /\ past'.reads = past.reads /\ past'.accepts = past.accepts
    BY <1>3 DEF Fault, NInv, Shapes
  <2>2. "mark" \in DOMAIN ee' /\ ee'.mark = ee.mark
    BY <1>3 DEF NInv, Shapes
  <2>3. /\ {"pc", "len"} \subseteq DOMAIN main'
        /\ main'.pc = main.pc \/ (~Busied(main'.pc) /\ ~Busied(main.pc))
        /\ main'.pc = "verify" => main.pc = "verify" /\ main'.len = main.len
    BY <1>3, WokenSame
  <2>4. QED
    BY <1>3, <2>1, <2>2, <2>3, Neutral
<1>4. CASE BareRead /\ twi.reg # "NONCE"
  BY <1>3, <1>4 DEF BareRead, Stopped, NInv, Shapes
<1>5. ASSUME NEW p, NEW nonce, StartWrite(p, nonce) PROVE NInv'
  BY <1>3, <1>5 DEF StartWrite, NInv, Shapes
<1>6. CASE ReceiveChunk
  BY <1>3, <1>6 DEF ReceiveChunk, NInv, Shapes
<1>7. CASE Stop
  BY <1>3, <1>7 DEF Stop, Stopped, NInv, Shapes
<1>8. CASE BusError
  BY <1>3, <1>8 DEF BusError, NInv, Shapes
<1>9. QED
  BY <1>1, <1>2, <1>4, <1>5, <1>6, <1>7, <1>8 DEF BusEvent

-------------------------------------------------------------------------------
\* Steps of the main loop that stay clear of the nonces.
LEMMA LoopNeutral ==
  ASSUME NInv, UNCHANGED <<nonces, past>>,
         {"armed", "next", "on"} \subseteq DOMAIN twi',
         twi'.armed = twi.armed, twi'.next = twi.next, twi'.on = twi.on,
         {"pc", "len"} \subseteq DOMAIN main', main'.pc # "verify",
         ~Busied(main'.pc), ~Busied(main.pc),
         "mark" \in DOMAIN ee', ee'.mark = ee.mark
  PROVE  NInv'
BY Neutral DEF NInv, Shapes

\* A step on the way to a nonce: nothing is armed, taken or handed out.
LEMMA OnTheWay ==
  ASSUME NInv, Counter', past' = past, main.pc # "verify", main'.pc # "verify",
         {"armed", "next", "on"} \subseteq DOMAIN twi', 1 \in DOMAIN twi'.next,
         twi'.on \in {twi.on, TRUE}, twi'.armed = twi.armed, {"pc", "len"} \subseteq DOMAIN main', "mark" \in DOMAIN ee'
  PROVE  NInv'
<1>1. Shapes'
  BY DEF NInv, Shapes
<1>2. Ledger'
  BY DEF NInv, Ledger, Armed, Taken
<1>3. QED
  BY <1>1, <1>2 DEF NInv

LEMMA RegenerateStep == NInv /\ Regenerate => NInv'
<1> SUFFICES ASSUME NInv, Regenerate PROVE NInv'
  OBVIOUS
<1> DEFINE n == Counted(nonces)
<1>1. /\ n \in [ctr : Nat, mark : Nat] /\ n.ctr = nonces.ctr + 1 /\ n.ctr < n.mark
      /\ MarkDue(nonces) => nonces.mark = nonces.ctr + 1
      /\ ~MarkDue(nonces) => n.mark = nonces.mark
  BY CountedUp DEF NInv, Counter, Numbers
<1>2. nonces' = n /\ UNCHANGED <<ee, twi, past>>
  BY DEF Regenerate
<1>3. /\ main.pc = "regenerate" /\ {"pc", "len"} \subseteq DOMAIN main'
      /\ main'.pc = IF MarkDue(nonces) THEN "save" ELSE "nonce"
  BY DEF Regenerate, Goto, At, NInv, Shapes
<1> HIDE DEF n
<1>4. ee.mark = nonces.mark
  BY <1>3 DEF NInv, Counter, Marked, Saving
<1>5. Numbers'
  BY <1>1, <1>2 DEF NInv, Counter, Numbers
<1>6. Marked'
  BY <1>1, <1>2, <1>3, <1>4 DEF Marked, Saving, NInv, Counter, Numbers
<1>7. Aged'
  <2>1. past'.lost = FALSE => Ages
    BY <1>2 DEF NInv, Counter, Aged
  <2>2. Now' = Now
    BY <1>2 DEF Now
  <2>3. nonces.ctr \in Nat /\ nonces'.ctr = nonces.ctr + 1
    BY <1>1, <1>2 DEF NInv, Counter, Numbers
  <2>4. Ages => Ages'
    BY <1>2, <2>2, <2>3 DEF Ages
  <2>5. QED
    BY <2>1, <2>4 DEF Aged
<1>8. Counter'
  BY <1>5, <1>6, <1>7 DEF Counter
<1>9. QED
  BY <1>2, <1>3, <1>8, OnTheWay DEF NInv, Shapes

\* Half a mark is a number, and no more is known of it.
LEMMA PartlyNat ==
  ASSUME NEW a \in Nat, NEW b \in Nat, NEW k \in Boundaries
  PROVE  Partly(a, b, k) \in Nat
<1>1. k \in Nat /\ k > 0
  BY BoardAssumption
<1>2. a \div k \in Nat /\ b % k \in Nat
  BY <1>1
<1>3. (a \div k) * k \in Nat
  BY <1>1, <1>2
<1>4. QED
  BY <1>2, <1>3 DEF Partly

LEMMA SaveStep == NInv /\ (SaveHalf \/ SaveRest) => NInv'
<1> SUFFICES ASSUME NInv, SaveHalf \/ SaveRest PROVE NInv'
  OBVIOUS
<1>1. /\ UNCHANGED <<twi, nonces, past>> /\ {"pc", "len"} \subseteq DOMAIN main'
      /\ Saving /\ "mark" \in DOMAIN ee'
      /\ \/ main'.pc = "save_rest" /\ SaveHalf
         \/ main'.pc \in {"nonce", "regenerate"} /\ ee'.mark = nonces.mark
  BY DEF SaveHalf, SaveRest, Saved, Goto, At, Saving, NInv, Shapes
<1>2. ee'.mark \in Nat
  <2>1. CASE SaveHalf
    <3>1. PICK k \in Boundaries : \/ ee'.mark = Partly(ee.mark, nonces.mark, k)
                                  \/ ee'.mark = Partly(nonces.mark, ee.mark, k)
      BY <2>1 DEF SaveHalf, NInv, Shapes
    <3>2. QED
      BY <3>1, PartlyNat DEF NInv, Counter, Numbers
  <2>2. QED
    BY <1>1, <2>1 DEF NInv, Counter, Numbers
<1>3. Numbers' /\ Marked'
  BY <1>1, <1>2 DEF NInv, Counter, Numbers, Marked, Saving
<1>4. Aged'
  <2>1. past'.lost = FALSE => Ages
    BY <1>1 DEF NInv, Counter, Aged
  <2>2. Now' = Now
    BY <1>1 DEF Now
  <2>3. Ages => Ages'
    BY <1>1, <2>2 DEF Ages
  <2>4. QED
    BY <2>1, <2>3 DEF Aged
<1>5. Counter'
  BY <1>3, <1>4 DEF Counter
<1>6. main.pc # "verify" /\ main'.pc # "verify"
  BY <1>1 DEF Saving
<1>7. QED
  BY <1>1, <1>5, <1>6, OnTheWay DEF NInv, Shapes

LEMMA DrawStep == NInv /\ DrawNonce => NInv'
<1> SUFFICES ASSUME NInv, DrawNonce PROVE NInv'
  OBVIOUS
<1>1. /\ {"armed", "next", "on"} \subseteq DOMAIN twi' /\ twi'.armed = twi.armed
      /\ 1 \in DOMAIN twi'.next /\ twi'.next[1] = nonces.ctr /\ twi'.on = twi.on
      /\ UNCHANGED <<nonces, ee, past>>
  BY DEF DrawNonce, NInv, Shapes
<1>2. main.pc = "nonce" /\ main'.pc = "copy" /\ {"pc", "len"} \subseteq DOMAIN main'
  BY DEF DrawNonce, Goto, At, NInv, Shapes
<1>3. Numbers' /\ Marked'
  BY <1>1, <1>2 DEF NInv, Counter, Numbers, Marked, Saving
<1>4. Aged'
  <2> SUFFICES ASSUME past.lost = FALSE PROVE Ages'
    BY <1>1 DEF Aged
  <2>1. Ages /\ nonces.ctr \in Nat
    BY DEF NInv, Counter, Aged, Numbers
  <2>2. \A h \in Now' : h \in past.handed \/ h[1] = nonces.ctr
    BY <1>1 DEF Now
  <2>3. \A h \in past.handed : h \in Now
    BY DEF Now
  <2>4. \A h \in Now' : h[1] \in Nat /\ h[1] <= nonces.ctr
    BY <2>1, <2>2, <2>3 DEF Ages
  <2>5. \A o \in past.old, h \in Now' : o[1] < h[1]
    BY <2>1, <2>2, <2>3 DEF Ages
  <2>6. ~Saving'
    BY <1>2 DEF Saving
  <2>7. QED
    BY <1>1, <2>1, <2>4, <2>5, <2>6 DEF Ages
<1>5. Counter'
  BY <1>3, <1>4 DEF Counter
<1>6. QED
  BY <1>1, <1>2, <1>5, OnTheWay DEF NInv, Shapes

\* The second half of the nonce says nothing about its age.
LEMMA CopyStep == NInv /\ CopyNonce => NInv'
<1> SUFFICES ASSUME NInv, CopyNonce PROVE NInv'
  OBVIOUS
<1>1. /\ {"armed", "next", "on"} \subseteq DOMAIN twi' /\ twi'.armed = twi.armed
      /\ 1 \in DOMAIN twi'.next /\ twi'.next[1] = twi.next[1] /\ twi'.on = TRUE
      /\ UNCHANGED <<nonces, ee, past>>
  BY DEF CopyNonce, NInv, Shapes
<1>2. /\ main.pc = "copy" /\ main'.pc \in {"command", "consume"}
      /\ {"pc", "len"} \subseteq DOMAIN main'
  BY DEF CopyNonce, Goto, At, NInv, Shapes
<1>3. twi'.next[1] = nonces.ctr
  BY <1>1, <1>2 DEF NInv, Counter, Marked
<1>4. Numbers' /\ Marked'
  BY <1>1, <1>2 DEF NInv, Counter, Numbers, Marked, Saving
<1>5. Aged'
  <2> SUFFICES ASSUME past.lost = FALSE PROVE Ages'
    BY <1>1 DEF Aged
  <2>1. Ages /\ nonces.ctr \in Nat
    BY DEF NInv, Counter, Aged, Numbers
  <2>2. \A h \in Now' : h \in past.handed \/ h[1] = nonces.ctr
    BY <1>1, <1>3 DEF Now
  <2>3. \A h \in past.handed : h \in Now
    BY DEF Now
  <2>4. \A h \in Now' : h[1] \in Nat /\ h[1] <= nonces.ctr
    BY <2>1, <2>2, <2>3 DEF Ages
  <2>5. \A o \in past.old, h \in Now' : o[1] < h[1]
    BY <2>1, <2>2, <2>3 DEF Ages
  <2>6. ~Saving'
    BY <1>2 DEF Saving
  <2>7. QED
    BY <1>1, <2>1, <2>4, <2>5, <2>6 DEF Ages
<1>6. Counter'
  BY <1>4, <1>5 DEF Counter
<1>7. main.pc # "verify" /\ main'.pc # "verify"
  BY <1>2
<1>8. QED
  BY <1>1, <1>2, <1>6, <1>7, OnTheWay DEF NInv, Shapes

\* Taking the challenge burns the nonce: what was armed is now with the message.
LEMMA TakeStep == NInv /\ TakeChallenge => NInv'
<1> SUFFICES ASSUME NInv, TakeChallenge PROVE NInv'
  OBVIOUS
<1>1. /\ {"armed", "next", "on"} \subseteq DOMAIN twi' /\ twi'.armed = FALSE
      /\ twi'.next = twi.next /\ twi'.on = twi.on
      /\ {"pc", "len"} \subseteq DOMAIN main' /\ main.pc = "take" /\ main'.pc = "verify"
      /\ twi.armed # TRUE => main'.len = 0
      /\ UNCHANGED <<nonces, ee, past>>
  BY DEF TakeChallenge, Burned, At, NInv, Shapes
<1>2. Shapes' /\ Counter'
  <2>1. ~Busied(main.pc) /\ ~Busied(main'.pc)
    BY <1>1 DEF Busied
  <2>2. Counter'
    BY <1>1, <2>1, CounterSame DEF NInv
  <2>3. QED
    BY <1>1, <2>2 DEF NInv, Shapes
<1>3. Ledger'
  BY <1>1 DEF NInv, Ledger, Armed, Taken
<1>4. QED
  BY <1>2, <1>3 DEF NInv

\* A message is accepted only with a nonce that was armed for it.
LEMMA ServiceStep == NInv /\ (ServiceCommand \/ ServiceConfig) => NInv'
<1> SUFFICES ASSUME NInv, ServiceCommand \/ ServiceConfig PROVE NInv'
  OBVIOUS
<1>1. /\ main.pc = "verify" /\ main'.pc # "verify" /\ {"pc", "len"} \subseteq DOMAIN main'
      /\ UNCHANGED <<twi, nonces, ee>>
      /\ \/ past' = past
         \/ past' = Accepted(past) /\ (CommandVerifies \/ ConfigVerifies)
  BY DEF ServiceCommand, ServiceConfig, Cleared, At, NInv, Shapes
<1>0. ~Busied(main.pc) /\ ~Busied(main'.pc)
  BY DEF ServiceCommand, ServiceConfig, Cleared, At, NInv, Shapes, Busied
<1>2. CASE past' = past
  BY <1>0, <1>1, <1>2, LoopNeutral DEF NInv, Shapes
<1>3. CASE past' = Accepted(past) /\ main.len # 0
  <2>1. /\ {"handed", "old", "reads", "accepts", "lost"} \subseteq DOMAIN past'
        /\ past'.handed = past.handed /\ past'.old = past.old /\ past'.lost = past.lost
        /\ past'.reads = past.reads /\ past'.accepts = past.accepts + 1
    BY <1>3 DEF Accepted, NInv, Shapes
  <2>2. Shapes' /\ Counter'
    BY <1>0, <1>1, <2>1, CounterSame DEF NInv, Shapes
  <2>3. Ledger'
    BY <1>1, <1>3, <2>1 DEF NInv, Ledger, Armed, Taken
  <2>4. QED
    BY <2>2, <2>3 DEF NInv
<1>4. CommandVerifies \/ ConfigVerifies => main.len # 0
  <2>1. CMD_LEN # 0 /\ CFG_LEN # 0
    BY DEF CMD_LEN, CFG_LEN
  <2>2. QED
    BY <2>1, Zenon DEF CommandVerifies, ConfigVerifies
<1>5. QED
  BY <1>1, <1>2, <1>3, <1>4

LEMMA LoopStep == NInv /\ (MainStep \/ MsTick) => NInv'
<1> SUFFICES ASSUME NInv, MainStep \/ MsTick PROVE NInv'
  OBVIOUS
<1>1. CASE Consume \/ CheckCommand \/ CheckConfig
  BY <1>1, LoopNeutral DEF Consume, CheckCommand, CheckConfig, Goto, At, Busied, NInv, Shapes
<1>2. CASE PersistHalf \/ PersistRest
  BY <1>2, LoopNeutral DEF PersistHalf, PersistRest, Goto, At, Busied, NInv, Shapes
<1>3. CASE LoopTick \/ LoopSleep \/ MsTick
  BY <1>3, LoopNeutral DEF LoopTick, LoopSleep, MsTick, Goto, At, Busied, NInv, Shapes
<1>4. QED
  BY <1>1, <1>2, <1>3, RegenerateStep, SaveStep, DrawStep, CopyStep, TakeStep, ServiceStep
  DEF MainStep

\* A reset counts on from the mark, and a mark that was not lost is above every
\* nonce, or level with the counter that no nonce has reached yet.
LEMMA ResetStep == NInv /\ Reset => NInv'
<1> SUFFICES ASSUME NInv, Reset PROVE NInv'
  OBVIOUS
<1>1. /\ nonces' = Reserved(ee.mark) /\ twi' = Twi /\ main' = Main /\ ee' = ee
      /\ {"handed", "old", "reads", "accepts", "lost"} \subseteq DOMAIN past'
      /\ past'.handed = {} /\ past'.old = past.old \cup past.handed
      /\ past'.reads = past.reads /\ past'.accepts = past.accepts
      /\ past'.lost = (past.lost \/ MarkLost)
  BY DEF Reset, NInv, Shapes
<1>2. /\ {"armed", "next", "on"} \subseteq DOMAIN twi' /\ 1 \in DOMAIN twi'.next
      /\ twi'.on = FALSE /\ twi'.armed = FALSE
      /\ {"pc", "len"} \subseteq DOMAIN main' /\ main'.pc = "save"
  BY <1>1, BornWith
<1>3. /\ nonces' \in [ctr : Nat, mark : Nat] /\ nonces'.ctr = ee.mark
      /\ nonces'.ctr < nonces'.mark
  BY <1>1, ReservedFrom DEF NInv, Counter, Numbers
<1>4. Shapes'
  BY <1>1, <1>2 DEF NInv, Shapes
<1>5. Numbers' /\ Marked'
  BY <1>1, <1>2, <1>3 DEF NInv, Counter, Numbers, Marked, Saving
<1>6. Aged'
  <2> SUFFICES ASSUME past'.lost = FALSE PROVE Ages'
    BY DEF Aged
  <2>1. past.lost = FALSE /\ ~MarkLost
    BY <1>1 DEF NInv, Shapes
  <2>2. Ages /\ nonces.ctr \in Nat /\ nonces.mark \in Nat /\ nonces.ctr < nonces.mark
        /\ ee.mark \in Nat
    BY <2>1 DEF NInv, Counter, Aged, Numbers
  <2>3. IF Saving THEN ee.mark >= nonces.ctr ELSE ee.mark > nonces.ctr
    BY <2>1, <2>2 DEF NInv, Counter, Marked, Saving, MarkLost, At
  <2>4. \A o \in past.old : o[1] \in Nat /\ o[1] < ee.mark
    BY <2>2, <2>3 DEF Ages
  <2>5. \A h \in past.handed : h[1] \in Nat /\ h[1] < ee.mark
    <3>1. \A h \in past.handed : h \in Now
      BY DEF Now
    <3>2. QED
      BY <2>2, <2>3, <3>1 DEF Ages
  <2>6. Now' = {}
    BY <1>1, <1>2 DEF Now
  <2>7. QED
    BY <1>1, <1>3, <2>4, <2>5, <2>6 DEF Ages
<1>7. Counter'
  BY <1>5, <1>6 DEF Counter
<1>8. Ledger'
  BY <1>1, <1>2 DEF NInv, Ledger, Armed, Taken
<1>9. QED
  BY <1>4, <1>7, <1>8 DEF NInv

LEMMA NNextInv == NInv /\ [BNext]_bvars => NInv'
<1> SUFFICES ASSUME NInv, [BNext]_bvars PROVE NInv'
  OBVIOUS
<1>1. CASE TimerElapses \/ UNCHANGED bvars
  <2>1. UNCHANGED <<twi, main, nonces, ee, past>>
    BY <1>1 DEF TimerElapses, bvars
  <2>2. QED
    BY <2>1 DEF NInv, Shapes, Counter, Numbers, Marked, Saving, Aged, Ages, Now, Ledger, Armed,
                Taken
<1>2. QED
  BY <1>1, BusStep, LoopStep, ResetStep DEF BNext

-------------------------------------------------------------------------------
\* The board never hands out a nonce of an earlier life, unless a reset cut the write
\* of a mark and left it lower than it was: the mark is written before the nonce it
\* covers, in whatever order its bytes go (nonce_init and nonce_next, nonce.c:18-50).
THEOREM NoncesAreFresh == BSpec => []NoncesNeverRepeat
<1>1. NInv => NoncesNeverRepeat
  <2> SUFFICES ASSUME NInv, past.lost = FALSE, NEW h \in past.handed, h \in past.old PROVE FALSE
    BY DEF NoncesNeverRepeat, NInv, Shapes
  <2>1. h \in Now
    BY DEF Now
  <2>2. h[1] \in Nat /\ h[1] < h[1]
    BY <2>1 DEF NInv, Counter, Aged, Ages
  <2>3. QED
    BY <2>2
<1>2. QED
  BY <1>1, NInitInv, NNextInv, PTL DEF BSpec

LEMMA TimesGrows ==
  ASSUME NEW k \in Nat, NEW a \in Nat, NEW b \in Nat, a <= b
  PROVE  k * a <= k * b
<1> DEFINE d == b - a
<1>1. d \in Nat /\ b = a + d
  OBVIOUS
<1> HIDE DEF d
<1>2. k * b = k * a + k * d
  BY <1>1
<1>3. k * d \in Nat /\ k * a \in Nat
  BY <1>1
<1>4. QED
  BY <1>2, <1>3

\* With its high bytes new and its low ones old, a mark that grows is no lower.
LEMMA HighFirst ==
  ASSUME NEW from \in Nat, NEW to \in Nat, from <= to, NEW k \in Boundaries
  PROVE  Partly(to, from, k) >= from
<1> DEFINE p == from \div k
<1> DEFINE q == to \div k
<1> DEFINE r == from % k
<1> DEFINE s == to % k
<1>1. k \in Nat /\ k > 0
  BY BoardAssumption
<1>2. /\ p \in Nat /\ q \in Nat /\ r \in Nat /\ s \in Nat /\ s < k
      /\ from = k * p + r /\ to = k * q + s
  BY <1>1
<1>3. Partly(to, from, k) = q * k + r
  BY DEF Partly
<1> HIDE DEF p, q, r, s
<1>4. p <= q
  <2> SUFFICES ASSUME q + 1 <= p PROVE FALSE
    BY <1>2
  <2>1. k * (q + 1) <= k * p
    <3>1. q + 1 \in Nat
      BY <1>2
    <3>2. QED
      BY <1>1, <1>2, <3>1, TimesGrows
  <2>2. k * (q + 1) = k * q + k
    BY <1>1, <1>2
  <2>3. k * p \in Nat /\ k * q \in Nat
    BY <1>1, <1>2
  <2>4. QED
    BY <1>1, <1>2, <2>1, <2>2, <2>3
<1>5. k * p <= k * q
  BY <1>1, <1>2, <1>4, TimesGrows
<1>6. q * k = k * q /\ k * p \in Nat /\ k * q \in Nat
  BY <1>1, <1>2
<1>7. QED
  BY <1>2, <1>3, <1>5, <1>6

\* The exception of NoncesNeverRepeat needs a write that begins with the low bytes:
\* one that begins with the high ones can be cut anywhere and loses no mark
\* (eeprom_update_dword, nonce.c:26,33).
THEOREM TopDownKeepsTheMark ==
  BSpec => [][\A k \in Boundaries :
                At("save") /\ ee'.mark = Partly(nonces.mark, ee.mark, k) => ~MarkLost']_bvars
<1> DEFINE Kept == \A k \in Boundaries :
                     At("save") /\ ee'.mark = Partly(nonces.mark, ee.mark, k) => ~MarkLost'
<1>1. NInv /\ [BNext]_bvars => [Kept]_bvars
  <2> SUFFICES ASSUME NInv, BNext, NEW k \in Boundaries, At("save"),
                      ee'.mark = Partly(nonces.mark, ee.mark, k), MarkLost'
               PROVE  FALSE
    OBVIOUS
  <2>1. main.pc = "save" /\ main'.pc = "save_rest" /\ ee'.mark < nonces'.ctr
    BY DEF At, MarkLost
  <2>2. UNCHANGED nonces
    <3>1. CASE MainStep
      BY <2>1, <3>1 DEF MainStep, Consume, Regenerate, SaveHalf, SaveRest, DrawNonce, CopyNonce,
                        CheckCommand, CheckConfig, TakeChallenge, ServiceCommand, ServiceConfig,
                        PersistHalf, PersistRest, LoopTick, LoopSleep, At
    <3>2. CASE MsTick \/ TimerElapses \/ BusEvent
      BY <3>2 DEF MsTick, TimerElapses, BusEvent, ReadNonce, BareRead, StartWrite, ReceiveChunk,
                  Stop, BusError
    <3>3. CASE Reset
      BY <2>1, <3>3 DEF Reset, Main
    <3>4. QED
      BY <3>1, <3>2, <3>3 DEF BNext
  <2>3. /\ nonces.ctr \in Nat /\ nonces.mark \in Nat /\ ee.mark \in Nat
        /\ nonces.ctr < nonces.mark /\ ee.mark = nonces.ctr
    BY <2>1 DEF NInv, Counter, Numbers, Marked
  <2>4. CASE ee.mark <= nonces.mark
    <3>1. ee'.mark >= ee.mark
      BY <2>3, <2>4, HighFirst
    <3>2. ee'.mark \in Nat
      BY <2>3, PartlyNat
    <3>3. QED
      BY <2>1, <2>2, <2>3, <3>1, <3>2
  <2>5. QED
    BY <2>3, <2>4
<1>2. QED
  BY <1>1, NInitInv, NNextInv, PTL DEF BSpec, Kept

\* Each message the board accepts cost its master a read of NONCE of its own
\* (take_challenge, main.c:73-86).
THEOREM ReadsPayForMessages == BSpec => []ReadPerAcceptance
<1>1. NInv => ReadPerAcceptance
  BY DEF NInv, Ledger, Armed, Taken, ReadPerAcceptance
<1>2. QED
  BY <1>1, NInitInv, NNextInv, PTL DEF BSpec

-------------------------------------------------------------------------------
(***************************************************************************)
(* The actuator: what holds of the engine and of the pins it drives in     *)
(* every sub-phase of a cycle.                                             *)
(***************************************************************************)
Dev ==
  [active : BOOLEAN, seq : Directions, idx : 1 .. SEQ_STEPS,
   sub : {"PREDRAIN", "RAMP", "STRIKE", "RUN", "DRAIN"}, due : BOOLEAN,
   timer : BOOLEAN, rail : Charges, pwm : BOOLEAN, hot : BOOLEAN,
   armed : BOOLEAN, arm_cnt : Nat, eoff_cnt : Nat,
   servo : BOOLEAN, pulses : BOOLEAN, coil : {"off", "dc", "pwm"},
   boost : {"off", "6v", "12v"}, hall : BOOLEAN,
   status : SUBSET {"busy", "servo", "sol", "rail12", "ok"}, vsol : Charges]

\* STATUS says what the pins do.
Lit(d) ==
  /\ "busy" \in d.status <=> d.active = TRUE
  /\ "servo" \in d.status <=> d.servo = TRUE
  /\ "sol" \in d.status <=> d.coil # "off"
  /\ "rail12" \in d.status <=> d.boost = "12v"
  /\ d.active = TRUE => d.hall = TRUE

\* An idle board drives nothing.
Quiet(d) ==
  /\ d.servo = FALSE /\ d.pulses = FALSE /\ d.hall = FALSE
  /\ d.coil = "off" /\ d.boost = "off"

\* The rail holds the charge of a strike, on a board that no reset can surprise.
Charged(d) == ResetBleeds = TRUE /\ d.vsol = "12v"

\* What holds of a cycle in each of its sub-phases.
InPredrain(d) == d.servo = FALSE /\ d.coil = "off" /\ (d.due = TRUE => ~Charged(d))
InRamp(d) == d.coil = "off" /\ d.armed = FALSE /\ d.eoff_cnt = 0
InStrike(d) == d.pwm = TRUE /\ d.coil = "dc" /\ d.armed = FALSE /\ d.eoff_cnt = 0
InRun(d) == d.coil = "pwm" <=> d.pwm = TRUE
InDrain(d) ==
  /\ d.servo = FALSE /\ d.coil # "pwm"
  /\ Charged(d) => d.due = FALSE /\ d.coil = "dc"

\* A step drives its own supply and coil, from the rail it asked for.
Driven(d) ==
  /\ d.pwm = TRUE <=> d.rail = "12v"
  /\ d.rail = "12v" => HasSol(StepOf(d)) /\ ~HasServo(StepOf(d))
  /\ d.rail = "vbat" => ~HasSol(StepOf(d))
  /\ d.coil # "off" => HasSol(StepOf(d))
  /\ d.servo = TRUE => HasServo(StepOf(d)) /\ d.pulses = TRUE
  /\ d.sub # "DRAIN" /\ Charged(d) => d.rail = "12v"

Cycling(d) ==
  /\ d.sub = "PREDRAIN" => InPredrain(d)
  /\ d.sub # "PREDRAIN" => Driven(d)
  /\ d.sub = "RAMP" => InRamp(d)
  /\ d.sub = "STRIKE" => InStrike(d)
  /\ d.sub = "RUN" => InRun(d)
  /\ d.sub = "DRAIN" => InDrain(d)

Sound(d) ==
  /\ d \in Dev /\ Lit(d)
  /\ Charged(d) => d.hot = TRUE
  /\ d.active = FALSE => Quiet(d)
  /\ d.active = TRUE => Cycling(d)

\* What the sampler counted, it saw within the step.
Sampled ==
  dev.active = TRUE /\ dev.sub = "RUN" =>
    /\ dev.armed = TRUE => FALSE \in seen
    /\ dev.eoff_cnt > 0 => TRUE \in seen

AInv ==
  /\ cfg \in [hdr : Names, seqs : Names] /\ seen \subseteq BOOLEAN
  /\ Sound(dev) /\ Sampled

-------------------------------------------------------------------------------
(***************************************************************************)
(* Drivers: what each leaves the pins at.                                  *)
(***************************************************************************)
LEMMA BlobSteps ==
  ASSUME NEW n \in Names, NEW s \in Directions, NEW i \in 1 .. SEQ_STEPS
  PROVE  Blob[n][s][i] \in Steps
<1>1. Blob[n][s] \in [1 .. SEQ_STEPS -> Steps]
  BY BlobAssumption
<1> HIDE DEF Steps
<1>2. QED
  BY <1>1

\* What no driver touches.
Engine(d, e) ==
  /\ e \in Dev
  /\ e.active = d.active /\ e.seq = d.seq /\ e.idx = d.idx /\ e.sub = d.sub /\ e.due = d.due
  /\ e.rail = d.rail /\ e.pwm = d.pwm /\ e.hall = d.hall
  /\ e.armed = d.armed /\ e.eoff_cnt = d.eoff_cnt

SameServo(d, e) == e.servo = d.servo /\ e.pulses = d.pulses
SameRail(d, e) == e.boost = d.boost /\ e.hot = d.hot /\ e.vsol = d.vsol

LEMMA ServoDoes ==
  ASSUME NEW d \in Dev
  PROVE  /\ Engine(d, ServoOn(d)) /\ ServoOn(d).servo = TRUE /\ ServoOn(d).pulses = d.pulses
         /\ ServoOn(d).status = d.status \cup {"servo"}
         /\ ServoOn(d).coil = d.coil /\ SameRail(d, ServoOn(d))
         /\ Engine(d, ServoOff(d)) /\ ServoOff(d).servo = FALSE /\ ServoOff(d).pulses = FALSE
         /\ ServoOff(d).status = d.status \ {"servo"}
         /\ ServoOff(d).coil = d.coil /\ SameRail(d, ServoOff(d))
BY DEF Dev, ServoOn, ServoOff, Engine, SameRail

LEMMA SolOnDoes ==
  ASSUME NEW d \in Dev
  PROVE  /\ Engine(d, SolOn(d)) /\ SameServo(d, SolOn(d)) /\ SameRail(d, SolOn(d))
         /\ SolOn(d).coil = "dc" /\ SolOn(d).status = d.status \cup {"sol"}
BY DEF Dev, SolOn, Engine, SameServo, SameRail

LEMMA SolHoldDoes ==
  ASSUME NEW d \in Dev
  PROVE  /\ Engine(d, SolHoldStart(d)) /\ SameServo(d, SolHoldStart(d))
         /\ SameRail(d, SolHoldStart(d))
         /\ SolHoldStart(d).coil = "pwm" /\ SolHoldStart(d).status = d.status
         /\ Engine(d, SolHoldStop(d)) /\ SameServo(d, SolHoldStop(d))
         /\ SameRail(d, SolHoldStop(d))
         /\ SolHoldStop(d).coil = "dc" /\ SolHoldStop(d).status = d.status
BY DEF Dev, SolHoldStart, SolHoldStop, Engine, SameServo, SameRail

\* The port reaches a coil that is not held.
LEMMA SolOffDoes ==
  ASSUME NEW d \in Dev, d.coil # "pwm"
  PROVE  /\ Engine(d, SolOff(d)) /\ SameServo(d, SolOff(d)) /\ SameRail(d, SolOff(d))
         /\ SolOff(d).coil = "off" /\ SolOff(d).status = d.status
<1>1. SolOff(d) = [d EXCEPT !.coil = "off"]
  BY DEF SolOff, Dev
<1>2. QED
  BY <1>1 DEF Dev, Engine, SameServo, SameRail

LEMMA BoostDoes ==
  ASSUME NEW d \in Dev
  PROVE  /\ Engine(d, Boost12(d)) /\ SameServo(d, Boost12(d)) /\ Boost12(d).coil = d.coil
         /\ Boost12(d).boost = "12v" /\ Boost12(d).hot = TRUE /\ Boost12(d).vsol = "12v"
         /\ Boost12(d).status = d.status \cup {"rail12"}
BY DEF Dev, Charges, Boost12, Engine, SameServo

LEMMA BoostSixDoes ==
  ASSUME NEW d \in Dev
  PROVE  /\ Engine(d, Boost6(d)) /\ SameServo(d, Boost6(d)) /\ Boost6(d).coil = d.coil
         /\ Boost6(d).boost = "6v" /\ Boost6(d).hot = TRUE
         /\ d.vsol # "12v" => Boost6(d).vsol # "12v"
         /\ Boost6(d).status = d.status \ {"rail12"}
<1> DEFINE v == IF d.vsol = "12v" THEN d.vsol ELSE "6v"
<1> DEFINE r == d.status \ {"rail12"}
<1> DEFINE e == Boost6(d)
<1>1. v \in Charges /\ (d.vsol # "12v" => v # "12v")
  BY DEF Charges
<1>2. e = [d EXCEPT !.boost = "6v", !.vsol = v, !.hot = TRUE, !.status = r]
  BY DEF Boost6, Dev
<1>3. r \in SUBSET {"busy", "servo", "sol", "rail12", "ok"}
  BY DEF Dev
<1> HIDE DEF v, r, e
<1>4. e \in Dev
  BY <1>1, <1>2, <1>3 DEF Dev
<1>5. /\ Engine(d, e) /\ SameServo(d, e) /\ e.coil = d.coil
      /\ e.boost = "6v" /\ e.hot = TRUE /\ e.vsol = v /\ e.status = r
  BY <1>2, <1>4 DEF Dev, Engine, SameServo
<1>6. QED
  BY <1>1, <1>5 DEF e, r

LEMMA BoostOffDoes ==
  ASSUME NEW d \in Dev
  PROVE  /\ Engine(d, BoostOff(d)) /\ SameServo(d, BoostOff(d)) /\ BoostOff(d).coil = d.coil
         /\ BoostOff(d).boost = "off" /\ BoostOff(d).hot = d.hot /\ BoostOff(d).vsol = d.vsol
         /\ BoostOff(d).status = d.status \ {"rail12"}
BY DEF Dev, BoostOff, Engine, SameServo

LEMMA AllOffDoes ==
  ASSUME NEW d \in Dev
  PROVE  /\ Engine(d, AllOff(d))
         /\ AllOff(d).servo = FALSE /\ AllOff(d).pulses = FALSE
         /\ AllOff(d).coil = "off" /\ AllOff(d).boost = "off"
         /\ AllOff(d).status = d.status \ {"servo", "sol", "rail12"}
         /\ AllOff(d).hot = d.hot /\ AllOff(d).vsol = d.vsol
<1> DEFINE a == ServoOff(d)
<1> DEFINE b == SolHoldStop(a)
<1> DEFINE c == SolOff(b)
<1> DEFINE f == BoostOff(c)
<1>1. /\ Engine(d, a) /\ SameRail(d, a) /\ a.status = d.status \ {"servo"}
      /\ a.servo = FALSE /\ a.pulses = FALSE
  BY ServoDoes
<1>2. /\ Engine(a, b) /\ SameServo(a, b) /\ SameRail(a, b)
      /\ b.coil = "dc" /\ b.status = a.status
  BY <1>1, SolHoldDoes DEF Engine
<1>3. /\ Engine(b, c) /\ SameServo(b, c) /\ SameRail(b, c)
      /\ c.coil = "off" /\ c.status = b.status
  BY <1>2, SolOffDoes DEF Engine
<1>4. /\ Engine(c, f) /\ SameServo(c, f) /\ f.coil = c.coil
      /\ f.boost = "off" /\ f.hot = c.hot /\ f.vsol = c.vsol
      /\ f.status = c.status \ {"rail12"}
  BY <1>3, BoostOffDoes DEF Engine
<1>5. AllOff(d) = [f EXCEPT !.status = @ \ {"sol"}]
  BY DEF AllOff
<1> HIDE DEF a, b, c, f
<1>6. Engine(f, AllOff(d)) /\ SameServo(f, AllOff(d)) /\ SameRail(f, AllOff(d))
      /\ AllOff(d).coil = f.coil /\ AllOff(d).status = f.status \ {"sol"}
  BY <1>4, <1>5 DEF Engine, SameServo, SameRail, Dev
<1>7. Engine(d, AllOff(d))
  BY <1>1, <1>2, <1>3, <1>4, <1>6 DEF Engine
<1>8. QED
  BY <1>1, <1>2, <1>3, <1>4, <1>6, <1>7 DEF SameServo, SameRail

LEMMA FinishDoes ==
  ASSUME NEW d \in Dev, Lit(d), Charged(d) => d.hot = TRUE
  PROVE  Sound(Finish(d)) /\ Finish(d).active = FALSE
<1> DEFINE e == AllOff(d)
<1>1. /\ e \in Dev
      /\ e.servo = FALSE /\ e.pulses = FALSE /\ e.coil = "off" /\ e.boost = "off"
      /\ e.status = d.status \ {"servo", "sol", "rail12"}
      /\ e.hot = d.hot /\ e.vsol = d.vsol
  BY AllOffDoes DEF Engine
<1> DEFINE r == e.status \ {"busy"}
<1> DEFINE f == Finish(d)
<1>2. f = [e EXCEPT !.hall = FALSE, !.active = FALSE, !.timer = FALSE, !.status = r]
  BY DEF Finish
<1>3. r \in SUBSET {"busy", "servo", "sol", "rail12", "ok"}
  BY <1>1 DEF Dev
<1>4. r = d.status \ {"servo", "sol", "rail12", "busy"}
  BY <1>1
<1> HIDE DEF e, r, f
<1>5. f \in Dev
  BY <1>1, <1>2, <1>3 DEF Dev
<1>6. /\ f.active = FALSE /\ f.hall = FALSE /\ f.servo = FALSE /\ f.pulses = FALSE
      /\ f.coil = "off" /\ f.boost = "off" /\ f.status = r
      /\ f.hot = d.hot /\ f.vsol = d.vsol
  BY <1>1, <1>2 DEF Dev
<1>7. Lit(f) /\ Quiet(f)
  BY <1>4, <1>6 DEF Lit, Quiet
<1>8. QED
  BY <1>5, <1>6, <1>7 DEF Charged, Sound, f

-------------------------------------------------------------------------------
(***************************************************************************)
(* Entering a step.                                                        *)
(***************************************************************************)
LEMMA RailFacts ==
  ASSUME NEW st
  PROVE  /\ RailOf(st) \in Charges
         /\ RailOf(st) = "12v" <=> HasSol(st) /\ ~HasServo(st)
         /\ RailOf(st) = "vbat" => ~HasSol(st)
BY DEF RailOf, Charges

Configured == cfg \in [hdr : Names, seqs : Names]

LEMMA StepsAreSteps ==
  ASSUME Configured, NEW s \in Directions, NEW i \in 1 .. SEQ_STEPS
  PROVE  Live(s)[i] \in Steps
BY BlobSteps DEF Configured, Live

SubPhases == {"PREDRAIN", "RAMP", "STRIKE", "RUN", "DRAIN"}

\* A new sub-phase, and nothing else.
Phased(d, e, sub) ==
  /\ e \in Dev /\ e.sub = sub
  /\ e.active = d.active /\ e.seq = d.seq /\ e.idx = d.idx
  /\ e.rail = d.rail /\ e.pwm = d.pwm /\ e.hall = d.hall
  /\ e.armed = d.armed /\ e.eoff_cnt = d.eoff_cnt
  /\ SameServo(d, e) /\ SameRail(d, e) /\ e.coil = d.coil /\ e.status = d.status

LEMMA SubEnterDoes ==
  ASSUME NEW d \in Dev, NEW timed \in BOOLEAN, NEW sub \in SubPhases
  PROVE  /\ Phased(d, SubEnter(d, sub, timed), sub)
         /\ SubEnter(d, sub, timed).due = ~timed
<1> DEFINE u == ~timed
<1> DEFINE e == SubEnter(d, sub, timed)
<1>1. u \in BOOLEAN
  OBVIOUS
<1>2. e = [d EXCEPT !.sub = sub, !.due = u]
  BY DEF SubEnter
<1> HIDE DEF u, e
<1>3. Phased(d, e, sub) /\ e.due = u
  BY <1>1, <1>2 DEF Phased, Dev, SubPhases, SameServo, SameRail
<1>4. QED
  BY <1>3 DEF e, u

\* A board between two steps: nothing is powered, and the rail is not at 12 V.
Ready(d) ==
  /\ d \in Dev /\ Lit(d) /\ d.active = TRUE
  /\ d.servo = FALSE /\ d.coil = "off" /\ ~Charged(d)

Begun(d, i) ==
  LET st == Live(d.seq)[i]
  IN  [FreshSampler(d) EXCEPT !.idx = i, !.rail = RailOf(st), !.pwm = RailOf(st) = "12v",
                              !.pulses = @ \/ HasServo(st)]

LEMMA BegunDoes ==
  ASSUME NEW d, Ready(d), NEW i \in 1 .. SEQ_STEPS
  PROVE  LET e == Begun(d, i)
             st == Live(d.seq)[i]
         IN  /\ Ready(e) /\ e.seq = d.seq /\ e.idx = i
             /\ e.rail = RailOf(st) /\ (e.pwm = TRUE <=> e.rail = "12v")
             /\ HasServo(st) => e.pulses = TRUE
             /\ e.armed = FALSE /\ e.eoff_cnt = 0
<1> DEFINE st == Live(d.seq)[i]
<1> DEFINE a == FreshSampler(d)
<1> DEFINE w == RailOf(st) = "12v"
<1> DEFINE p == d.pulses \/ HasServo(st)
<1> DEFINE r == RailOf(st)
<1> DEFINE e == Begun(d, i)
<1>1. /\ a \in Dev /\ a.armed = FALSE /\ a.eoff_cnt = 0
      /\ a.active = d.active /\ a.seq = d.seq /\ a.hall = d.hall
      /\ SameServo(d, a) /\ SameRail(d, a) /\ a.coil = d.coil /\ a.status = d.status
  BY DEF FreshSampler, Ready, Dev, SameServo, SameRail
<1>2. w \in BOOLEAN /\ p \in BOOLEAN /\ r \in Charges
  BY RailFacts
<1>3. (w = TRUE <=> r = "12v") /\ (HasServo(st) => p = TRUE)
  OBVIOUS
<1>4. e = [a EXCEPT !.idx = i, !.rail = r, !.pwm = w, !.pulses = p]
  BY <1>1 DEF Begun, SameServo, Dev
<1> HIDE DEF st, a, w, p, r, e
<1>5. /\ e \in Dev /\ e.idx = i /\ e.rail = r /\ e.pwm = w /\ e.pulses = p
      /\ e.armed = FALSE /\ e.eoff_cnt = 0
      /\ e.active = d.active /\ e.seq = d.seq /\ e.hall = d.hall /\ e.servo = d.servo
      /\ e.coil = d.coil /\ e.boost = d.boost /\ e.vsol = d.vsol /\ e.status = d.status
  BY <1>1, <1>2, <1>4 DEF Dev, SameServo, SameRail
<1>6. Ready(e)
  BY <1>5 DEF Charged, Ready, Lit
<1>7. QED
  BY <1>3, <1>5, <1>6 DEF st, r, e

\* What every step begins with.
Entered(d, e, i) ==
  /\ Sound(e) /\ e.active = TRUE /\ e.seq = d.seq /\ e.idx = i
  /\ e.sub \in {"RAMP", "RUN"} /\ e.armed = FALSE /\ e.eoff_cnt = 0

LEMMA EnterDoes ==
  ASSUME Configured, NEW d, Ready(d), NEW i \in 1 .. SEQ_STEPS
  PROVE  Entered(d, StepEnter(d, i), i)
<1> DEFINE st == Live(d.seq)[i]
<1> DEFINE e == Begun(d, i)
<1> DEFINE x == StepEnter(d, i)
<1> DEFINE powered(f) == IF HasServo(st) THEN ServoOn(f) ELSE f
<1>1. /\ Ready(e) /\ e.seq = d.seq /\ e.idx = i
      /\ e.rail = RailOf(st) /\ (e.pwm = TRUE <=> e.rail = "12v")
      /\ HasServo(st) => e.pulses = TRUE
      /\ e.armed = FALSE /\ e.eoff_cnt = 0
  BY BegunDoes
<1>2. st \in Steps
  BY StepsAreSteps DEF Ready, Dev
<1>3. st = StepOf(e)
  BY <1>1 DEF StepOf
<1>4. \A f : f.seq = e.seq /\ f.idx = e.idx => StepOf(f) = st
  BY <1>3 DEF StepOf
<1>5. /\ RailOf(st) \in Charges
      /\ RailOf(st) = "12v" <=> HasSol(st) /\ ~HasServo(st)
      /\ RailOf(st) = "vbat" => ~HasSol(st)
  BY RailFacts
<1>6. /\ RailOf(st) = "12v" => x = SubEnter(Boost12(ServoOff(e)), "RAMP", TRUE)
      /\ RailOf(st) = "6v" => x = SubEnter(powered(Boost6(e)), "RAMP", TRUE)
      /\ RailOf(st) = "vbat" => x = SubEnter(powered(BoostOff(e)), "RUN", st.timed)
  BY DEF StepEnter, Begun
<1>7. \A f \in Dev :
        LET g == powered(f)
        IN  /\ Engine(f, g) /\ SameRail(f, g) /\ g.coil = f.coil /\ g.pulses = f.pulses
            /\ HasServo(st) => g.servo = TRUE /\ g.status = f.status \cup {"servo"}
            /\ ~HasServo(st) => g.servo = f.servo /\ g.status = f.status
  BY ServoDoes DEF Engine, SameRail
<1> HIDE DEF st, e, x, powered
<1>8. CASE RailOf(st) = "12v"
  <2> DEFINE a == ServoOff(e)
  <2> DEFINE b == Boost12(a)
  <2>1. /\ Engine(e, a) /\ a.servo = FALSE /\ a.pulses = FALSE
        /\ a.status = e.status \ {"servo"} /\ a.coil = e.coil /\ SameRail(e, a)
    BY <1>1, ServoDoes DEF Ready
  <2>9. x = SubEnter(b, "RAMP", TRUE)
    BY <1>6, <1>8
  <2>2. /\ Engine(a, b) /\ SameServo(a, b) /\ b.coil = a.coil
        /\ b.boost = "12v" /\ b.hot = TRUE
        /\ b.status = a.status \cup {"rail12"}
    BY <2>1, BoostDoes DEF Engine
  <2> HIDE DEF a, b
  <2>3. Phased(b, x, "RAMP")
    <3>1. b \in Dev /\ "RAMP" \in SubPhases /\ TRUE \in BOOLEAN
      BY <2>2 DEF Engine, SubPhases
    <3>2. QED
      BY <2>9, <3>1, SubEnterDoes, Zenon
  <2>4. /\ x.active = TRUE /\ x.seq = e.seq /\ x.idx = i
        /\ x.rail = "12v" /\ x.pwm = TRUE /\ x.hall = e.hall
        /\ x.armed = FALSE /\ x.eoff_cnt = 0
        /\ x.servo = FALSE /\ x.pulses = FALSE /\ x.coil = "off" /\ x.boost = "12v"
        /\ x.hot = TRUE
        /\ x.status = (e.status \ {"servo"}) \cup {"rail12"}
    BY <1>1, <1>8, <2>1, <2>2, <2>3 DEF Engine, Phased, SameServo, SameRail, Ready
  <2>5. StepOf(x) = st
    BY <1>1, <1>4, <2>4
  <2>6. Lit(x)
    BY <1>1, <2>4 DEF Lit, Ready
  <2>7. Cycling(x)
    BY <1>5, <1>8, <2>3, <2>4, <2>5 DEF Phased, Cycling, Driven, InRamp
  <2>8. QED
    BY <1>1, <2>3, <2>4, <2>6, <2>7 DEF Phased, Entered, Sound, x
<1>9. CASE RailOf(st) = "6v"
  <2> DEFINE a == Boost6(e)
  <2> DEFINE b == powered(a)
  <2>1. /\ Engine(e, a) /\ SameServo(e, a) /\ a.coil = e.coil
        /\ a.boost = "6v" /\ a.hot = TRUE /\ ~Charged(a)
        /\ a.status = e.status \ {"rail12"}
    BY <1>1, BoostSixDoes DEF Charged, Ready
  <2>9. x = SubEnter(b, "RAMP", TRUE)
    BY <1>6, <1>9
  <2> HIDE DEF a
  <2>2. /\ Engine(a, b) /\ SameRail(a, b) /\ b.coil = a.coil /\ b.pulses = a.pulses
        /\ HasServo(st) => b.servo = TRUE /\ b.status = a.status \cup {"servo"}
        /\ ~HasServo(st) => b.servo = a.servo /\ b.status = a.status
    BY <1>7, <2>1 DEF Engine
  <2> HIDE DEF b
  <2>3. Phased(b, x, "RAMP")
    <3>1. b \in Dev /\ "RAMP" \in SubPhases /\ TRUE \in BOOLEAN
      BY <2>2 DEF Engine, SubPhases
    <3>2. QED
      BY <2>9, <3>1, SubEnterDoes, Zenon
  <2>10. /\ x.active = TRUE /\ x.seq = e.seq /\ x.idx = i
         /\ x.rail = "6v" /\ x.pwm = e.pwm /\ x.hall = e.hall
         /\ x.armed = FALSE /\ x.eoff_cnt = 0
         /\ x.coil = "off" /\ x.boost = "6v" /\ x.hot = TRUE /\ ~Charged(x)
    BY <1>1, <1>9, <2>1, <2>2, <2>3 DEF Charged, Engine, Phased, SameRail, Ready
  <2>11. HasServo(st) => /\ x.servo = TRUE /\ x.pulses = TRUE
                         /\ x.status = (e.status \ {"rail12"}) \cup {"servo"}
    BY <1>1, <2>1, <2>2, <2>3 DEF Phased, SameServo
  <2>12. ~HasServo(st) => x.servo = FALSE /\ x.status = e.status \ {"rail12"}
    BY <1>1, <2>1, <2>2, <2>3 DEF Phased, SameServo, Ready
  <2>4. /\ x.active = TRUE /\ x.seq = e.seq /\ x.idx = i
        /\ x.rail = "6v" /\ x.pwm = e.pwm /\ x.hall = e.hall
        /\ x.armed = FALSE /\ x.eoff_cnt = 0
        /\ HasServo(st) => x.servo = TRUE /\ x.pulses = TRUE
        /\ HasServo(st) => x.status = (e.status \ {"rail12"}) \cup {"servo"}
        /\ ~HasServo(st) => x.servo = FALSE /\ x.status = e.status \ {"rail12"}
        /\ x.coil = "off" /\ x.boost = "6v" /\ x.hot = TRUE /\ ~Charged(x)
    BY <2>10, <2>11, <2>12, Zenon
  <2>5. StepOf(x) = st
    BY <1>1, <1>4, <2>4
  <2>6. Lit(x)
    BY <1>1, <2>4 DEF Lit, Ready
  <2>7. Cycling(x)
    <3>1. x.pwm # TRUE
      BY <1>1, <1>9, <2>4
    <3>2. Driven(x)
      BY <1>5, <1>9, <2>3, <2>4, <2>5, <3>1 DEF Phased, Driven
    <3>3. QED
      BY <2>3, <2>4, <3>1, <3>2 DEF Phased, Cycling, InRamp
  <2>8. QED
    BY <1>1, <2>3, <2>4, <2>6, <2>7 DEF Phased, Entered, Sound, x
<1>10. CASE RailOf(st) = "vbat"
  <2> DEFINE a == BoostOff(e)
  <2> DEFINE b == powered(a)
  <2>1. /\ Engine(e, a) /\ SameServo(e, a) /\ a.coil = e.coil
        /\ a.boost = "off" /\ a.hot = e.hot /\ a.vsol = e.vsol
        /\ a.status = e.status \ {"rail12"}
    BY <1>1, BoostOffDoes DEF Ready
  <2>9. x = SubEnter(b, "RUN", st.timed)
    BY <1>6, <1>10
  <2> HIDE DEF a
  <2>2. /\ Engine(a, b) /\ SameRail(a, b) /\ b.coil = a.coil /\ b.pulses = a.pulses
        /\ HasServo(st) => b.servo = TRUE /\ b.status = a.status \cup {"servo"}
        /\ ~HasServo(st) => b.servo = a.servo /\ b.status = a.status
    BY <1>7, <2>1 DEF Engine
  <2> HIDE DEF b
  <2>3. Phased(b, x, "RUN")
    <3>1. b \in Dev /\ "RUN" \in SubPhases /\ st.timed \in BOOLEAN
      BY <1>2, <2>2 DEF Engine, SubPhases, Steps
    <3>2. QED
      BY <2>9, <3>1, SubEnterDoes, Zenon
  <2>10. /\ x.active = TRUE /\ x.seq = e.seq /\ x.idx = i
         /\ x.rail = "vbat" /\ x.pwm = e.pwm /\ x.hall = e.hall
         /\ x.armed = FALSE /\ x.eoff_cnt = 0
         /\ x.coil = "off" /\ x.boost = "off" /\ ~Charged(x)
    BY <1>1, <1>10, <2>1, <2>2, <2>3 DEF Charged, Engine, Phased, SameRail, Ready
  <2>11. HasServo(st) => /\ x.servo = TRUE /\ x.pulses = TRUE
                         /\ x.status = (e.status \ {"rail12"}) \cup {"servo"}
    BY <1>1, <2>1, <2>2, <2>3 DEF Phased, SameServo
  <2>12. ~HasServo(st) => x.servo = FALSE /\ x.status = e.status \ {"rail12"}
    BY <1>1, <2>1, <2>2, <2>3 DEF Phased, SameServo, Ready
  <2>4. /\ x.active = TRUE /\ x.seq = e.seq /\ x.idx = i
        /\ x.rail = "vbat" /\ x.pwm = e.pwm /\ x.hall = e.hall
        /\ x.armed = FALSE /\ x.eoff_cnt = 0
        /\ HasServo(st) => x.servo = TRUE /\ x.pulses = TRUE
        /\ HasServo(st) => x.status = (e.status \ {"rail12"}) \cup {"servo"}
        /\ ~HasServo(st) => x.servo = FALSE /\ x.status = e.status \ {"rail12"}
        /\ x.coil = "off" /\ x.boost = "off" /\ ~Charged(x)
    BY <2>10, <2>11, <2>12, Zenon
  <2>5. StepOf(x) = st
    BY <1>1, <1>4, <2>4
  <2>6. Lit(x)
    BY <1>1, <2>4 DEF Lit, Ready
  <2>7. Cycling(x)
    <3>1. x.pwm # TRUE
      BY <1>1, <1>10, <2>4
    <3>2. Driven(x)
      BY <1>5, <1>10, <2>3, <2>4, <2>5, <3>1 DEF Phased, Driven
    <3>3. QED
      BY <2>3, <2>4, <3>1, <3>2 DEF Phased, Cycling, InRun
  <2>8. QED
    BY <1>1, <2>3, <2>4, <2>6, <2>7 DEF Phased, Entered, Sound, x
<1>11. QED
  BY <1>5, <1>8, <1>9, <1>10 DEF Charges

\* No sample of this step was counted yet.
Unsampled(d) == d.active = TRUE /\ d.sub = "RUN" => d.armed = FALSE /\ d.eoff_cnt = 0

Stepped(d) == Sound(d) /\ Unsampled(d)

LEMMA AdvanceDoes ==
  ASSUME Configured, NEW d, Ready(d)
  PROVE  Stepped(StepAdvance(d))
<1>1. Stepped(Finish(d))
  BY FinishDoes DEF Ready, Stepped, Unsampled
<1>2. CASE d.idx + 1 > SEQ_STEPS \/ Live(d.seq)[d.idx + 1].act = {}
  BY <1>1, <1>2 DEF StepAdvance
<1>3. CASE ~(d.idx + 1 > SEQ_STEPS \/ Live(d.seq)[d.idx + 1].act = {})
  <2>1. d.idx \in 1 .. SEQ_STEPS /\ SEQ_STEPS \in Nat
    BY CountAssumption DEF Ready, Dev
  <2>2. d.idx + 1 \in 1 .. SEQ_STEPS
    BY <1>3, <2>1
  <2>3. Entered(d, StepEnter(d, d.idx + 1), d.idx + 1)
    BY <2>2, EnterDoes
  <2>4. StepAdvance(d) = StepEnter(d, d.idx + 1)
    BY <1>3 DEF StepAdvance
  <2>5. QED
    BY <2>3, <2>4 DEF Entered, Stepped, Unsampled
<1>4. QED
  BY <1>2, <1>3

\* A cycle whose rail is about to be drained.
LEMMA DrainDoes ==
  ASSUME NEW d \in Dev, Lit(d), d.active = TRUE, Driven(d),
         Charged(d) => d.hot = TRUE /\ d.coil = "dc",
         d.servo = FALSE, d.coil # "pwm"
  PROVE  Stepped(Drain(d))
<1> DEFINE a == BoostOff(d)
<1> DEFINE x == Drain(d)
<1>1. /\ Engine(d, a) /\ SameServo(d, a) /\ a.coil = d.coil
      /\ a.boost = "off" /\ a.hot = d.hot /\ a.vsol = d.vsol
      /\ a.status = d.status \ {"rail12"}
  BY BoostOffDoes
<1>2. x = SubEnter(a, "DRAIN", TRUE)
  BY DEF Drain
<1> HIDE DEF a, x
<1>3. a \in Dev /\ "DRAIN" \in SubPhases /\ TRUE \in BOOLEAN
  BY <1>1 DEF Engine, SubPhases
<1>4. Phased(a, x, "DRAIN") /\ x.due = ~TRUE
  BY <1>2, <1>3, SubEnterDoes, Zenon
<1>5. /\ x \in Dev /\ x.sub = "DRAIN" /\ x.due = FALSE
      /\ x.active = TRUE /\ x.seq = d.seq /\ x.idx = d.idx /\ x.rail = d.rail /\ x.pwm = d.pwm
      /\ x.hall = d.hall /\ x.servo = FALSE /\ x.pulses = d.pulses /\ x.coil = d.coil
      /\ x.boost = "off" /\ x.hot = d.hot /\ x.vsol = d.vsol
      /\ x.status = d.status \ {"rail12"}
  BY <1>1, <1>4 DEF Engine, Phased, SameServo, SameRail
<1>6. StepOf(x) = StepOf(d)
  BY <1>5 DEF StepOf
<1>7. Lit(x)
  BY <1>5 DEF Lit
<1>8. Driven(x)
  BY <1>5, <1>6 DEF Driven
<1>9. Cycling(x)
  BY <1>5, <1>8 DEF Charged, Cycling, InDrain
<1>10. QED
  BY <1>5, <1>7, <1>9 DEF Charged, Stepped, Unsampled, Sound, x

LEMMA EndRunDoes ==
  ASSUME Configured, NEW d, Sound(d), d.active = TRUE, d.sub = "RUN"
  PROVE  Stepped(EndRun(d))
<1> DEFINE st == StepOf(d)
<1> DEFINE e == IF HasServo(st) THEN ServoOff(d) ELSE d
<1> DEFINE f == IF HasSol(st) /\ d.pwm THEN SolHoldStop(e) ELSE e
<1>1. d \in Dev /\ Lit(d) /\ Driven(d) /\ InRun(d) /\ (Charged(d) => d.hot = TRUE)
  BY DEF Sound, Cycling
<1>2. EndRun(d) = IF d.rail = "vbat" THEN StepAdvance(f) ELSE Drain(f)
  BY DEF EndRun
<1>3. /\ Engine(d, e) /\ SameRail(d, e) /\ e.coil = d.coil
      /\ e.servo = FALSE /\ e.status = d.status \ {"servo"}
  <2>1. CASE HasServo(st)
    BY <1>1, <2>1, ServoDoes
  <2>2. CASE ~HasServo(st)
    <3>1. e = d /\ d.servo = FALSE
      BY <1>1, <2>2 DEF Driven, Dev
    <3>2. "servo" \notin d.status
      BY <1>1, <3>1 DEF Lit
    <3>3. d.status = d.status \ {"servo"}
      BY <3>2
    <3>4. QED
      BY <1>1, <3>1, <3>3 DEF Engine, SameRail
  <2>3. QED
    BY <2>1, <2>2
<1> HIDE DEF e
<1>4. d.pwm = TRUE => HasSol(st)
  BY <1>1 DEF Driven
<1>5. /\ Engine(d, f) /\ SameRail(d, f) /\ f.servo = FALSE /\ f.status = d.status \ {"servo"}
      /\ f.coil # "pwm"
      /\ d.coil = "off" <=> f.coil = "off"
      /\ d.pwm = TRUE => f.coil = "dc"
  <2>1. CASE d.pwm = TRUE
    <3>1. f = SolHoldStop(e)
      BY <1>4, <2>1
    <3>2. d.coil = "pwm" /\ e \in Dev
      BY <1>1, <1>3, <2>1 DEF InRun, Engine
    <3>3. /\ Engine(e, f) /\ SameServo(e, f) /\ SameRail(e, f)
          /\ f.coil = "dc" /\ f.status = e.status
      BY <3>1, <3>2, SolHoldDoes
    <3> HIDE DEF f
    <3>4. QED
      BY <1>3, <3>2, <3>3 DEF Engine, SameServo, SameRail
  <2>2. CASE d.pwm # TRUE
    <3>1. d.pwm = FALSE
      BY <1>1, <2>2 DEF Dev
    <3>2. f = e
      BY <3>1
    <3>3. d.coil # "pwm"
      BY <1>1, <2>2 DEF InRun
    <3> HIDE DEF f
    <3>4. QED
      BY <1>3, <2>2, <3>2, <3>3
  <2>3. QED
    BY <2>1, <2>2
<1> HIDE DEF f
<1>6. StepOf(f) = st
  BY <1>5 DEF Engine, StepOf
<1>7. Lit(f)
  BY <1>1, <1>5 DEF Lit, Engine, SameRail
<1>8. CASE d.rail = "vbat"
  <2>1. ~HasSol(st) /\ d.coil = "off" /\ ~Charged(d)
    BY <1>1, <1>8 DEF Driven
  <2>2. Ready(f)
    BY <1>5, <1>7, <2>1 DEF Charged, Ready, Engine, SameRail
  <2>3. QED
    BY <1>2, <1>8, <2>2, AdvanceDoes
<1>9. CASE d.rail # "vbat"
  <2>1. Driven(f)
    <3>1. /\ f.sub = d.sub /\ f.rail = d.rail /\ f.pwm = d.pwm /\ f.vsol = d.vsol
          /\ f.servo = FALSE
      BY <1>5 DEF Engine, SameRail
    <3>2. f.coil # "off" => HasSol(st)
      BY <1>1, <1>5 DEF Driven
    <3>3. QED
      BY <1>1, <1>6, <3>1, <3>2 DEF Charged, Driven
  <2>2. Charged(f) => f.hot = TRUE /\ f.coil = "dc"
    BY <1>1, <1>5 DEF Charged, Driven, SameRail
  <2>3. f \in Dev /\ f.active = TRUE
    BY <1>5 DEF Engine
  <2>4. Stepped(Drain(f))
    BY <1>5, <1>7, <2>1, <2>2, <2>3, DrainDoes
  <2>5. QED
    BY <1>2, <1>9, <2>4
<1>10. QED
  BY <1>8, <1>9

-------------------------------------------------------------------------------
(***************************************************************************)
(* What a tick does to a cycle.                                            *)
(***************************************************************************)
LEMMA PredrainElapses ==
  ASSUME Configured, NEW d, Sound(d), d.active = TRUE, d.due = TRUE, d.sub = "PREDRAIN"
  PROVE  Stepped(SubElapsed(d))
<1> DEFINE e == [d EXCEPT !.hot = FALSE]
<1>1. d \in Dev /\ Lit(d) /\ InPredrain(d)
  BY DEF Sound, Cycling
<1>2. SubElapsed(d) = StepEnter(e, 1)
  BY DEF SubElapsed
<1>3. /\ e \in Dev /\ e.status = d.status /\ e.active = TRUE /\ e.servo = FALSE
      /\ e.coil = "off" /\ e.boost = d.boost /\ e.hall = d.hall /\ ~Charged(e)
  BY <1>1 DEF Charged, InPredrain, Dev
<1> HIDE DEF e
<1>4. Ready(e)
  BY <1>1, <1>3 DEF Ready, Lit, InPredrain
<1>5. 1 \in 1 .. SEQ_STEPS
  BY CountAssumption
<1>6. Entered(e, StepEnter(e, 1), 1)
  BY <1>4, <1>5, EnterDoes
<1>7. QED
  BY <1>2, <1>6 DEF Entered, Stepped, Unsampled

\* The supply and the coil of a step, carried into its next sub-phase.
LEMMA RunBegins ==
  ASSUME NEW d \in Dev, Lit(d), d.active = TRUE, Driven(d), Charged(d) => d.hot = TRUE,
         InRun(d), d.armed = FALSE, d.eoff_cnt = 0, NEW timed \in BOOLEAN, d.sub # "DRAIN"
  PROVE  Stepped(SubEnter(d, "RUN", timed))
<1> DEFINE x == SubEnter(d, "RUN", timed)
<1>1. "RUN" \in SubPhases
  BY DEF SubPhases
<1>2. Phased(d, x, "RUN")
  BY <1>1, SubEnterDoes, Zenon
<1> HIDE DEF x
<1>3. StepOf(x) = StepOf(d)
  BY <1>2 DEF Phased, StepOf
<1>4. Lit(x) /\ InRun(x)
  BY <1>2 DEF Phased, SameServo, SameRail, Lit, InRun
<1>5. Driven(x)
  BY <1>2, <1>3 DEF Charged, Phased, SameServo, SameRail, Driven
<1>6. QED
  BY <1>2, <1>4, <1>5 DEF Charged, Phased, SameRail, Stepped, Unsampled, Sound, Cycling, x

LEMMA StepIsStep ==
  ASSUME Configured, NEW d \in Dev
  PROVE  StepOf(d) \in Steps
<1>1. d.seq \in Directions /\ d.idx \in 1 .. SEQ_STEPS
  BY DEF Dev
<1>2. QED
  BY <1>1, StepsAreSteps DEF StepOf

LEMMA RampElapses ==
  ASSUME Configured, NEW d, Sound(d), d.active = TRUE, d.sub = "RAMP"
  PROVE  Stepped(SubElapsed(d))
<1> DEFINE st == StepOf(d)
<1>1. d \in Dev /\ Lit(d) /\ Driven(d) /\ InRamp(d) /\ (Charged(d) => d.hot = TRUE)
  BY DEF Sound, Cycling
<1>2. st.timed \in BOOLEAN
  BY <1>1, StepIsStep DEF Steps
<1>3. CASE ~HasSol(st)
  <2>1. SubElapsed(d) = SubEnter(d, "RUN", st.timed)
    BY <1>3 DEF SubElapsed
  <2>2. InRun(d)
    BY <1>1, <1>3 DEF Driven, InRamp, InRun
  <2>3. QED
    BY <1>1, <1>2, <2>1, <2>2, RunBegins DEF InRamp
<1>4. CASE HasSol(st)
  <2> DEFINE a == SolOn(d)
  <2>1. /\ Engine(d, a) /\ SameServo(d, a) /\ SameRail(d, a)
        /\ a.coil = "dc" /\ a.status = d.status \cup {"sol"}
    BY <1>1, SolOnDoes
  <2>2. SubElapsed(d) = IF d.pwm THEN SubEnter(a, "STRIKE", Blob[cfg.hdr].strike)
                                 ELSE SubEnter(a, "RUN", st.timed)
    BY <1>4 DEF SubElapsed
  <2> HIDE DEF a
  <2>3. StepOf(a) = st
    BY <2>1 DEF Engine, StepOf
  <2>4. Lit(a)
    BY <1>1, <2>1 DEF Engine, SameServo, SameRail, Lit
  <2>5. Driven(a)
    BY <1>1, <1>4, <2>1, <2>3 DEF Charged, Engine, SameServo, SameRail, Driven
  <2>6. /\ a \in Dev /\ a.active = TRUE /\ a.sub = "RAMP" /\ a.armed = FALSE /\ a.eoff_cnt = 0
        /\ Charged(a) => a.hot = TRUE
        /\ a.pwm = d.pwm
    BY <1>1, <2>1 DEF Charged, Engine, SameRail, InRamp
  <2>7. CASE d.pwm = TRUE
    <3> DEFINE strike == Blob[cfg.hdr].strike
    <3> DEFINE x == SubEnter(a, "STRIKE", strike)
    <3>1. strike \in BOOLEAN /\ "STRIKE" \in SubPhases
      BY BlobAssumption DEF Configured, SubPhases
    <3>2. SubElapsed(d) = x
      BY <2>2, <2>7
    <3> HIDE DEF strike
    <3>3. Phased(a, x, "STRIKE")
      BY <2>6, <3>1, SubEnterDoes, Zenon
    <3> HIDE DEF x
    <3>4. StepOf(x) = st
      BY <2>3, <3>3 DEF Phased, StepOf
    <3>5. Lit(x)
      BY <2>4, <3>3 DEF Phased, SameServo, SameRail, Lit
    <3>6. Driven(x)
      BY <2>3, <2>5, <2>6, <3>3, <3>4 DEF Charged, Phased, SameServo, SameRail, Driven
    <3>7. InStrike(x)
      BY <2>1, <2>6, <2>7, <3>3 DEF Phased, InStrike
    <3>8. QED
      BY <2>6, <3>2, <3>3, <3>5, <3>6, <3>7
      DEF Charged, Phased, SameRail, Stepped, Unsampled, Sound, Cycling
  <2>8. CASE d.pwm # TRUE
    <3>1. d.pwm = FALSE
      BY <1>1, <2>8 DEF Dev
    <3>2. SubElapsed(d) = SubEnter(a, "RUN", st.timed)
      BY <2>2, <3>1
    <3>3. InRun(a)
      BY <2>1, <2>6, <2>8 DEF InRun
    <3>4. QED
      BY <1>2, <2>4, <2>5, <2>6, <3>2, <3>3, RunBegins
  <2>9. QED
    BY <2>7, <2>8
<1>5. QED
  BY <1>3, <1>4

LEMMA StrikeElapses ==
  ASSUME Configured, NEW d, Sound(d), d.active = TRUE, d.sub = "STRIKE"
  PROVE  Stepped(SubElapsed(d))
<1> DEFINE st == StepOf(d)
<1>1. d \in Dev /\ Lit(d) /\ Driven(d) /\ InStrike(d) /\ (Charged(d) => d.hot = TRUE)
  BY DEF Sound, Cycling
<1>2. d.servo = FALSE
  <2>1. d.servo # TRUE
    BY <1>1 DEF Driven, InStrike
  <2>2. QED
    BY <1>1, <2>1 DEF Dev
<1>3. CASE st.timed = TRUE
  <2> DEFINE a == SolHoldStart(d)
  <2>1. /\ Engine(d, a) /\ SameServo(d, a) /\ SameRail(d, a)
        /\ a.coil = "pwm" /\ a.status = d.status
    BY <1>1, SolHoldDoes
  <2>2. SubElapsed(d) = SubEnter(a, "RUN", TRUE)
    BY <1>3 DEF SubElapsed
  <2> HIDE DEF a
  <2>3. StepOf(a) = st
    BY <2>1 DEF Engine, StepOf
  <2>4. Lit(a)
    BY <1>1, <2>1 DEF Engine, SameServo, SameRail, Lit, InStrike
  <2>5. Driven(a)
    BY <1>1, <2>1, <2>3 DEF Engine, SameServo, SameRail, Driven, InStrike
  <2>6. /\ a \in Dev /\ a.active = TRUE /\ a.sub # "DRAIN" /\ a.armed = FALSE
        /\ a.eoff_cnt = 0 /\ InRun(a)
        /\ Charged(a) => a.hot = TRUE
    BY <1>1, <2>1 DEF Charged, Engine, SameRail, InStrike, InRun
  <2>7. TRUE \in BOOLEAN
    OBVIOUS
  <2>8. QED
    BY <2>2, <2>4, <2>5, <2>6, <2>7, RunBegins, Zenon
<1>4. CASE st.timed # TRUE
  <2>1. st.timed = FALSE
    BY <1>1, <1>4, StepIsStep DEF Steps
  <2>2. SubElapsed(d) = Drain(d)
    BY <2>1 DEF SubElapsed
  <2>3. QED
    BY <1>1, <1>2, <2>2, DrainDoes DEF InStrike
<1>5. QED
  BY <1>3, <1>4

LEMMA DrainElapses ==
  ASSUME Configured, NEW d, Sound(d), d.active = TRUE, d.due = TRUE, d.sub = "DRAIN"
  PROVE  Stepped(SubElapsed(d))
<1> DEFINE st == StepOf(d)
<1> DEFINE r == d.status \ {"sol"}
<1> DEFINE a == SolOff(d)
<1> DEFINE b == IF HasSol(st) THEN [a EXCEPT !.status = @ \ {"sol"}] ELSE d
<1> DEFINE c == [b EXCEPT !.hot = FALSE]
<1>1. d \in Dev /\ Lit(d) /\ Driven(d) /\ InDrain(d)
  BY DEF Sound, Cycling
<1>2. SubElapsed(d) = StepAdvance(c)
  BY DEF SubElapsed
<1>3. /\ Engine(d, a) /\ SameServo(d, a) /\ SameRail(d, a) /\ a.coil = "off"
      /\ a.status = d.status
  BY <1>1, SolOffDoes DEF InDrain
<1> HIDE DEF a
<1>4. /\ Engine(d, b) /\ SameServo(d, b) /\ SameRail(d, b) /\ b.coil = "off" /\ b.status = r
  <2>1. CASE HasSol(st)
    <3>1. b = [a EXCEPT !.status = r]
      BY <1>3, <2>1
    <3>2. r \in SUBSET {"busy", "servo", "sol", "rail12", "ok"}
      BY <1>1 DEF Dev
    <3> HIDE DEF r, b
    <3>3. /\ b \in Dev /\ b.status = r /\ b.coil = a.coil
          /\ Engine(a, b) /\ SameServo(a, b) /\ SameRail(a, b)
      BY <1>3, <3>1, <3>2 DEF Dev, Engine, SameServo, SameRail
    <3>4. QED
      BY <1>3, <3>3 DEF Engine, SameServo, SameRail
  <2>2. CASE ~HasSol(st)
    <3>1. b = d /\ d.coil = "off"
      BY <1>1, <2>2 DEF Driven
    <3>2. "sol" \notin d.status
      BY <1>1, <3>1 DEF Lit
    <3>3. d.status = r
      BY <3>2
    <3> HIDE DEF r, b
    <3>4. QED
      BY <1>1, <3>1, <3>3 DEF Engine, SameServo, SameRail
  <2>3. QED
    BY <2>1, <2>2
<1>5. r = d.status \ {"sol"}
  OBVIOUS
<1> HIDE DEF b, r
<1>6. /\ c \in Dev /\ c.active = TRUE /\ c.hall = b.hall /\ c.coil = "off" /\ c.boost = b.boost
      /\ c.status = r /\ c.servo = b.servo /\ c.vsol = b.vsol
  BY <1>4 DEF Dev, Engine
<1> HIDE DEF c
<1>7. Ready(c)
  BY <1>1, <1>4, <1>5, <1>6 DEF Charged, Ready, Lit, Engine, SameServo, SameRail, InDrain
<1>8. QED
  BY <1>2, <1>7, AdvanceDoes

LEMMA ElapseDoes ==
  ASSUME Configured, NEW d, Sound(d), d.active = TRUE, d.due = TRUE
  PROVE  Stepped(SubElapsed(d))
<1>1. d.sub \in SubPhases
  BY DEF Sound, Dev, SubPhases
<1>2. CASE d.sub = "RUN"
  <2>1. SubElapsed(d) = EndRun(d)
    BY <1>2 DEF SubElapsed
  <2>2. QED
    BY <1>2, <2>1, EndRunDoes
<1>3. QED
  BY <1>1, <1>2, PredrainElapses, RampElapses, StrikeElapses, DrainElapses DEF SubPhases

\* A sample moves the sampler's own state only, and the end of the step at most.
LEMMA EarlyOffDoes ==
  ASSUME NEW d, Sound(d), d.active = TRUE, d.sub = "RUN", NEW present \in BOOLEAN
  PROVE  LET x == EarlyOff(d, present)
         IN  /\ Sound(x) /\ x.active = TRUE /\ x.sub = "RUN" /\ x.idx = d.idx /\ x.seq = d.seq
             /\ x.armed = TRUE => d.armed = TRUE \/ Wanted(d, present) = FALSE
             /\ x.eoff_cnt > 0 => d.eoff_cnt > 0 \/ Wanted(d, present) = TRUE
             /\ x.due = TRUE => \/ d.due = TRUE
                                \/ d.armed = TRUE /\ d.eoff_cnt + 1 >= CONFIRM_N
<1> DEFINE x == EarlyOff(d, present)
<1> DEFINE w == Wanted(d, present)
<1>1. d \in Dev /\ Lit(d) /\ Cycling(d) /\ (Charged(d) => d.hot = TRUE)
  BY DEF Sound
<1>2. w \in BOOLEAN
  BY DEF Wanted
<1>3. /\ d.armed = FALSE /\ w = FALSE =>
           x = [d EXCEPT !.arm_cnt = d.arm_cnt + 1, !.armed = (d.arm_cnt + 1 >= ARM_N)]
      /\ d.armed = FALSE /\ w = TRUE => x = [d EXCEPT !.arm_cnt = 0]
      /\ d.armed = TRUE /\ w = TRUE =>
           x = [d EXCEPT !.eoff_cnt = d.eoff_cnt + 1,
                         !.due = d.due \/ d.eoff_cnt + 1 >= CONFIRM_N]
      /\ d.armed = TRUE /\ w = FALSE =>
           x = [d EXCEPT !.eoff_cnt = IF d.eoff_cnt > MISS_PENALTY
                                        THEN d.eoff_cnt - MISS_PENALTY ELSE 0]
  BY <1>1 DEF EarlyOff, Dev
<1>4. d.armed \in BOOLEAN /\ d.due \in BOOLEAN /\ d.arm_cnt \in Nat /\ d.eoff_cnt \in Nat
  BY <1>1 DEF Dev
<1> HIDE DEF x, w
<1>5. PICK ac \in Nat, ec \in Nat, ar \in BOOLEAN, du \in BOOLEAN :
        /\ x = [d EXCEPT !.arm_cnt = ac, !.eoff_cnt = ec, !.armed = ar, !.due = du]
        /\ ar = TRUE => d.armed = TRUE \/ w = FALSE
        /\ ec > 0 => d.eoff_cnt > 0 \/ w = TRUE
        /\ du = TRUE => d.due = TRUE \/ (d.armed = TRUE /\ d.eoff_cnt + 1 >= CONFIRM_N)
  <2>1. CASE d.armed = FALSE /\ w = FALSE
    <3> DEFINE ac == d.arm_cnt + 1
    <3> DEFINE ar == ac >= ARM_N
    <3>1. ac \in Nat /\ ar \in BOOLEAN
      BY <1>4
    <3>2. x = [d EXCEPT !.arm_cnt = ac, !.armed = ar]
      BY <1>3, <2>1
    <3> HIDE DEF ac, ar
    <3>3. x = [d EXCEPT !.arm_cnt = ac, !.eoff_cnt = d.eoff_cnt, !.armed = ar, !.due = d.due]
      BY <1>1, <3>2 DEF Dev
    <3>4. QED
      BY <1>4, <2>1, <3>1, <3>3
  <2>2. CASE d.armed = FALSE /\ w = TRUE
    <3>1. x = [d EXCEPT !.arm_cnt = 0, !.eoff_cnt = d.eoff_cnt, !.armed = d.armed,
                        !.due = d.due]
      BY <1>1, <1>3, <2>2 DEF Dev
    <3>2. QED
      BY <1>4, <2>2, <3>1
  <2>3. CASE d.armed = TRUE /\ w = TRUE
    <3> DEFINE ec == d.eoff_cnt + 1
    <3> DEFINE du == d.due \/ d.eoff_cnt + 1 >= CONFIRM_N
    <3>1. ec \in Nat /\ du \in BOOLEAN
      BY <1>4
    <3>2. x = [d EXCEPT !.eoff_cnt = ec, !.due = du]
      BY <1>3, <2>3
    <3>3. du = TRUE => d.due = TRUE \/ (d.armed = TRUE /\ d.eoff_cnt + 1 >= CONFIRM_N)
      BY <1>4, <2>3
    <3> HIDE DEF ec, du
    <3>4. x = [d EXCEPT !.arm_cnt = d.arm_cnt, !.eoff_cnt = ec, !.armed = d.armed, !.due = du]
      BY <1>1, <3>2 DEF Dev
    <3>5. QED
      BY <1>4, <2>3, <3>1, <3>3, <3>4
  <2>4. CASE d.armed = TRUE /\ w = FALSE
    <3> DEFINE ec == IF d.eoff_cnt > MISS_PENALTY THEN d.eoff_cnt - MISS_PENALTY ELSE 0
    <3>1. ec \in Nat /\ (ec > 0 => d.eoff_cnt > 0)
      BY <1>4, CountAssumption
    <3>2. x = [d EXCEPT !.eoff_cnt = ec]
      BY <1>3, <2>4
    <3> HIDE DEF ec
    <3>3. x = [d EXCEPT !.arm_cnt = d.arm_cnt, !.eoff_cnt = ec, !.armed = d.armed,
                        !.due = d.due]
      BY <1>1, <3>2 DEF Dev
    <3>4. QED
      BY <1>4, <2>4, <3>1, <3>3
  <2>5. QED
    BY <1>2, <1>4, <2>1, <2>2, <2>3, <2>4
<1>6. /\ x \in Dev /\ x.armed = ar /\ x.eoff_cnt = ec /\ x.due = du
      /\ x.active = d.active /\ x.sub = d.sub /\ x.idx = d.idx /\ x.seq = d.seq
      /\ x.rail = d.rail /\ x.pwm = d.pwm /\ x.hall = d.hall
      /\ SameServo(d, x) /\ SameRail(d, x) /\ x.coil = d.coil /\ x.status = d.status
  <2> DEFINE y == [d EXCEPT !.arm_cnt = ac, !.eoff_cnt = ec, !.armed = ar, !.due = du]
  <2>1. x = y
    BY <1>5
  <2>2. y \in Dev
    BY <1>1 DEF Dev
  <2>3. /\ y.armed = ar /\ y.eoff_cnt = ec /\ y.due = du
        /\ y.active = d.active /\ y.sub = d.sub /\ y.idx = d.idx /\ y.seq = d.seq
    BY <1>1 DEF Dev
  <2>4. /\ y.rail = d.rail /\ y.pwm = d.pwm /\ y.hall = d.hall
        /\ y.coil = d.coil /\ y.status = d.status
    BY <1>1 DEF Dev
  <2>5. SameServo(d, y) /\ SameRail(d, y)
    BY <1>1 DEF Dev, SameServo, SameRail
  <2> HIDE DEF y
  <2>6. QED
    BY <2>1, <2>2, <2>3, <2>4, <2>5, Zenon
<1>7. StepOf(x) = StepOf(d)
  BY <1>6 DEF StepOf
<1>8. Lit(x)
  BY <1>1, <1>6 DEF Lit, SameServo, SameRail
<1>9. Driven(x) /\ InRun(x)
  BY <1>1, <1>6, <1>7 DEF Charged, Cycling, Driven, InRun, SameServo, SameRail
<1>10. Sound(x)
  BY <1>1, <1>6, <1>8, <1>9 DEF Charged, Sound, Cycling, SameRail
<1>11. QED
  BY <1>5, <1>6, <1>10 DEF x, w

\* A cycle begins with everything off; a rail that may be hot is bled first.
LEMMA BeginDoes ==
  ASSUME Configured, NEW d, Sound(d), NEW s \in Directions
  PROVE  Stepped(ActuateBegin(d, s))
<1> DEFINE a == AllOff(d)
<1> DEFINE t == TickStart(a)
<1> DEFINE r == t.status \cup {"busy"}
<1> DEFINE e == [t EXCEPT !.status = r, !.hall = TRUE, !.seq = s, !.active = TRUE]
<1>1. d \in Dev /\ Lit(d) /\ (Charged(d) => d.hot = TRUE)
  BY DEF Sound
<1>2. /\ Engine(d, a)
      /\ a.servo = FALSE /\ a.pulses = FALSE /\ a.coil = "off" /\ a.boost = "off"
      /\ a.status = d.status \ {"servo", "sol", "rail12"}
      /\ a.hot = d.hot /\ a.vsol = d.vsol
  BY <1>1, AllOffDoes
<1> HIDE DEF a
<1>3. /\ t \in Dev /\ t.servo = FALSE /\ t.coil = "off" /\ t.boost = "off"
      /\ t.status = a.status /\ t.hot = d.hot /\ t.vsol = d.vsol
  BY <1>2 DEF TickStart, Engine, Dev
<1>4. ActuateBegin(d, s) =
        CASE Live(s)[1].act = {} -> Finish(e)
          [] Live(s)[1].act # {} /\ d.hot ->
               SubEnter([e EXCEPT !.idx = 1], "PREDRAIN", TRUE)
          [] Live(s)[1].act # {} /\ ~d.hot -> StepEnter(e, 1)
  BY DEF ActuateBegin, NeedsPredrain, a
<1>5. r = (d.status \ {"servo", "sol", "rail12"}) \cup {"busy"}
  BY <1>2, <1>3
<1> HIDE DEF t
<1>6. r \in SUBSET {"busy", "servo", "sol", "rail12", "ok"}
  BY <1>3 DEF Dev
<1> HIDE DEF r
<1>7. /\ e \in Dev /\ e.active = TRUE /\ e.seq = s /\ e.hall = TRUE /\ e.servo = FALSE
      /\ e.coil = "off" /\ e.boost = "off" /\ e.status = r
      /\ e.hot = d.hot /\ e.vsol = d.vsol
  BY <1>3, <1>6 DEF Dev
<1>8. Lit(e)
  BY <1>5, <1>7 DEF Lit
<1> HIDE DEF e
<1>9. CASE Live(s)[1].act = {}
  <2>1. ActuateBegin(d, s) = Finish(e)
    BY <1>4, <1>9
  <2>2. QED
    BY <1>1, <1>7, <1>8, <2>1, FinishDoes DEF Charged, Stepped, Unsampled
<1>10. 1 \in 1 .. SEQ_STEPS
  BY CountAssumption
<1>11. CASE Live(s)[1].act # {} /\ d.hot = TRUE
  <2> DEFINE b == [e EXCEPT !.idx = 1]
  <2> DEFINE x == ActuateBegin(d, s)
  <2>1. x = SubEnter(b, "PREDRAIN", TRUE)
    BY <1>4, <1>11
  <2>2. /\ b \in Dev /\ b.active = TRUE /\ b.hall = TRUE /\ b.servo = FALSE /\ b.coil = "off"
        /\ b.boost = "off" /\ b.status = r /\ b.hot = d.hot /\ b.vsol = d.vsol
    BY <1>7, <1>10 DEF Dev
  <2>3. "PREDRAIN" \in SubPhases /\ TRUE \in BOOLEAN
    BY DEF SubPhases
  <2> HIDE DEF b, x
  <2>4. Phased(b, x, "PREDRAIN") /\ x.due = ~TRUE
    BY <2>1, <2>2, <2>3, SubEnterDoes, Zenon
  <2>5. Lit(x)
    BY <1>5, <2>2, <2>4 DEF Lit, Phased, SameServo, SameRail
  <2>6. Cycling(x)
    BY <2>2, <2>4 DEF Cycling, InPredrain, Phased, SameServo
  <2>7. QED
    BY <1>1, <2>2, <2>4, <2>5, <2>6 DEF Charged, Stepped, Unsampled, Sound, Phased, SameRail, x
<1>12. CASE Live(s)[1].act # {} /\ d.hot = FALSE
  <2>1. ActuateBegin(d, s) = StepEnter(e, 1)
    BY <1>4, <1>12
  <2>2. Ready(e)
    BY <1>1, <1>7, <1>8, <1>12 DEF Charged, Ready
  <2>3. Entered(e, StepEnter(e, 1), 1)
    BY <1>10, <2>2, EnterDoes
  <2>4. QED
    BY <2>1, <2>3 DEF Entered, Stepped, Unsampled
<1>13. d.hot \in BOOLEAN
  BY <1>1 DEF Dev
<1>14. QED
  BY <1>9, <1>11, <1>12, <1>13

-------------------------------------------------------------------------------
(***************************************************************************)
(* Steps of the board, as the actuator sees them.                          *)
(***************************************************************************)
\* A cycle is sound for the configuration it runs under.
LEMMA SoundKept ==
  ASSUME UNCHANGED cfg, NEW d, Sound(d), dev' = d
  PROVE  Sound(dev)'
BY DEF Sound, Lit, Quiet, Cycling, InPredrain, InRamp, InStrike, InRun, InDrain, Driven,
       StepOf, Live

\* A step that leaves no sample to account for.
LEMMA SteppedKept ==
  ASSUME AInv, UNCHANGED cfg, NEW d, Stepped(d), dev' = d, seen' \subseteq BOOLEAN
  PROVE  AInv'
<1>1. Sound(dev)'
  BY SoundKept DEF Stepped
<1>2. Sampled'
  <2>1. dev'.active = TRUE /\ dev'.sub = "RUN" => dev'.armed = FALSE /\ dev'.eoff_cnt = 0
    BY DEF Stepped, Unsampled
  <2>2. ~(0 > 0) /\ TRUE # FALSE
    OBVIOUS
  <2>3. QED
    BY <2>1, <2>2, Zenon DEF Sampled
<1>3. QED
  BY <1>1, <1>2 DEF AInv, Configured

LEMMA LastCmdDoes ==
  ASSUME NEW d, Sound(d), NEW ok \in BOOLEAN
  PROVE  /\ Sound(LastCmd(d, ok))
         /\ LastCmd(d, ok).active = d.active /\ LastCmd(d, ok).sub = d.sub
         /\ LastCmd(d, ok).armed = d.armed /\ LastCmd(d, ok).eoff_cnt = d.eoff_cnt
<1> DEFINE r == IF ok THEN d.status \cup {"ok"} ELSE d.status \ {"ok"}
<1> DEFINE e == LastCmd(d, ok)
<1>1. d \in Dev /\ Lit(d)
  BY DEF Sound
<1>2. r \in SUBSET {"busy", "servo", "sol", "rail12", "ok"}
  BY <1>1 DEF Dev
<1>3. \A b \in {"busy", "servo", "sol", "rail12"} : b \in r <=> b \in d.status
  OBVIOUS
<1>4. e = [d EXCEPT !.status = r]
  BY <1>1 DEF LastCmd, Dev
<1> HIDE DEF r, e
<1>5. /\ Engine(d, e) /\ SameServo(d, e) /\ SameRail(d, e) /\ e.coil = d.coil /\ e.status = r
  BY <1>1, <1>2, <1>4 DEF Dev, Engine, SameServo, SameRail
<1>6. StepOf(e) = StepOf(d)
  BY <1>5 DEF Engine, StepOf
<1>7. Lit(e)
  BY <1>1, <1>3, <1>5 DEF Lit, Engine, SameServo, SameRail
<1>8. d.active = TRUE => Cycling(e)
  BY <1>5, <1>6 DEF Charged, Sound, Cycling, InPredrain, InRamp, InStrike, InRun, InDrain, Driven,
                    Engine, SameServo, SameRail
<1>9. d.active = FALSE => Quiet(e)
  BY <1>5 DEF Sound, Quiet, Engine, SameServo, SameRail
<1>10. Sound(e)
  BY <1>5, <1>7, <1>8, <1>9 DEF Charged, Sound, Engine, SameRail
<1>11. QED
  BY <1>5, <1>10 DEF Engine, e

LEMMA TickPlainKeeps == AInv /\ TickPlain => AInv'
<1> SUFFICES ASSUME AInv, TickPlain PROVE AInv'
  OBVIOUS
<1>1. Sound(dev) /\ Sampled /\ Configured /\ seen \subseteq BOOLEAN /\ UNCHANGED cfg
  BY DEF AInv, Configured, TickPlain
<1>2. dev.active \in BOOLEAN /\ dev.due \in BOOLEAN
  BY <1>1 DEF Sound, Dev
<1>3. seen' \subseteq BOOLEAN
  BY <1>1 DEF TickPlain
<1>4. CASE dev.active = TRUE /\ dev.due = TRUE
  <2>1. dev' = SubElapsed(dev)
    BY <1>4 DEF TickPlain, Advance
  <2>2. QED
    BY <1>1, <1>3, <1>4, <2>1, ElapseDoes, SteppedKept
<1>5. CASE ~(dev.active = TRUE /\ dev.due = TRUE)
  <2>1. dev' = dev
    BY <1>2, <1>5 DEF TickPlain, Advance
  <2>2. Sound(dev)'
    BY <1>1, <2>1, SoundKept
  <2>3. Sampled'
    BY <1>1, <2>1 DEF Sampled, TickPlain, SameStep
  <2>4. QED
    BY <1>1, <1>3, <2>2, <2>3 DEF AInv, Configured
<1>6. QED
  BY <1>4, <1>5

\* A sample that does not end the step is remembered with it.
LEMMA TickSampleDoes ==
  ASSUME AInv, NEW present \in BOOLEAN, TickSample(present)
  PROVE  /\ AInv'
         /\ \/ SameStep
            \/ dev.due = TRUE
            \/ dev.armed = TRUE /\ dev.eoff_cnt + 1 >= CONFIRM_N
<1> DEFINE x == EarlyOff(dev, present)
<1> DEFINE w == Wanted(dev, present)
<1>1. /\ Sound(dev) /\ Sampled /\ Configured /\ seen \subseteq BOOLEAN /\ UNCHANGED cfg
      /\ dev \in Dev
  BY DEF AInv, Configured, TickSample, Sound
<1>2. dev.active = TRUE /\ dev.sub = "RUN"
  BY <1>1 DEF TickSample, Samples, Dev
<1>3. /\ Sound(x) /\ x.active = TRUE /\ x.sub = "RUN" /\ x.idx = dev.idx
      /\ x.armed = TRUE => dev.armed = TRUE \/ w = FALSE
      /\ x.eoff_cnt > 0 => dev.eoff_cnt > 0 \/ w = TRUE
      /\ x.due = TRUE => dev.due = TRUE \/ (dev.armed = TRUE /\ dev.eoff_cnt + 1 >= CONFIRM_N)
  BY <1>1, <1>2, EarlyOffDoes
<1>4. w \in BOOLEAN
  BY DEF Wanted
<1>5. dev' = Advance(x) /\ seen' = IF SameStep THEN seen \cup {w} ELSE {}
  BY DEF TickSample
<1> HIDE DEF x, w
<1>6. seen' \subseteq BOOLEAN
  BY <1>1, <1>4, <1>5
<1>7. x.due \in BOOLEAN
  BY <1>3 DEF Sound, Dev
<1>8. CASE x.due = TRUE
  <2>1. dev' = SubElapsed(x)
    BY <1>5, <1>8 DEF Advance
  <2>2. AInv'
    BY <1>1, <1>3, <1>6, <1>8, <2>1, ElapseDoes, SteppedKept
  <2>3. QED
    BY <1>3, <1>8, <2>2
<1>9. CASE x.due = FALSE
  <2>1. dev' = x
    BY <1>5, <1>9 DEF Advance
  <2>2. Sound(dev)'
    BY <1>1, <1>3, <2>1, SoundKept
  <2>3. SameStep
    BY <1>3, <2>1 DEF SameStep
  <2>4. seen' = seen \cup {w}
    BY <1>5, <2>3
  <2>5. Sampled'
    BY <1>1, <1>2, <1>3, <2>1, <2>4 DEF Sampled
  <2>6. QED
    BY <1>1, <1>6, <2>2, <2>3, <2>5 DEF AInv, Configured
<1>10. QED
  BY <1>7, <1>8, <1>9

LEMMA PhaseKeeps == AInv /\ PhaseElapses => AInv'
<1> SUFFICES ASSUME AInv, PhaseElapses PROVE AInv'
  OBVIOUS
<1> DEFINE v == IF \/ dev.sub = "PREDRAIN"
                   \/ dev.sub = "DRAIN" /\ dev.coil # "off"
                  THEN "vbat" ELSE dev.vsol
<1>1. /\ Sound(dev) /\ Sampled /\ Configured /\ seen \subseteq BOOLEAN /\ UNCHANGED <<cfg, seen>>
      /\ dev \in Dev
  BY DEF AInv, Configured, PhaseElapses, Sound
<1>2. dev.active = TRUE /\ Cycling(dev) /\ Lit(dev)
  BY <1>1 DEF PhaseElapses, Sound, Dev
<1>3. dev' = [dev EXCEPT !.due = TRUE, !.vsol = v]
  BY <1>1 DEF PhaseElapses, Dev
<1>4. /\ v \in Charges /\ (v = "12v" => dev.vsol = "12v")
      /\ dev.sub = "PREDRAIN" => v # "12v"
      /\ dev.sub = "DRAIN" /\ dev.coil # "off" => v # "12v"
  BY <1>1 DEF Charged, Charges, Dev
<1> HIDE DEF v
<1> DEFINE x == [dev EXCEPT !.due = TRUE, !.vsol = v]
<1>5. /\ x \in Dev /\ x.due = TRUE /\ x.vsol = v
      /\ x.active = dev.active /\ x.seq = dev.seq /\ x.idx = dev.idx /\ x.sub = dev.sub
      /\ x.rail = dev.rail /\ x.pwm = dev.pwm /\ x.hall = dev.hall
      /\ x.armed = dev.armed /\ x.eoff_cnt = dev.eoff_cnt
      /\ SameServo(dev, x) /\ x.coil = dev.coil /\ x.status = dev.status
      /\ x.boost = dev.boost /\ x.hot = dev.hot
  BY <1>1, <1>4 DEF Dev, SameServo
<1>6. dev' = x
  BY <1>3
<1> HIDE DEF x
<1>7. StepOf(x) = StepOf(dev)
  BY <1>5 DEF StepOf
<1>8. Lit(x)
  BY <1>2, <1>5 DEF Lit, SameServo
<1>9. x.sub # "PREDRAIN" => Driven(x)
  BY <1>2, <1>4, <1>5, <1>7 DEF Charged, Cycling, Driven, SameServo
<1>10. Cycling(x)
  BY <1>2, <1>4, <1>5, <1>9 DEF Charged, Cycling, InPredrain, InRamp, InStrike, InRun, InDrain, SameServo
<1>11. Sound(x)
  BY <1>1, <1>2, <1>4, <1>5, <1>8, <1>10 DEF Charged, Sound
<1>12. Sound(dev)'
  BY <1>1, <1>6, <1>11, SoundKept
<1>13. Sampled'
  BY <1>1, <1>5, <1>6 DEF Sampled
<1>14. QED
  BY <1>1, <1>12, <1>13 DEF AInv, Configured

LEMMA SenseKeeps == AInv /\ Sense => AInv'
<1> SUFFICES ASSUME AInv, Sense PROVE AInv'
  OBVIOUS
<1>1. /\ Sound(dev) /\ Sampled /\ Configured /\ seen \subseteq BOOLEAN /\ UNCHANGED <<cfg, seen>>
      /\ dev \in Dev
  BY DEF AInv, Configured, Sense, Sound
<1>2. CASE dev.active = TRUE
  <2>1. dev' = dev
    BY <1>2 DEF Sense, RefreshHall
  <2>2. QED
    BY <1>1, <2>1, SoundKept DEF AInv, Sampled, Configured
<1>3. CASE dev.active = FALSE
  <2> DEFINE x == [dev EXCEPT !.hall = FALSE]
  <2>1. dev' = x
    BY <1>3 DEF Sense, RefreshHall, HallRead
  <2>2. x = dev
    BY <1>1, <1>3 DEF Sound, Quiet, Dev
  <2>3. QED
    BY <1>1, <2>1, <2>2, SoundKept DEF AInv, Sampled, Configured
<1>4. QED
  BY <1>1, <1>2, <1>3 DEF Dev

-------------------------------------------------------------------------------
(***************************************************************************)
(* The mailbox and the main loop's copy of it.                             *)
(***************************************************************************)
Laid ==
  /\ {"rx_buf", "rx_len", "count"} \subseteq DOMAIN twi
  /\ {"buf", "len", "reg", "pc"} \subseteq DOMAIN main
  /\ {"is", "todo"} \subseteq DOMAIN host
  /\ {"mark", "hdr", "seqs"} \subseteq DOMAIN ee
  /\ {"handed", "old"} \subseteq DOMAIN past

\* What is on its way, received and copied is what masters sent, whole or in part.
Sending ==
  host.is \in Masters /\ host.todo \in Seq(Chunks)

Received ==
  /\ twi.rx_buf \in [1 .. RX_MAX -> Chunks]
  /\ twi.rx_len \in 0 .. RX_MAX + 1 /\ twi.count \in 0 .. RX_MAX + 1

Copied ==
  /\ main.buf \in Seq(Chunks) /\ Len(main.buf) <= RX_MAX
  /\ main.len \in 0 .. RX_MAX + 1
  /\ main.reg = "COMMAND" => Len(main.buf) <= CMD_LEN
  /\ main.pc # "verify" => main.buf = << >>
  /\ main.pc = "verify" /\ main.reg = "CONFIG" /\ main.len = CFG_LEN =>
       Len(main.buf) = CFG_LEN

Stored == ee.hdr \in Names /\ ee.seqs \in Names

MInv == Laid /\ Sending /\ Received /\ Copied /\ Stored

LEMMA Lengths == CMD_LEN = 2 /\ CFG_LEN = 3 /\ RX_MAX = 3
BY DEF CMD_LEN, CFG_LEN, RX_MAX

LEMMA MessageParts ==
  ASSUME NEW p, NEW n
  PROVE  \/ /\ p \in Commands
            /\ Message(p, n) = <<Plain(p), Mac("pairing", n, p, "")>>
         \/ /\ p \notin Commands
            /\ Message(p, n) = <<Plain(p), Plain(p), Mac("config", n, p, p)>>
BY DEF Message

LEMMA ChunkCases ==
  ASSUME NEW c
  PROVE  c \in Chunks <=>
           \/ c = Plain("")
           \/ \E p \in host.is.sent, n \in past.handed \cup past.old :
                \E i \in DOMAIN Message(p, n) : c = Message(p, n)[i]
<1>1. c \in Chunks <=> c = Plain("") \/ \E p \in host.is.sent : c \in Sent(p)
  BY DEF Chunks
<1>2. \A p : c \in Sent(p) <=> \E n \in past.handed \cup past.old : c \in Parts(p, n)
  BY DEF Sent
<1>3. \A p, n : c \in Parts(p, n) <=> \E i \in DOMAIN Message(p, n) : c = Message(p, n)[i]
  BY DEF Parts
<1>4. QED
  BY <1>1, <1>2, <1>3, Zenon

LEMMA ChunkOrigin ==
  \A x \in Chunks :
    \/ x = Plain("")
    \/ \E p \in host.is.sent, n \in past.handed \cup past.old :
         \E i \in DOMAIN Message(p, n) : x = Message(p, n)[i]
BY ChunkCases

LEMMA PairParts ==
  ASSUME NEW m, NEW a, NEW b, m = <<a, b>>
  PROVE  /\ 1 \in DOMAIN m /\ 2 \in DOMAIN m /\ m[1] = a /\ m[2] = b
         /\ \A i \in DOMAIN m : m[i] = a \/ m[i] = b
OBVIOUS

LEMMA TripleParts ==
  ASSUME NEW m, NEW a, NEW b, NEW c, m = <<a, b, c>>
  PROVE  /\ 1 \in DOMAIN m /\ 2 \in DOMAIN m /\ 3 \in DOMAIN m
         /\ m[1] = a /\ m[2] = b /\ m[3] = c
         /\ \A i \in DOMAIN m : m[i] = a \/ m[i] = b \/ m[i] = c
OBVIOUS

LEMMA TupleSeqs ==
  ASSUME NEW S, NEW m, NEW a \in S, NEW b \in S, NEW c \in S, m = <<a, b>> \/ m = <<a, b, c>>
  PROVE  m \in Seq(S)
<1>1. <<a, b>> \in Seq(S)
  OBVIOUS
<1>2. <<a, b, c>> \in Seq(S)
  OBVIOUS
<1>3. QED
  BY <1>1, <1>2

LEMMA MessageIsChunks ==
  ASSUME NEW p \in host.is.sent, NEW n \in past.handed \cup past.old
  PROVE  Message(p, n) \in Seq(Chunks)
<1> DEFINE m == Message(p, n)
<1>1. \A i \in DOMAIN m : m[i] \in Chunks
  BY ChunkCases
<1>2. /\ m = <<Plain(p), Mac("pairing", n, p, "")>> \/ m = <<Plain(p), Plain(p), Mac("config", n, p, p)>>
  BY MessageParts
<1> HIDE DEF m, Chunks
<1>3. CASE m = <<Plain(p), Mac("pairing", n, p, "")>>
  <2> DEFINE a == Plain(p)
  <2> DEFINE b == Mac("pairing", n, p, "")
  <2>4. m = <<a, b>>
    BY <1>3
  <2> HIDE DEF a, b
  <2>1. 1 \in DOMAIN m /\ 2 \in DOMAIN m /\ m[1] = a /\ m[2] = b
    BY <2>4, PairParts
  <2>2. a \in Chunks /\ b \in Chunks
    BY <1>1, <2>1
  <2>3. QED
    BY <2>4, <2>2, TupleSeqs DEF m
<1>4. CASE m = <<Plain(p), Plain(p), Mac("config", n, p, p)>>
  <2> DEFINE a == Plain(p)
  <2> DEFINE b == Mac("config", n, p, p)
  <2>4. m = <<a, a, b>>
    BY <1>4
  <2> HIDE DEF a, b
  <2>1. 1 \in DOMAIN m /\ 3 \in DOMAIN m /\ m[1] = a /\ m[3] = b
    BY <2>4, TripleParts
  <2>2. a \in Chunks /\ b \in Chunks
    BY <1>1, <2>1
  <2>3. QED
    BY <2>4, <2>2, TupleSeqs DEF m
<1>5. QED
  BY <1>2, <1>3, <1>4

\* What overruns the buffer is a message and more of its own.
LEMMA OverlongIsChunks ==
  ASSUME NEW p \in host.is.sent, NEW n \in past.handed \cup past.old
  PROVE  Overlong(p, n) \in Seq(Chunks)
<1> DEFINE m == Message(p, n)
<1> DEFINE a == Plain(p)
<1>1. m \in Seq(Chunks)
  BY MessageIsChunks
<1>2. a \in Chunks
  <2>1. 1 \in DOMAIN m /\ m[1] = a
    BY DEF Message
  <2>2. QED
    BY <2>1, ChunkCases
<1>3. Overlong(p, n) = m \o <<a, a>>
  BY DEF Overlong
<1> HIDE DEF m, a, Chunks
<1>4. <<a, a>> \in Seq(Chunks)
  BY <1>2
<1>5. QED
  BY <1>1, <1>3, <1>4, ConcatProperties

\* Under the configuration key a master signs the same blob twice.
LEMMA ConfigChunk ==
  ASSUME Sending, NEW c \in Chunks, c.key = "config"
  PROVE  c.first \in Names /\ c.second = c.first
<1>1. \A p, n : Plain(p).key = "none" /\ Mac("pairing", n, p, "").key = "pairing"
  BY DEF Plain, Mac
<1>2. \A p, n : c # Plain(p) /\ c # Mac("pairing", n, p, "")
  BY <1>1
<1>3. \E p \in host.is.sent, n \in past.handed \cup past.old :
        \E i \in DOMAIN Message(p, n) : c = Message(p, n)[i]
  <2>1. \/ c = Plain("")
        \/ \E p \in host.is.sent, n \in past.handed \cup past.old :
             \E i \in DOMAIN Message(p, n) : c = Message(p, n)[i]
    BY ChunkOrigin, Zenon
  <2>2. c # Plain("")
    BY <1>2
  <2>3. QED
    BY <2>1, <2>2
<1>4. PICK p \in host.is.sent, n \in past.handed \cup past.old :
        \E i \in DOMAIN Message(p, n) : c = Message(p, n)[i]
  BY <1>3
<1> DEFINE m == Message(p, n)
<1>5. PICK i \in DOMAIN m : c = m[i]
  BY <1>4
<1>6. \/ m = <<Plain(p), Mac("pairing", n, p, "")>>
      \/ p \notin Commands /\ m = <<Plain(p), Plain(p), Mac("config", n, p, p)>>
  BY MessageParts
<1> DEFINE a == Plain(p)
<1> DEFINE b == Mac("pairing", n, p, "")
<1> DEFINE d == Mac("config", n, p, p)
<1>7. c # a /\ c # b
  BY <1>2
<1>8. m = <<a, b>> \/ (p \notin Commands /\ m = <<a, a, d>>)
  BY <1>6
<1> HIDE DEF a, b, d, m
<1>9. c = d /\ p \notin Commands
  BY <1>5, <1>7, <1>8, PairParts, TripleParts
<1>10. p \in Names
  BY <1>9, BoardAssumption DEF Sending
<1>11. d.first = p /\ d.second = p
  BY DEF d, Mac
<1>12. QED
  BY <1>9, <1>10, <1>11

LEMMA ChunksGrow ==
  ASSUME host'.is = host.is,
         past.handed \cup past.old \subseteq past'.handed \cup past'.old
  PROVE  Chunks \subseteq Chunks'
<1>1. \A p : Sent(p) \subseteq Sent(p)'
  BY DEF Sent
<1>2. host'.is.sent = host.is.sent
  OBVIOUS
<1>3. QED
  BY <1>1, <1>2 DEF Chunks

LEMMA ChunkSeqs ==
  ASSUME NEW S, NEW T, S \subseteq T, NEW s \in Seq(S)
  PROVE  s \in Seq(T)
BY SeqMonotonic

LEMMA SendingKept ==
  ASSUME Sending, Chunks \subseteq Chunks', host'.is = host.is,
         host'.todo = host.todo \/ host'.todo = << >>
  PROVE  Sending'
<1>1. host.todo \in Seq(Chunks') /\ << >> \in Seq(Chunks')
  BY ChunkSeqs, EmptySeq DEF Sending
<1>2. QED
  BY <1>1 DEF Sending

LEMMA ReceivedKept ==
  ASSUME Received, Chunks \subseteq Chunks', twi'.rx_buf = twi.rx_buf,
         twi'.rx_len \in 0 .. RX_MAX + 1, twi'.count \in 0 .. RX_MAX + 1
  PROVE  Received'
BY DEF Received

LEMMA CopiedKept ==
  ASSUME Copied, Chunks \subseteq Chunks', main'.buf = main.buf, main'.len = main.len,
         main'.reg = main.reg, main'.pc = "verify" <=> main.pc = "verify"
  PROVE  Copied'
<1>1. main.buf \in Seq(Chunks')
  BY ChunkSeqs DEF Copied
<1>2. QED
  BY <1>1 DEF Copied

\* A wake-up leaves the copy alone.
LEMMA WokenKeeps ==
  ASSUME MInv, Chunks \subseteq Chunks', main' = Woken
  PROVE  Copied' /\ {"buf", "len", "reg", "pc"} \subseteq DOMAIN main'
<1>1. /\ main'.buf = main.buf /\ main'.len = main.len /\ main'.reg = main.reg
      /\ main'.pc = "verify" <=> main.pc = "verify"
      /\ {"buf", "len", "reg", "pc"} \subseteq DOMAIN main'
  BY DEF Woken, MInv, Laid
<1>2. QED
  BY <1>1, CopiedKept DEF MInv

\* A bus event: the master's part and the interrupt's.
LEMMA BusKeeps ==
  ASSUME MInv, main' = Woken, UNCHANGED ee,
         {"is", "todo"} \subseteq DOMAIN host', host'.is = host.is,
         host'.todo \in Seq(Chunks) \/ host'.todo = << >>,
         {"handed", "old"} \subseteq DOMAIN past', past'.old = past.old,
         past.handed \subseteq past'.handed,
         {"rx_buf", "rx_len", "count"} \subseteq DOMAIN twi',
         twi'.rx_buf = twi.rx_buf \/ twi'.rx_buf \in [1 .. RX_MAX -> Chunks],
         twi'.rx_len \in 0 .. RX_MAX + 1, twi'.count \in 0 .. RX_MAX + 1
  PROVE  MInv'
<1>1. Chunks \subseteq Chunks'
  BY ChunksGrow
<1> HIDE DEF Chunks
<1>2. Copied' /\ {"buf", "len", "reg", "pc"} \subseteq DOMAIN main'
  BY <1>1, WokenKeeps
<1>3. Laid' /\ Stored'
  BY <1>2 DEF MInv, Laid, Stored
<1>4. Sending'
  <2>1. host'.todo \in Seq(Chunks')
    BY <1>1, ChunkSeqs, EmptySeq
  <2>2. QED
    BY <2>1 DEF MInv, Sending
<1>5. Received'
  <2>1. twi'.rx_buf \in [1 .. RX_MAX -> Chunks]
    BY DEF MInv, Received
  <2>2. twi'.rx_buf \in [1 .. RX_MAX -> Chunks']
    BY <1>1, <2>1
  <2>3. QED
    BY <2>2 DEF Received
<1>6. QED
  BY <1>2, <1>3, <1>4, <1>5 DEF MInv

LEMMA StoppedDoes ==
  ASSUME MInv
  PROVE  /\ {"rx_buf", "rx_len", "count"} \subseteq DOMAIN Stopped(twi)
         /\ Stopped(twi).rx_buf = twi.rx_buf
         /\ Stopped(twi).rx_len \in 0 .. RX_MAX + 1 /\ Stopped(twi).count \in 0 .. RX_MAX + 1
BY DEF MInv, Laid, Received, Stopped

LEMMA ReceiveKeeps == MInv /\ ReceiveChunk => MInv'
<1> SUFFICES ASSUME MInv, ReceiveChunk PROVE MInv'
  OBVIOUS
<1>1. host.todo \in Seq(Chunks) /\ host.todo # << >> /\ twi.rx_buf \in [1 .. RX_MAX -> Chunks]
  BY DEF MInv, Sending, Received, ReceiveChunk
<1>2. Head(host.todo) \in Chunks /\ Tail(host.todo) \in Seq(Chunks)
  BY <1>1, HeadTailProperties
<1> DEFINE b == IF twi.count < RX_MAX THEN [twi.rx_buf EXCEPT ![twi.count + 1] = Head(host.todo)]
                                      ELSE twi.rx_buf
<1> DEFINE c == IF twi.count <= RX_MAX THEN twi.count + 1 ELSE twi.count
<1>3. twi' = [twi EXCEPT !.rx_buf = b, !.count = c]
  BY DEF ReceiveChunk, MInv, Laid
<1>4. b \in [1 .. RX_MAX -> Chunks]
  BY <1>1, <1>2, Zenon
<1>5. c \in 0 .. RX_MAX + 1
  BY Lengths DEF MInv, Received
<1> HIDE DEF b, c
<1>6. /\ {"rx_buf", "rx_len", "count"} \subseteq DOMAIN twi'
      /\ twi'.rx_buf = b /\ twi'.rx_len = twi.rx_len /\ twi'.count = c
  BY <1>3 DEF MInv, Laid
<1>7. /\ {"is", "todo"} \subseteq DOMAIN host' /\ host'.is = host.is
      /\ host'.todo = Tail(host.todo)
      /\ main' = Woken /\ UNCHANGED <<ee, past>>
  BY DEF ReceiveChunk, MInv, Laid
<1>8. twi.rx_len \in 0 .. RX_MAX + 1 /\ {"handed", "old"} \subseteq DOMAIN past
  BY DEF MInv, Received, Laid
<1>9. QED
  BY <1>2, <1>4, <1>5, <1>6, <1>7, <1>8, BusKeeps

LEMMA BusMailbox == MInv /\ BusEvent => MInv'
<1> SUFFICES ASSUME MInv, BusEvent PROVE MInv'
  OBVIOUS
<1>1. /\ twi.rx_len \in 0 .. RX_MAX + 1 /\ twi.count \in 0 .. RX_MAX + 1 /\ 0 \in 0 .. RX_MAX + 1
      /\ {"rx_buf", "rx_len", "count"} \subseteq DOMAIN twi
      /\ {"is", "todo"} \subseteq DOMAIN host /\ host.todo \in Seq(Chunks)
      /\ {"handed", "old"} \subseteq DOMAIN past
  BY Lengths DEF MInv, Laid, Received, Sending
<1>2. {"handed", "old"} \subseteq DOMAIN Fault /\ Fault.handed = past.handed /\ Fault.old = past.old
  BY <1>1 DEF Fault
<1>3. CASE ReadNonce
  <2>1. /\ main' = Woken /\ UNCHANGED <<ee, host>>
        /\ {"handed", "old"} \subseteq DOMAIN past' /\ past'.old = past.old
        /\ past'.handed = past.handed \cup {twi.next}
    BY <1>1, <1>3 DEF ReadNonce, HandedOut
  <2>2. /\ {"rx_buf", "rx_len", "count"} \subseteq DOMAIN twi'
        /\ twi'.rx_buf = twi.rx_buf /\ twi'.rx_len = twi.rx_len /\ twi'.count = 0
    BY <1>1, <1>3 DEF ReadNonce, Arming
  <2>3. QED
    BY <1>1, <2>1, <2>2, BusKeeps
<1>4. CASE BareRead /\ twi.reg = "NONCE"
  <2>1. /\ main' = Woken /\ UNCHANGED <<ee, host>>
        /\ {"handed", "old"} \subseteq DOMAIN past' /\ past'.old = past.old
        /\ past'.handed = past.handed \cup {twi.next}
    BY <1>2, <1>4 DEF BareRead, HandedOut
  <2>2. /\ {"rx_buf", "rx_len", "count"} \subseteq DOMAIN twi'
        /\ twi'.rx_buf = twi.rx_buf /\ twi'.rx_len = twi.rx_len /\ twi'.count = twi.count
    BY <1>1, <1>4 DEF BareRead, Arming
  <2>3. QED
    BY <1>1, <2>1, <2>2, BusKeeps
<1>5. CASE BareRead /\ twi.reg # "NONCE"
  <2>1. main' = Woken /\ UNCHANGED <<ee, host>> /\ twi' = Stopped(twi) /\ past' = Fault
    BY <1>5 DEF BareRead
  <2>2. QED
    BY <1>1, <1>2, <2>1, StoppedDoes, BusKeeps
<1>6. ASSUME NEW p \in host.is.sent, NEW n \in past.handed \cup past.old, StartWrite(p, n)
      PROVE  MInv'
  <2>1. /\ main' = Woken /\ UNCHANGED ee /\ past' \in {past, Fault}
        /\ {"is", "todo"} \subseteq DOMAIN host' /\ host'.is = host.is
        /\ host'.todo \in {Message(p, n), Overlong(p, n)}
        /\ {"rx_buf", "rx_len", "count"} \subseteq DOMAIN twi'
        /\ twi'.rx_buf = twi.rx_buf /\ twi'.rx_len = twi.rx_len /\ twi'.count = 0
    BY <1>1, <1>6 DEF StartWrite, Writing
  <2>2. host'.todo \in Seq(Chunks)
    BY <2>1, MessageIsChunks, OverlongIsChunks
  <2>3. QED
    BY <1>1, <1>2, <2>1, <2>2, BusKeeps
<1>7. CASE Stop \/ BusError
  <2>1. /\ main' = Woken /\ UNCHANGED ee /\ past' \in {past, Fault}
        /\ {"is", "todo"} \subseteq DOMAIN host' /\ host'.is = host.is /\ host'.todo = << >>
        /\ twi' \in {twi, Stopped(twi)}
    BY <1>1, <1>7 DEF Stop, BusError
  <2>2. QED
    BY <1>1, <1>2, <2>1, StoppedDoes, BusKeeps
<1>8. QED
  BY <1>3, <1>4, <1>5, <1>6, <1>7, ReceiveKeeps DEF BusEvent

\* Nothing on its way, received, copied or stored changes.
LEMMA MailboxSame ==
  ASSUME MInv, UNCHANGED <<twi, main, ee, host, past>>
  PROVE  MInv'
<1>1. Chunks \subseteq Chunks'
  BY ChunksGrow
<1>2. Sending' /\ Received' /\ Copied'
  BY <1>1, SendingKept, ReceivedKept, CopiedKept DEF MInv, Received
<1>3. QED
  BY <1>2 DEF MInv, Laid, Stored

\* Steps of the main loop that copy nothing.
LEMMA LoopKeeps ==
  ASSUME MInv, UNCHANGED <<host, past>>,
         {"mark", "hdr", "seqs"} \subseteq DOMAIN ee', ee'.hdr \in Names, ee'.seqs \in Names,
         {"rx_buf", "rx_len", "count"} \subseteq DOMAIN twi', twi'.rx_buf = twi.rx_buf,
         twi'.rx_len = twi.rx_len, twi'.count = twi.count,
         {"buf", "len", "reg", "pc"} \subseteq DOMAIN main', main'.len \in {main.len, 0},
         main'.buf = << >>, main'.pc # "verify"
  PROVE  MInv'
<1>1. Chunks \subseteq Chunks'
  BY ChunksGrow
<1> HIDE DEF Chunks
<1>2. Sending' /\ Received'
  BY <1>1, SendingKept, ReceivedKept DEF MInv, Received
<1>3. Copied'
  BY EmptySeq, Lengths DEF MInv, Copied
<1>4. QED
  BY <1>2, <1>3 DEF MInv, Laid, Stored

\* The snapshot takes no more than the message it is for.
LEMMA TakeKeeps == MInv /\ TakeChallenge => MInv'
<1> SUFFICES ASSUME MInv, TakeChallenge PROVE MInv'
  OBVIOUS
<1> DEFINE n == IF twi.rx_len > Cap THEN Cap ELSE twi.rx_len
<1> DEFINE b == SubSeq(twi.rx_buf, 1, n)
<1>1. /\ main' = [main EXCEPT !.pc = "verify", !.buf = b, !.nonce = twi.armed_nonce,
                              !.len = IF twi.armed THEN twi.rx_len ELSE 0]
      /\ twi' = Burned(twi) /\ UNCHANGED <<nonces, ee, host, past>>
  BY DEF TakeChallenge
<1>2. /\ twi.rx_len \in 0 .. RX_MAX + 1 /\ RX_MAX = 3 /\ Cap \in 2 .. 3
      /\ main.reg = "COMMAND" => Cap = 2
      /\ main.reg = "CONFIG" => Cap = 3
      /\ twi.rx_buf \in [1 .. RX_MAX -> Chunks]
  BY Lengths DEF MInv, Received, Cap
<1>3. n \in 0 .. 3 /\ n <= Cap /\ (twi.rx_len = 3 /\ Cap = 3 => n = 3)
  BY <1>2
<1> HIDE DEF n
<1>4. \A i \in 1 .. n : twi.rx_buf[i] \in Chunks
  BY <1>2, <1>3
<1>5. n \in Int /\ 1 \in Int
  BY <1>3
<1>6. b \in Seq(Chunks) /\ Len(b) = IF 1 <= n THEN n - 1 + 1 ELSE 0
  BY <1>4, <1>5, SubSeqProperties
<1>7. Len(b) = n
  BY <1>3, <1>6
<1> HIDE DEF b
<1>8. Chunks \subseteq Chunks'
  BY <1>1, ChunksGrow
<1>9. b \in Seq(Chunks')
  BY <1>6, <1>8, ChunkSeqs
<1>10. /\ {"buf", "len", "reg", "pc"} \subseteq DOMAIN main'
       /\ main'.buf = b /\ main'.reg = main.reg /\ main'.pc = "verify"
       /\ main'.len \in {twi.rx_len, 0}
       /\ {"rx_buf", "rx_len", "count"} \subseteq DOMAIN twi'
       /\ twi'.rx_buf = twi.rx_buf /\ twi'.rx_len = twi.rx_len /\ twi'.count = twi.count
  BY <1>1 DEF MInv, Laid, Burned
<1>11. Copied'
  <2>1. main'.len \in 0 .. RX_MAX + 1
    BY <1>2, <1>10
  <2>2. Len(main'.buf) <= RX_MAX /\ (main'.reg = "COMMAND" => Len(main'.buf) <= CMD_LEN)
    BY <1>2, <1>3, <1>7, <1>10, Lengths
  <2>3. main'.reg = "CONFIG" /\ main'.len = CFG_LEN => Len(main'.buf) = CFG_LEN
    BY <1>2, <1>3, <1>7, <1>10, Lengths
  <2>4. QED
    BY <1>9, <1>10, <2>1, <2>2, <2>3 DEF Copied
<1>12. Sending' /\ Received'
  BY <1>1, <1>2, <1>8, <1>10, SendingKept, ReceivedKept DEF MInv, Received
<1>13. Laid' /\ Stored'
  BY <1>1, <1>10 DEF MInv, Laid, Stored
<1>14. QED
  BY <1>11, <1>12, <1>13 DEF MInv

LEMMA LoopMailbox == AInv /\ MInv /\ (MainStep \/ MsTick) => MInv'
<1> SUFFICES ASSUME AInv, MInv, MainStep \/ MsTick PROVE MInv'
  OBVIOUS
<1>1. /\ {"rx_buf", "rx_len", "count"} \subseteq DOMAIN twi
      /\ {"buf", "len", "reg", "pc"} \subseteq DOMAIN main
      /\ {"mark", "hdr", "seqs"} \subseteq DOMAIN ee
      /\ ee.hdr \in Names /\ ee.seqs \in Names
      /\ main.pc # "verify" => main.buf = << >>
      /\ cfg.hdr \in Names /\ cfg.seqs \in Names
  BY DEF MInv, Laid, Copied, Stored, AInv
<1>2. CASE Consume \/ Regenerate \/ SaveHalf \/ SaveRest \/ DrawNonce \/ CopyNonce
           \/ CheckCommand \/ CheckConfig
  <2>1. /\ {"rx_buf", "rx_len", "count"} \subseteq DOMAIN twi' /\ twi'.rx_buf = twi.rx_buf
        /\ twi'.rx_len = twi.rx_len /\ twi'.count = twi.count
    BY <1>1, <1>2 DEF Consume, Regenerate, SaveHalf, SaveRest, DrawNonce, CopyNonce, CheckCommand,
                      CheckConfig
  <2>2. /\ {"mark", "hdr", "seqs"} \subseteq DOMAIN ee' /\ ee'.hdr = ee.hdr /\ ee'.seqs = ee.seqs
        /\ UNCHANGED <<host, past>>
    BY <1>1, <1>2 DEF Consume, Regenerate, SaveHalf, SaveRest, DrawNonce, CopyNonce, CheckCommand,
                      CheckConfig, Saved
  <2>3. /\ {"buf", "len", "reg", "pc"} \subseteq DOMAIN main' /\ main'.len = main.len
        /\ main'.buf = main.buf /\ main'.pc # "verify" /\ main.pc # "verify"
    <3>1. CASE Consume \/ Regenerate \/ SaveHalf \/ SaveRest \/ DrawNonce \/ CopyNonce
      BY <1>1, <3>1 DEF Consume, Regenerate, SaveHalf, SaveRest, DrawNonce, CopyNonce, Goto, At
    <3>2. CASE CheckCommand \/ CheckConfig
      <4>1. /\ main.pc \in {"command", "config"}
            /\ \/ main' = [main EXCEPT !.pc = "take", !.reg = "COMMAND"]
               \/ main' = [main EXCEPT !.pc = "take", !.reg = "CONFIG"]
               \/ main' = [main EXCEPT !.pc = "config"]
               \/ main' = [main EXCEPT !.pc = "tick"]
        BY <3>2 DEF CheckCommand, CheckConfig, At
      <4>2. QED
        BY <1>1, <4>1
    <3>3. QED
      BY <1>2, <3>1, <3>2
  <2>4. QED
    BY <1>1, <2>1, <2>2, <2>3, LoopKeeps
<1>3. CASE PersistHalf \/ PersistRest
  <2>1. /\ {"mark", "hdr", "seqs"} \subseteq DOMAIN ee' /\ ee'.hdr \in Names /\ ee'.seqs \in Names
        /\ UNCHANGED <<twi, host, past>>
    BY <1>1, <1>3 DEF PersistHalf, PersistRest
  <2>2. /\ {"buf", "len", "reg", "pc"} \subseteq DOMAIN main' /\ main'.len = main.len
        /\ main'.buf = main.buf /\ main'.pc # "verify" /\ main.pc # "verify"
    BY <1>1, <1>3 DEF PersistHalf, PersistRest, Goto, At
  <2>3. QED
    BY <1>1, <2>1, <2>2, LoopKeeps
<1>4. CASE LoopTick \/ LoopSleep \/ MsTick
  <2>1. UNCHANGED <<twi, ee, host, past>>
    BY <1>4 DEF LoopTick, LoopSleep, MsTick
  <2>2. /\ {"buf", "len", "reg", "pc"} \subseteq DOMAIN main' /\ main'.len = main.len
        /\ main'.buf = main.buf /\ main'.pc # "verify" /\ main.pc # "verify"
    BY <1>1, <1>4 DEF LoopTick, LoopSleep, MsTick, Goto, At
  <2>3. QED
    BY <1>1, <2>1, <2>2, LoopKeeps
<1>5. CASE ServiceCommand \/ ServiceConfig
  <2>1. /\ UNCHANGED <<twi, ee, host>> /\ past' \in {past, Accepted(past)}
        /\ {"buf", "len", "reg", "pc"} \subseteq DOMAIN main' /\ main'.len = 0
        /\ main'.buf = << >> /\ main'.pc # "verify"
    BY <1>1, <1>5 DEF ServiceCommand, ServiceConfig, Cleared
  <2>2. /\ {"handed", "old"} \subseteq DOMAIN past'
        /\ past'.handed = past.handed /\ past'.old = past.old
    BY <2>1 DEF Accepted, MInv, Laid
  <2>3. Chunks \subseteq Chunks'
    BY <2>1, <2>2, ChunksGrow
  <2> HIDE DEF Chunks
  <2>4. Sending' /\ Received'
    BY <2>1, <2>3, SendingKept, ReceivedKept DEF MInv, Received
  <2>5. Copied'
    BY <2>1, EmptySeq, Lengths DEF Copied
  <2>6. QED
    BY <2>1, <2>2, <2>4, <2>5 DEF MInv, Laid, Stored
<1>6. QED
  BY <1>2, <1>3, <1>4, <1>5, TakeKeeps DEF MainStep

-------------------------------------------------------------------------------
(***************************************************************************)
(* The actuator under the main loop.                                       *)
(***************************************************************************)
\* An idle board is sound whatever its configuration becomes.
LEMMA IdleKept ==
  ASSUME NEW d, Sound(d), d.active = FALSE, dev' = d
  PROVE  Sound(dev)' /\ Sampled'
<1>1. d \in Dev /\ Lit(d) /\ Quiet(d) /\ (Charged(d) => d.hot = TRUE)
  BY DEF Sound
<1>2. TRUE # FALSE
  OBVIOUS
<1>3. Sampled'
  BY <1>2, Zenon DEF Sampled
<1>4. Sound(dev)'
  BY <1>1, <1>2 DEF Sound, Lit, Quiet, Charged
<1>5. QED
  BY <1>3, <1>4

LEMMA CommandKeeps == AInv /\ ServiceCommand => AInv'
<1> SUFFICES ASSUME AInv, ServiceCommand PROVE AInv'
  OBVIOUS
<1> DEFINE cmd == main.buf[1].first
<1>1. /\ Sound(dev) /\ Sampled /\ Configured /\ seen \subseteq BOOLEAN /\ UNCHANGED cfg
  BY DEF AInv, Configured, ServiceCommand
<1>2. TRUE \in BOOLEAN /\ FALSE \in BOOLEAN
  OBVIOUS
<1>3. CASE ~CommandVerifies
  <2>1. dev' = LastCmd(dev, FALSE) /\ UNCHANGED seen
    BY <1>3 DEF ServiceCommand
  <2>2. /\ Sound(LastCmd(dev, FALSE))
        /\ LastCmd(dev, FALSE).active = dev.active /\ LastCmd(dev, FALSE).sub = dev.sub
        /\ LastCmd(dev, FALSE).armed = dev.armed /\ LastCmd(dev, FALSE).eoff_cnt = dev.eoff_cnt
    BY <1>1, <1>2, LastCmdDoes, Zenon
  <2>3. Sound(dev)'
    BY <1>1, <2>1, <2>2, SoundKept
  <2>4. Sampled'
    BY <1>1, <2>1, <2>2 DEF Sampled
  <2>5. QED
    BY <1>1, <2>1, <2>3, <2>4 DEF AInv, Configured
<1>4. CASE CommandVerifies
  <2> DEFINE d == LastCmd(dev, TRUE)
  <2>1. dev' = (IF cmd = "abort" THEN ActuateAbort(d) ELSE ActuateBegin(d, cmd)) /\ seen' = {}
    BY <1>4 DEF ServiceCommand
  <2>2. Sound(d)
    BY <1>1, <1>2, LastCmdDoes, Zenon
  <2>3. cmd \in Commands
    BY <1>4 DEF CommandVerifies
  <2> HIDE DEF d, cmd
  <2>4. CASE cmd = "abort"
    <3>1. Stepped(Finish(d))
      BY <2>2, FinishDoes DEF Sound, Stepped, Unsampled
    <3>2. dev' = Finish(d)
      BY <2>1, <2>4 DEF ActuateAbort
    <3>3. QED
      BY <1>1, <2>1, <3>1, <3>2, SteppedKept
  <2>5. CASE cmd # "abort"
    <3>1. cmd \in Directions
      BY <2>3, <2>5 DEF Commands, Directions
    <3>2. Stepped(ActuateBegin(d, cmd))
      BY <1>1, <2>2, <3>1, BeginDoes
    <3>3. QED
      BY <1>1, <2>1, <2>5, <3>2, SteppedKept
  <2>6. QED
    BY <2>4, <2>5
<1>5. QED
  BY <1>3, <1>4

\* The blob is replaced under an aborted cycle, by names of blobs.
LEMMA ConfigKeeps == AInv /\ MInv /\ ServiceConfig => AInv'
<1> SUFFICES ASSUME AInv, MInv, ServiceConfig PROVE AInv'
  OBVIOUS
<1> DEFINE hdr == main.buf[1].first
<1> DEFINE seqs == main.buf[2].first
<1>1. /\ Sound(dev) /\ Sampled /\ Configured /\ seen \subseteq BOOLEAN
  BY DEF AInv, Configured
<1>2. FALSE \in BOOLEAN /\ Magic(hdr) \in BOOLEAN
  BY DEF Magic
<1>3. CASE ~ConfigVerifies
  <2>1. dev' = LastCmd(dev, FALSE) /\ UNCHANGED <<seen, cfg>>
    BY <1>3 DEF ServiceConfig
  <2>2. /\ Sound(LastCmd(dev, FALSE))
        /\ LastCmd(dev, FALSE).active = dev.active /\ LastCmd(dev, FALSE).sub = dev.sub
        /\ LastCmd(dev, FALSE).armed = dev.armed /\ LastCmd(dev, FALSE).eoff_cnt = dev.eoff_cnt
    BY <1>1, <1>2, LastCmdDoes, Zenon
  <2>3. Sound(dev)'
    BY <1>1, <2>1, <2>2, SoundKept
  <2>4. Sampled'
    BY <1>1, <2>1, <2>2 DEF Sampled
  <2>5. QED
    BY <1>1, <2>1, <2>3, <2>4 DEF AInv, Configured
<1>4. CASE ConfigVerifies
  <2> DEFINE f == Finish(dev)
  <2> DEFINE x == LastCmd(f, Magic(hdr))
  <2>1. /\ dev' = x /\ seen' = {}
        /\ cfg' = IF Magic(hdr) THEN [hdr |-> hdr, seqs |-> seqs] ELSE cfg
    BY <1>4 DEF ServiceConfig, Quiesced, ActuateAbort
  <2>2. Sound(f) /\ f.active = FALSE
    BY <1>1, FinishDoes DEF Sound
  <2> HIDE DEF f
  <2>3. Sound(x) /\ x.active = f.active
    BY <1>2, <2>2, LastCmdDoes, Zenon
  <2> HIDE DEF x
  <2>4. hdr \in Names /\ seqs \in Names
    <3>1. /\ main.pc = "verify" /\ main.reg = "CONFIG" /\ main.len = CFG_LEN
          /\ main.buf[3] = Mac("config", main.nonce, hdr, seqs)
      BY <1>4 DEF ServiceConfig, ConfigVerifies, At
    <3>2. main.buf \in Seq(Chunks) /\ Len(main.buf) = 3
      BY <3>1, Lengths DEF MInv, Copied
    <3>3. main.buf[3] \in Chunks
      BY <3>2
    <3>4. /\ main.buf[3].key = "config"
          /\ main.buf[3].first = hdr /\ main.buf[3].second = seqs
      BY <3>1 DEF Mac
    <3>5. main.buf[3].first \in Names /\ main.buf[3].second = main.buf[3].first
      BY <3>3, <3>4, ConfigChunk DEF MInv
    <3>6. QED
      BY <3>4, <3>5
  <2>5. Sound(dev)' /\ Sampled'
    BY <2>1, <2>2, <2>3, IdleKept
  <2>6. Configured'
    BY <1>1, <2>1, <2>4 DEF Configured
  <2>7. QED
    BY <2>1, <2>5, <2>6 DEF AInv, Configured
<1>5. QED
  BY <1>3, <1>4

LEMMA LoopActuator == AInv /\ MInv /\ (MainStep \/ MsTick) => AInv'
<1> SUFFICES ASSUME AInv, MInv, MainStep \/ MsTick PROVE AInv'
  OBVIOUS
<1>1. CASE UNCHANGED avars
  <2>1. UNCHANGED <<cfg, dev, seen>> /\ Sound(dev)
    BY <1>1 DEF avars, AInv
  <2>2. QED
    BY <2>1, SoundKept DEF AInv, Sampled
<1>2. CASE LoopTick
  BY <1>2, TickPlainKeeps, TickSampleDoes DEF LoopTick, ActuateTick
<1>3. CASE LoopSleep
  BY <1>3, SenseKeeps DEF LoopSleep
<1>4. QED
  BY <1>1, <1>2, <1>3, CommandKeeps, ConfigKeeps
  DEF MainStep, MsTick, Consume, Regenerate, SaveHalf, SaveRest, DrawNonce, CopyNonce,
      CheckCommand, CheckConfig,
      TakeChallenge, PersistHalf, PersistRest

LEMMA PoweredOn ==
  ASSUME NEW charge \in Charges, charge = "12v" => ResetBleeds # TRUE
  PROVE  Sound(PowerOn(charge)) /\ PowerOn(charge).active = FALSE
<1> DEFINE d == PowerOn(charge)
<1>1. 1 \in 1 .. SEQ_STEPS
  BY CountAssumption
<1>2. d \in Dev
  BY <1>1 DEF PowerOn, Dev, Directions, Charges
<1>3. /\ d.active = FALSE /\ d.status = {} /\ d.vsol = charge
      /\ d.servo = FALSE /\ d.pulses = FALSE /\ d.hall = FALSE
      /\ d.coil = "off" /\ d.boost = "off"
  BY DEF PowerOn
<1> HIDE DEF d
<1>4. QED
  BY <1>2, <1>3 DEF Sound, Lit, Quiet, Charged, d

LEMMA ResetKeeps == AInv /\ MInv /\ Reset => AInv' /\ MInv'
<1> SUFFICES ASSUME AInv, MInv, Reset PROVE AInv' /\ MInv'
  OBVIOUS
<1> DEFINE charge == IF ResetBleeds THEN "vbat" ELSE dev.vsol
<1>1. /\ dev' = PowerOn(charge) /\ cfg' = Loaded(ee.hdr, ee.seqs) /\ seen' = {}
      /\ ee' = ee /\ twi' = Twi /\ main' = Main
      /\ host' = [host EXCEPT !.writing = FALSE, !.todo = << >>]
      /\ past' = [past EXCEPT !.old = @ \cup past.handed, !.handed = {}, !.served = {},
                              !.resets = @ + 1, !.lost = @ \/ MarkLost]
  BY DEF Reset, Restart
<1>2. charge \in Charges /\ (charge = "12v" => ResetBleeds # TRUE)
  BY BoardAssumption DEF AInv, Sound, Dev, Charges
<1> HIDE DEF charge
<1>3. Sound(dev)' /\ Sampled'
  BY <1>1, <1>2, PoweredOn, IdleKept
<1>4. Configured'
  BY <1>1, BoardAssumption DEF Configured, Loaded, MInv, Stored
<1>5. /\ {"mark", "hdr", "seqs"} \subseteq DOMAIN ee' /\ ee'.hdr = ee.hdr /\ ee'.seqs = ee.seqs
      /\ {"is", "todo"} \subseteq DOMAIN host' /\ host'.is = host.is /\ host'.todo = << >>
      /\ {"handed", "old"} \subseteq DOMAIN past'
      /\ past'.handed = {} /\ past'.old = past.old \cup past.handed
  BY <1>1 DEF MInv, Laid
<1>6. /\ {"rx_buf", "rx_len", "count"} \subseteq DOMAIN twi'
      /\ twi'.rx_buf = [i \in 1 .. RX_MAX |-> Plain("")] /\ twi'.rx_len = 0 /\ twi'.count = 0
  BY <1>1 DEF Twi
<1>7. /\ {"buf", "len", "reg", "pc"} \subseteq DOMAIN main'
      /\ main'.buf = << >> /\ main'.len = 0 /\ main'.pc = "save"
  BY <1>1 DEF Main
<1>8. Chunks \subseteq Chunks' /\ Plain("") \in Chunks
  BY <1>5, ChunksGrow, ChunkCases
<1> HIDE DEF Chunks
<1>9. Sending'
  BY <1>5, <1>8, SendingKept DEF MInv
<1>10. Received'
  <2>1. twi'.rx_buf \in [1 .. RX_MAX -> Chunks']
    BY <1>6, <1>8
  <2>2. 0 \in 0 .. RX_MAX + 1
    BY Lengths
  <2>3. twi'.rx_len \in 0 .. RX_MAX + 1 /\ twi'.count \in 0 .. RX_MAX + 1
    BY <1>6, <2>2, Zenon
  <2>4. QED
    BY <2>1, <2>3 DEF Received
<1>11. Copied'
  BY <1>7, EmptySeq, Lengths DEF Copied
<1>12. QED
  BY <1>1, <1>3, <1>4, <1>5, <1>6, <1>7, <1>9, <1>10, <1>11 DEF AInv, Configured, MInv, Laid, Stored

LEMMA BoardInit == BInit => AInv /\ MInv
<1> SUFFICES ASSUME BInit PROVE AInv /\ MInv
  OBVIOUS
<1>1. PICK m \in Masters :
        /\ ee = [mark |-> m.mark, hdr |-> m.blob, seqs |-> m.blob]
        /\ cfg = Loaded(m.blob, m.blob)
        /\ host = [is |-> m, writing |-> FALSE, todo |-> << >>, writes |-> 0]
        /\ dev = PowerOn("vbat") /\ seen = {}
        /\ twi = Twi /\ main = Main
        /\ past = [handed |-> {}, old |-> {}, served |-> {}, reads |-> 0, accepts |-> 0,
                   faults |-> 0, resets |-> 0, lost |-> FALSE]
  BY DEF BInit
<1>2. m.blob \in Names
  BY BoardAssumption
<1>3. Configured
  BY <1>1, <1>2, BoardAssumption DEF Configured, Loaded
<1>4. Sound(dev) /\ dev.active = FALSE
  BY <1>1, PoweredOn DEF Charges
<1>5. Sampled
  BY <1>4, Zenon DEF Sampled
<1>6. /\ {"mark", "hdr", "seqs"} \subseteq DOMAIN ee /\ ee.hdr = m.blob /\ ee.seqs = m.blob
      /\ {"is", "todo"} \subseteq DOMAIN host /\ host.is = m /\ host.todo = << >>
      /\ {"handed", "old"} \subseteq DOMAIN past
  BY <1>1
<1>7. /\ {"rx_buf", "rx_len", "count"} \subseteq DOMAIN twi
      /\ twi.rx_buf = [i \in 1 .. RX_MAX |-> Plain("")] /\ twi.rx_len = 0 /\ twi.count = 0
  BY <1>1 DEF Twi
<1>8. /\ {"buf", "len", "reg", "pc"} \subseteq DOMAIN main
      /\ main.buf = << >> /\ main.len = 0 /\ main.pc = "save"
  BY <1>1 DEF Main
<1>9. Plain("") \in Chunks
  BY ChunkCases
<1> HIDE DEF Chunks
<1>10. Sending
  BY <1>6, EmptySeq DEF Sending
<1>11. Received
  <2>1. twi.rx_buf \in [1 .. RX_MAX -> Chunks]
    BY <1>7, <1>9
  <2>2. 0 \in 0 .. RX_MAX + 1
    BY Lengths
  <2>3. twi.rx_len \in 0 .. RX_MAX + 1 /\ twi.count \in 0 .. RX_MAX + 1
    BY <1>7, <2>2, Zenon
  <2>4. QED
    BY <2>1, <2>3 DEF Received
<1>12. Copied
  BY <1>8, EmptySeq, Lengths DEF Copied
<1>13. QED
  BY <1>1, <1>2, <1>3, <1>4, <1>5, <1>6, <1>7, <1>8, <1>10, <1>11, <1>12
  DEF AInv, Configured, MInv, Laid, Stored

BInv == AInv /\ MInv

LEMMA BoardNext == BInv /\ [BNext]_bvars => BInv'
<1> SUFFICES ASSUME BInv, [BNext]_bvars PROVE BInv'
  OBVIOUS
<1>1. AInv /\ MInv
  BY DEF BInv
<1>2. CASE MainStep \/ MsTick
  BY <1>1, <1>2, LoopActuator, LoopMailbox DEF BInv
<1>3. CASE BusEvent
  <2>1. UNCHANGED <<cfg, dev, seen>>
    BY <1>3 DEF BusEvent, ReadNonce, BareRead, StartWrite, ReceiveChunk, Stop, BusError, avars
  <2>2. AInv'
    BY <1>1, <2>1, SoundKept DEF AInv, Sampled
  <2>3. QED
    BY <1>1, <1>3, <2>2, BusMailbox DEF BInv
<1>4. CASE TimerElapses
  <2>1. PhaseElapses /\ UNCHANGED <<twi, main, ee, host, past>>
    BY <1>4 DEF TimerElapses
  <2>2. MInv'
    BY <1>1, <2>1, MailboxSame
  <2>3. QED
    BY <1>1, <2>1, <2>2, PhaseKeeps DEF BInv
<1>5. CASE UNCHANGED bvars
  <2>1. UNCHANGED <<cfg, dev, seen>> /\ UNCHANGED <<twi, main, ee, host, past>>
    BY <1>5 DEF bvars, avars
  <2>2. AInv'
    BY <1>1, <2>1, SoundKept DEF AInv, Sampled
  <2>3. MInv'
    BY <1>1, <2>1, MailboxSame
  <2>4. QED
    BY <2>2, <2>3 DEF BInv
<1>6. QED
  BY <1>1, <1>2, <1>3, <1>4, <1>5, ResetKeeps DEF BNext, BInv

LEMMA BoardAlways == BSpec => []BInv
<1>1. BInit => BInv
  BY BoardInit DEF BInv
<1>2. QED
  BY <1>1, BoardNext, PTL DEF BSpec

LEMMA DevBooleans ==
  ASSUME BInv
  PROVE  /\ dev.active \in BOOLEAN /\ dev.servo \in BOOLEAN /\ dev.pulses \in BOOLEAN
         /\ dev.hall \in BOOLEAN /\ dev.armed \in BOOLEAN /\ dev.due \in BOOLEAN
BY DEF BInv, AInv, Sound, Dev

-------------------------------------------------------------------------------
\* Every buffer, count and field keeps its type: the mailbox both messages share
\* never overruns the main loop's copy of it (service_command and service_config,
\* main.c:74-150;
\* the interrupt, lock_twi.c:53).
THEOREM BoardTypes == BSpec => []BoardTypeOK
<1>1. BInv /\ NInv => BoardTypeOK
  <2> SUFFICES ASSUME BInv, NInv PROVE BoardTypeOK
    OBVIOUS
  <2>1. ActuatorTypeOK
    BY DEF BInv, AInv, Sound, Dev, ActuatorTypeOK
  <2>2. nonces \in [ctr : Nat, mark : Nat] /\ ee.mark \in Nat
    BY DEF NInv, Counter, Numbers
  <2>3. \A i \in 1 .. RX_MAX : twi.rx_buf[i] \in Chunks
    BY DEF BInv, MInv, Received
  <2>4. QED
    BY <2>1, <2>2, <2>3 DEF BInv, MInv, Received, Copied, BoardTypeOK
<1>2. QED
  BY <1>1, BoardAlways, NInitInv, NNextInv, PTL DEF BSpec

\* Whatever ends a cycle, a write of the configuration or a reset included, the idle
\* board drives nothing (all_off, finish and actuate_abort, actuate.c:119-149).
THEOREM IdleDrivesNothing == BSpec => []IdleIsOff
<1>1. BInv => IdleIsOff
  <2> SUFFICES ASSUME BInv, ~dev.active
               PROVE  /\ ~dev.servo /\ ~dev.pulses /\ ~dev.hall
                      /\ dev.coil = "off" /\ dev.boost = "off"
    BY DEF IdleIsOff
  <2>1. dev.active = FALSE
    BY DevBooleans
  <2>2. Quiet(dev)
    BY <2>1 DEF BInv, AInv, Sound
  <2>3. QED
    BY <2>2 DEF Quiet
<1>2. QED
  BY <1>1, BoardAlways, PTL

\* Between any two calls of the actuator engine STATUS says what the pins do, and the
\* sensors are powered through a cycle, for every sequence, abort, new configuration
\* and reset.  A call is one step: a read of STATUS that falls inside it, after a pin
\* and before its bit, is outside this theorem (actuate.c:181-189,240-241,292-293).
THEOREM StatusTells == BSpec => []StatusIsLive
<1>1. BInv => StatusIsLive
  <2> SUFFICES ASSUME BInv PROVE StatusIsLive
    OBVIOUS
  <2>1. Lit(dev)
    BY DEF BInv, AInv, Sound
  <2>2. (dev.active = TRUE <=> dev.active) /\ (dev.servo = TRUE <=> dev.servo)
        /\ (dev.hall = TRUE <=> dev.hall)
    BY DevBooleans
  <2>3. QED
    BY <2>1, <2>2 DEF Lit, StatusIsLive
<1>2. QED
  BY <1>1, BoardAlways, PTL

\* Coil and servo are driven by the step that asks for them and by no other, although
\* the sequences may be rewritten (end_run and actuate_tick, actuate.c:231-330).
THEOREM OnlyItsStepDrives == BSpec => []DrivenByItsStep
<1>1. BInv => DrivenByItsStep
  <2> SUFFICES ASSUME BInv PROVE DrivenByItsStep
    OBVIOUS
  <2>1. Sound(dev) /\ dev \in Dev
    BY DEF BInv, AInv, Sound
  <2>2. ASSUME dev.coil # "off" \/ dev.servo = TRUE
        PROVE  dev.active = TRUE /\ Cycling(dev) /\ dev.sub # "PREDRAIN" /\ Driven(dev)
    <3>1. dev.active = TRUE
      BY <2>1, <2>2 DEF Sound, Quiet, Dev
    <3>2. QED
      BY <2>1, <2>2, <3>1 DEF Sound, Cycling, InPredrain
  <2>3. ASSUME dev.coil # "off"
        PROVE  dev.active = TRUE /\ HasSol(StepOf(dev)) /\ dev.sub \in {"STRIKE", "RUN", "DRAIN"}
    BY <2>1, <2>2, <2>3 DEF Cycling, Driven, InRamp, Dev
  <2>4. ASSUME dev.servo = TRUE
        PROVE  /\ dev.active = TRUE /\ HasServo(StepOf(dev)) /\ dev.sub \in {"RAMP", "RUN"}
               /\ dev.pulses = TRUE
    <3>1. dev.pwm # TRUE
      BY <2>2, <2>4 DEF Driven
    <3>2. QED
      BY <2>1, <2>2, <2>4, <3>1 DEF Cycling, Driven, InStrike, InDrain, Dev
  <2>5. (dev.active = TRUE <=> dev.active) /\ (dev.servo = TRUE <=> dev.servo)
        /\ (dev.pulses = TRUE <=> dev.pulses)
    BY DevBooleans
  <2>6. QED
    BY <2>3, <2>4, <2>5 DEF DrivenByItsStep
<1>2. QED
  BY <1>1, BoardAlways, PTL

\* If a reset leaves the rail time to empty, the servo is never powered from the
\* charge of a strike, whatever was aborted in between
\* (s_rail_hot and actuate_begin, actuate.c:98-102 and 207-228).
THEOREM ServoNeverHot ==
  ASSUME ResetBleeds = TRUE
  PROVE  BSpec => []ServoOffHotRail
<1>1. BInv => ServoOffHotRail
  <2> SUFFICES ASSUME BInv, dev.servo PROVE dev.vsol # "12v"
    BY DEF ServoOffHotRail
  <2>1. Sound(dev) /\ dev \in Dev /\ dev.servo = TRUE
    BY DevBooleans DEF BInv, AInv, Sound
  <2>2. dev.active = TRUE
    BY <2>1 DEF Sound, Quiet, Dev
  <2>3. Cycling(dev)
    BY <2>1, <2>2 DEF Sound
  <2>4. dev.sub # "PREDRAIN" /\ dev.sub # "DRAIN"
    BY <2>1, <2>3 DEF Cycling, InPredrain, InDrain
  <2>5. ~Charged(dev)
    BY <2>1, <2>3, <2>4 DEF Cycling, Driven
  <2>6. QED
    BY <2>5 DEF Charged
<1>2. QED
  BY <1>1, BoardAlways, PTL

\* A step is cut short only by an edge of its sensor seen within it (actuate_tick,
\* actuate.c:260-277), if one sample is not enough to confirm.
THEOREM NoEdgeNoEarlyOff ==
  ASSUME CONFIRM_N > 1
  PROVE  BSpec => EarlyOffNeedsEdge
<1> DEFINE Edge == /\ ActuateTick
                   /\ dev.active /\ dev.sub = "RUN" /\ ~dev.due
                   /\ ~SameStep
                   => seen = BOOLEAN
<1>1. BInv => Edge
  <2> SUFFICES ASSUME BInv, ActuateTick, dev.active, dev.sub = "RUN", ~dev.due, ~SameStep
               PROVE  seen = BOOLEAN
    OBVIOUS
  <2>1. AInv /\ dev.active = TRUE /\ dev.due = FALSE
    BY DevBooleans DEF BInv
  <2>2. ~TickPlain
    <3> SUFFICES ASSUME TickPlain PROVE FALSE
      OBVIOUS
    <3>1. dev' = dev
      BY <2>1 DEF TickPlain, Advance
    <3>2. QED
      BY <3>1 DEF SameStep
  <2>3. PICK present \in BOOLEAN : TickSample(present)
    BY <2>2 DEF ActuateTick
  <2>4. dev.armed = TRUE /\ dev.eoff_cnt + 1 >= CONFIRM_N
    <3>1. \/ SameStep
          \/ dev.due = TRUE
          \/ dev.armed = TRUE /\ dev.eoff_cnt + 1 >= CONFIRM_N
      BY <2>1, <2>3, TickSampleDoes
    <3>2. QED
      BY <2>1, <3>1
  <2>5. dev.eoff_cnt > 0
    <3>1. dev.eoff_cnt \in Nat /\ CONFIRM_N \in Nat
      BY <2>1, CountAssumption DEF AInv, Sound, Dev
    <3>2. QED
      BY <2>4, <3>1
  <2>6. FALSE \in seen /\ TRUE \in seen
    BY <2>1, <2>4, <2>5 DEF AInv, Sampled
  <2>7. seen \subseteq BOOLEAN
    BY <2>1 DEF AInv
  <2>8. QED
    BY <2>6, <2>7
<1>2. BInv /\ [BNext]_bvars => [Edge]_avars
  BY <1>1
<1>3. QED
  BY <1>2, BoardAlways, PTL DEF BSpec, EarlyOffNeedsEdge
===============================================================================
