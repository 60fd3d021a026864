----------------------------- MODULE GeneratorProofs -----------------------------
(***************************************************************************)
(* What the generator's task promises, for every ring of keys, window,     *)
(* deadline and staleness limit, however late its polls are and wherever   *)
(* the fixes set the clock.                                                *)
(***************************************************************************)
EXTENDS GeneratorTask, TLAPS

FixType == [inside : BOOLEAN, age : Age(Staleness + 1), corrections : Nat]

\* Nothing is shown before the clock is disciplined.
Clock ==
  /\ now \in 0 .. MaxTime
  /\ now = 0 => shown = NoShow

\* The fence latch is the last fix's, and while it is open the clock's last sync is
\* that fix.
Latch ==
  /\ fix \in FixType
  /\ gate.in_fence = fix.inside
  /\ gate.in_fence => gate.sync = fix.age

\* Because no ritual is dialed in an open window, the window is the one of the last
\* ritual that fired.
Window ==
  /\ last_unlock \in Int /\ last_duress \in Int
  /\ unlocked_until \in {last_unlock + UnlockWindow, last_duress + UnlockWindow}

GInv == TaskTypeOK /\ Clock /\ Latch /\ Window /\ EmitsOnFreshFix /\ EmitsInWindow

LEMMA Numbers ==
  /\ UnlockWindow \in Nat /\ MaxTime \in Nat \ {0} /\ Epoch \in Nat \ {0}
  /\ HOLD \in Nat \ {0} /\ DOUBLE \in Nat \ {0} /\ MAX_DIAL \in Nat \ {0}
  /\ RevealS \in Nat \ {0} /\ Staleness \in Nat \ {0} /\ MaxGap \in Nat \ {0}
  /\ Never \in Int /\ Never + UnlockWindow = 0
  /\ Len(KeyRing) \in Nat \ {0} /\ DOMAIN KeyRing = 1 .. Len(KeyRing)
  /\ \A i \in DOMAIN KeyRing : KeyRing[i] \in Keys \cup {"none"}
<1>1. Len(KeyRing) \in Nat /\ Len(KeyRing) # 0 /\ DOMAIN KeyRing = 1 .. Len(KeyRing)
  BY TaskAssumption
<1>2. \A i \in DOMAIN KeyRing : KeyRing[i] \in Keys \cup {"none"}
  BY TaskAssumption
<1>3. QED
  BY <1>1, <1>2, TaskAssumption, RevealAssumption DEF Never

LEMMA OlderType ==
  ASSUME NEW limit \in Nat, NEW age \in Age(limit)
  PROVE  Older(age, limit) \in Age(limit)
BY DEF Age, Older, None

LEMMA SelectedType ==
  ASSUME TaskTypeOK, NEW turn \in {"none", "left", "right"}
  PROVE  Selected(turn) \in DOMAIN KeyRing
<1>1. Len(KeyRing) \in Nat \ {0} /\ DOMAIN KeyRing = 1 .. Len(KeyRing)
  BY Numbers
<1>2. ui.sel \in 1 .. Len(KeyRing)
  BY <1>1 DEF TaskTypeOK
<1> DEFINE from == IF ui.unlocked THEN ui.sel ELSE 1
<1>3. from \in 1 .. Len(KeyRing)
  BY <1>1, <1>2
<1> HIDE DEF from
<1>4. Turned(from, turn) \in 1 .. Len(KeyRing)
  <2>1. CASE turn = "left"
    BY <1>1, <1>3, <2>1 DEF Turned
  <2>2. CASE turn = "right"
    BY <1>1, <1>3, <2>2 DEF Turned
  <2>3. CASE turn = "none"
    BY <1>3, <2>3 DEF Turned
  <2>4. QED
    BY <2>1, <2>2, <2>3
<1>5. QED
  BY <1>1, <1>2, <1>4 DEF Selected, from

LEMMA GInit == TInit => GInv
<1> SUFFICES ASSUME TInit PROVE GInv
  OBVIOUS
<1>1. TaskTypeOK
  BY Numbers, TaskAssumption DEF TInit, TaskTypeOK, Age, None
<1>2. Clock /\ Latch /\ Window
  BY Numbers DEF TInit, Clock, Latch, Window, FixType, Age, None
<1>3. EmitsOnFreshFix /\ EmitsInWindow
  BY DEF TInit, EmitsOnFreshFix, EmitsInWindow
<1>4. QED
  BY <1>1, <1>2, <1>3 DEF GInv

-------------------------------------------------------------------------------
\* What a poll does to the gate and the screen: a ritual in a shut window, a reveal
\* on the last fix, or nothing.
LEMMA PollGate ==
  ASSUME GInv, NEW turn \in {"none", "left", "right"}, NEW c \in BOOLEAN, Poll(turn, c)
  PROVE  \/ has_ritual /\ (RitualUnlocks \/ RitualUnderDuress)
         \/ /\ may_emit /\ now # 0 /\ Unlocked
            /\ \E k \in Keys : RevealTwin(k) \/ RevealReal(k) \/ RevealRefused(k)
         \/ Quiet
<1>1. CASE Submits(c)
  BY <1>1 DEF Poll, Submits, SubmitCode, Unlocked, RitualUnlocks, RitualUnderDuress
<1>2. CASE ~Submits(c) /\ Asks(c)
  <2>1. Selected(turn) \in DOMAIN KeyRing
    BY SelectedType DEF GInv
  <2>2. RevealSelected(Selected(turn)) /\ Unlocked
    BY <1>2 DEF Poll, Asks
  <2>3. CASE Quiet
    BY <2>3
  <2>4. CASE /\ may_emit /\ now # 0 /\ KeyRing[Selected(turn)] # "none"
             /\ LET k == KeyRing[Selected(turn)]
                IN  RevealTwin(k) \/ RevealReal(k) \/ RevealRefused(k)
    <3>1. KeyRing[Selected(turn)] \in Keys
      BY <2>1, <2>4, Numbers
    <3>2. QED
      BY <2>2, <2>4, <3>1
  <2>5. QED
    BY <2>2, <2>3, <2>4 DEF RevealSelected
<1>3. CASE ~Submits(c) /\ ~Asks(c)
  BY <1>3 DEF Poll
<1>4. QED
  BY <1>1, <1>2, <1>3

LEMMA PollType ==
  ASSUME GInv, NEW turn \in {"none", "left", "right"}, NEW c \in BOOLEAN, Poll(turn, c)
  PROVE  TaskTypeOK'
<1> USE Numbers
<1>1. Selected(turn) \in DOMAIN KeyRing
  BY SelectedType DEF GInv
<1>2. Pressed(c) \in Age(HOLD) /\ FiredBefore(c) \in BOOLEAN /\ Held(c) \in BOOLEAN
  <2>1. 0 \in Age(HOLD) /\ ui.press \in Age(HOLD) /\ ui.fired \in BOOLEAN
    BY DEF GInv, TaskTypeOK, Age
  <2>2. Pressed(c) \in Age(HOLD) /\ FiredBefore(c) \in BOOLEAN
    BY <2>1 DEF Pressed, FiredBefore
  <2>3. Held(c) \in BOOLEAN
    BY Zenon DEF Held
  <2>4. QED
    BY <2>2, <2>3
<1>3. Pending(c) \in Age(DOUBLE)
  BY DEF GInv, TaskTypeOK, Pending, Tap, Double, Age, None
<1>4. Dialed(c) \in 0 .. MAX_DIAL
  <2> DEFINE held == IF Held(c) THEN 0 ELSE ui.dial
             back == IF Double(c) /\ held > 0 THEN held - 1 ELSE held
  <2>1. held \in 0 .. MAX_DIAL /\ ui.dial \in 0 .. MAX_DIAL
    BY DEF GInv, TaskTypeOK
  <2>2. back \in 0 .. MAX_DIAL
    BY <2>1
  <2>3. QED
    BY <2>1, <2>2 DEF Dialed
<1>5. Holds \in Age(RevealS)
  BY DEF GInv, TaskTypeOK, Holds, HoldOver, Age, None
<1>6. View(Holds) \in {"blank", "reveal", "unlocked", "searching", "dialing"}
  BY DEF View
<1>7. Unlocked \in BOOLEAN
  BY DEF Unlocked, is_unlocked
<1>8. None \in Age(HOLD) /\ None \in Age(DOUBLE)
  BY DEF Age
<1>9. QED
  BY <1>1, <1>2, <1>3, <1>4, <1>5, <1>6, <1>7, <1>8 DEF Poll, GInv, TaskTypeOK

LEMMA PollStep ==
  ASSUME GInv, NEW turn \in {"none", "left", "right"}, NEW c \in BOOLEAN, Poll(turn, c)
  PROVE  GInv'
<1> USE Numbers
<1>1. TaskTypeOK' /\ UNCHANGED <<has_ritual, gate, fix>>
  BY PollType DEF Poll
<1>2. Latch'
  BY <1>1 DEF GInv, Latch
<1>3. now' = now /\ (shown' = NoShow => EmitsOnFreshFix' /\ EmitsInWindow')
  BY PollGate DEF RitualUnlocks, RitualUnderDuress, OpenWindow, OpenUnderDuress, Quiet,
     RevealTwin, RevealReal, RevealRefused, EmitsOnFreshFix, EmitsInWindow
<1>4. CASE RitualUnlocks \/ RitualUnderDuress
  <2>1. shown' = NoShow
    BY <1>4 DEF RitualUnlocks, RitualUnderDuress, OpenWindow, OpenUnderDuress
  <2>2. Window'
    BY <1>4 DEF GInv, Window, Clock, is_unlocked, RitualUnlocks, RitualUnderDuress, OpenWindow,
       OpenUnderDuress, UnlockedInDuress
  <2>3. QED
    BY <1>1, <1>2, <1>3, <2>1, <2>2 DEF GInv, Clock
<1>5. CASE Quiet
  BY <1>1, <1>2, <1>3, <1>5 DEF GInv, Clock, Window, Quiet, gen, history
<1>6. CASE /\ may_emit /\ now # 0 /\ Unlocked
           /\ \E k \in Keys : RevealTwin(k) \/ RevealReal(k) \/ RevealRefused(k)
  <2>1. UNCHANGED <<unlocked_until, last_unlock, last_duress>>
    BY <1>6 DEF RevealTwin, RevealReal, RevealRefused, gen, history
  <2>2. Window' /\ Clock'
    BY <1>3, <1>6, <2>1 DEF GInv, Window, Clock
  <2>3. EmitsOnFreshFix'
    BY <1>1, <1>6 DEF GInv, Latch, EmitsOnFreshFix, may_emit, IsFresh
  <2>4. EmitsInWindow'
    <3> SUFFICES ASSUME has_ritual
                 PROVE  \E last \in {last_unlock, last_duress} :
                          last # Never /\ now < last + UnlockWindow
      BY <1>1, <1>3, <2>1 DEF EmitsInWindow
    <3>1. now < unlocked_until /\ now \in Nat
      BY <1>6 DEF Unlocked, is_unlocked, GInv, Clock
    <3>2. PICK last \in {last_unlock, last_duress} : unlocked_until = last + UnlockWindow
      BY DEF GInv, Window
    <3>3. last # Never
      BY <3>1, <3>2
    <3>4. QED
      BY <3>1, <3>2, <3>3
  <2>5. QED
    BY <1>1, <1>2, <2>2, <2>3, <2>4 DEF GInv
<1>7. QED
  BY <1>4, <1>5, <1>6, PollGate

LEMMA FixStep ==
  ASSUME GInv, NEW valid \in BOOLEAN, NEW in_zone \in BOOLEAN, NEW t \in Epoch .. MaxTime,
         Fix(valid, in_zone, t)
  PROVE  GInv'
<1> USE Numbers
<1>1. TaskTypeOK'
  BY DEF GInv, TaskTypeOK, Fix, Age
<1>2. fix' \in FixType
  BY DEF GInv, Latch, FixType, Fix, Age
<1>3. Latch'
  BY <1>2 DEF GInv, Latch, Fix, TaskTypeOK
<1>4. Clock' /\ Window' /\ EmitsOnFreshFix' /\ EmitsInWindow'
  <2>1. shown' = NoShow /\ UNCHANGED <<unlocked_until, last_unlock, last_duress>>
    BY DEF Fix, gen, history
  <2>2. Clock'
    BY <2>1 DEF GInv, Clock, Fix
  <2>3. Window' /\ EmitsOnFreshFix' /\ EmitsInWindow'
    BY <2>1 DEF GInv, Window, EmitsOnFreshFix, EmitsInWindow
  <2>4. QED
    BY <2>2, <2>3
<1>5. QED
  BY <1>1, <1>3, <1>4 DEF GInv

LEMMA SecondStep == GInv /\ Second => GInv'
<1> SUFFICES ASSUME GInv, Second PROVE GInv'
  OBVIOUS
<1> USE Numbers
<1>1. /\ Older(gate.sync, Staleness + 1) \in Age(Staleness + 1)
      /\ Older(fix.age, Staleness + 1) \in Age(Staleness + 1)
      /\ Older(ui.hold, RevealS) \in Age(RevealS)
  BY OlderType DEF GInv, TaskTypeOK, Latch, FixType
<1>2. TaskTypeOK'
  BY <1>1 DEF GInv, TaskTypeOK, Second
<1>3. Latch'
  BY <1>1 DEF GInv, Latch, FixType, TaskTypeOK, Second
<1>4. Clock' /\ Window' /\ EmitsOnFreshFix' /\ EmitsInWindow'
  <2>1. shown' = NoShow /\ UNCHANGED <<unlocked_until, last_unlock, last_duress>>
    BY DEF Second, gen, history
  <2>2. Clock'
    BY <2>1 DEF GInv, Clock, Second
  <2>3. Window' /\ EmitsOnFreshFix' /\ EmitsInWindow'
    BY <2>1 DEF GInv, Window, EmitsOnFreshFix, EmitsInWindow
  <2>4. QED
    BY <2>2, <2>3
<1>5. QED
  BY <1>2, <1>3, <1>4 DEF GInv

LEMMA ElapseStep == GInv /\ Elapse => GInv'
<1> SUFFICES ASSUME GInv, Elapse PROVE GInv'
  OBVIOUS
<1> USE Numbers
<1>1. Older(ui.press, HOLD) \in Age(HOLD) /\ Older(ui.tap, DOUBLE) \in Age(DOUBLE)
  BY OlderType DEF GInv, TaskTypeOK
<1>2. TaskTypeOK'
  <2>1. ui.since \in 0 .. MaxGap /\ ui.since + 1 \in 0 .. MaxGap
    BY DEF GInv, TaskTypeOK, Elapse
  <2>2. ui' = [ui EXCEPT !.since = ui.since + 1, !.press = Older(ui.press, HOLD),
                         !.tap = Older(ui.tap, DOUBLE)]
    BY DEF Elapse
  <2>3. UNCHANGED <<has_ritual, gate>>
    BY DEF Elapse
  <2>4. QED
    BY <1>1, <2>1, <2>2, <2>3 DEF GInv, TaskTypeOK
<1>3. Latch' /\ Clock' /\ Window' /\ EmitsOnFreshFix' /\ EmitsInWindow'
  BY DEF GInv, Latch, Clock, Window, EmitsOnFreshFix, EmitsInWindow, Elapse, Quiet, gen, history
<1>4. QED
  BY <1>2, <1>3 DEF GInv

LEMMA GNext == GInv /\ [TNext]_gtvars => GInv'
<1> SUFFICES ASSUME GInv, [TNext]_gtvars PROVE GInv'
  OBVIOUS
<1>1. CASE UNCHANGED gtvars
  BY <1>1 DEF gtvars, rvars, gen, history, GInv, TaskTypeOK, Clock, Latch, Window,
     EmitsOnFreshFix, EmitsInWindow
<1>2. QED
  BY <1>1, PollStep, FixStep, SecondStep, ElapseStep DEF TNext, SomePoll

-------------------------------------------------------------------------------
\* The task's locals stay in range: the selection on the ring, the dial within its
\* digits, every age below its deadline.
THEOREM TaskTypes == TSpec => []TaskTypeOK
<1>1. GInv => TaskTypeOK
  BY DEF GInv
<1>2. QED
  BY <1>1, GInit, GNext, PTL DEF TSpec

\* Every code shown rests on the last fix received: valid, inside a fence and fresh
\* (may_emit, gate.rs:74-79).
THEOREM FreshFixOnly == TSpec => []EmitsOnFreshFix
<1>1. GInv => EmitsOnFreshFix
  BY DEF GInv
<1>2. QED
  BY <1>1, GInit, GNext, PTL DEF TSpec

\* On a device with a ritual every code shown lies in the window of the last one
\* ("the reveal window is authoritative", generator.rs:119).
THEOREM WindowOnly == TSpec => []EmitsInWindow
<1>1. GInv => EmitsInWindow
  BY DEF GInv
<1>2. QED
  BY <1>1, GInit, GNext, PTL DEF TSpec

\* The task drives the reveal gate by its rules only, a ritual in a shut window
\* among them: whatever RevealGate promises of such steps holds of the device.
THEOREM KeepsGate == TSpec => TaskKeepsGate
<1>1. GInv /\ [TNext]_gtvars => [RNext]_rvars
  <2> SUFFICES ASSUME GInv, [TNext]_gtvars PROVE [RNext]_rvars
    OBVIOUS
  <2> USE Numbers
  <2>1. ASSUME UNCHANGED <<next_seq, slips, gen, history>>, shown' = NoShow,
               now' = now \/ now' \in 1 .. MaxTime
        PROVE  [RNext]_rvars
    <3>1. CASE now' \in 1 .. MaxTime
      BY <2>1, <3>1 DEF ClockReads, RNext
    <3>2. CASE now' = 0 /\ now' = now
      BY <2>1, <3>2 DEF GInv, Clock, rvars
    <3>3. QED
      BY <2>1, <3>1, <3>2 DEF GInv, Clock
  <2>2. ASSUME NEW turn \in {"none", "left", "right"}, NEW c \in BOOLEAN, Poll(turn, c)
        PROVE  [RNext]_rvars
    BY <2>1, <2>2, PollGate DEF RNext, Quiet
  <2>3. ASSUME NEW valid \in BOOLEAN, NEW in_zone \in BOOLEAN, NEW t \in Epoch .. MaxTime,
               Fix(valid, in_zone, t)
        PROVE  [RNext]_rvars
    BY <2>1, <2>3 DEF Fix
  <2>4. CASE Second
    BY <2>1, <2>4 DEF Second, GInv, Clock
  <2>5. CASE Elapse
    BY <2>1, <2>5 DEF Elapse, Quiet
  <2>6. CASE UNCHANGED gtvars
    BY <2>6 DEF gtvars
  <2>7. QED
    BY <2>2, <2>3, <2>4, <2>5, <2>6 DEF TNext, SomePoll
<1>2. QED
  BY <1>1, GInit, GNext, PTL DEF TSpec, TaskKeepsGate
===============================================================================
