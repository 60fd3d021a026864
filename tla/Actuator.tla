------------------------------ MODULE Actuator ------------------------------
(***************************************************************************)
(* The lock board's actuator engine (src/firmware/lock-attiny/src/         *)
(* actuate.c) over the pins its drivers own (power.c, solenoid.c, servo.c, *)
(* hall.c).  A cycle runs the UNLOCK or the LOCK sequence of the live      *)
(* configuration; every step picks a rail, rides it up, drives the servo,  *)
(* the solenoid or both, and drains the rail before the next step.         *)
(*                                                                         *)
(* Time is abstract: a sub-phase has elapsed (`due`) or not.  The two      *)
(* servos are one, pulse widths and duty cycles are left out, and the      *)
(* early-off counters are scaled by the constants.                         *)
(*                                                                         *)
(* A call of the engine is one step, and a state is one between two calls: *)
(* a STATUS read that the bus interrupt takes inside a call, after a pin   *)
(* was driven and before its bit is set, is not modelled.                  *)
(***************************************************************************)
EXTENDS Naturals

CONSTANTS
  Blob,          \* name -> configuration: the blobs the board may be sent
  SEQ_STEPS,     \* steps in a sequence
  ARM_N,         \* opposite samples that arm an early-off
  CONFIRM_N,     \* level of the integrator that fires it
  MISS_PENALTY   \* what one opposite sample takes off it

Names == DOMAIN Blob
Directions == {"unlock", "lock"}

\* act = {} ends a sequence.  `timed`: dur_ds > 0.
Steps ==
  [act: SUBSET {"servo", "sol"}, timed: BOOLEAN, eoff: {"none", "present", "absent"}]

ASSUME BlobAssumption ==
  \A n \in Names :
    /\ Blob[n].boost \in BOOLEAN
    /\ Blob[n].strike \in BOOLEAN
    /\ \A s \in Directions : Blob[n][s] \in [1 .. SEQ_STEPS -> Steps]

ASSUME CountAssumption ==
  /\ SEQ_STEPS \in Nat \ {0}
  /\ {ARM_N, CONFIRM_N, MISS_PENALTY} \subseteq Nat \ {0}

VARIABLES
  cfg,   \* s_cfg: the blobs its header and its sequences were copied from
  dev,   \* the engine's statics, the pins, the status byte and the rail
  seen   \* history: what the early-off sampler saw since the step began

avars == <<cfg, dev, seen>>

Live(s) == Blob[cfg.seqs][s]
StepOf(d) == Live(d.seq)[d.idx]
HasServo(st) == "servo" \in st.act
HasSol(st) == "sol" \in st.act

\* Pins low, engine idle; only the charge on the rail outlives a reset.
PowerOn(charge) ==
  [active |-> FALSE, seq |-> "unlock", idx |-> 1, sub |-> "RUN", due |-> FALSE,
   timer |-> FALSE, rail |-> "vbat", pwm |-> FALSE, hot |-> FALSE,
   armed |-> FALSE, arm_cnt |-> 0, eoff_cnt |-> 0,
   servo |-> FALSE, pulses |-> FALSE, coil |-> "off", boost |-> "off", hall |-> FALSE,
   status |-> {}, vsol |-> charge]

-------------------------------------------------------------------------------
(***************************************************************************)
(* Drivers.                                                                *)
(***************************************************************************)
ServoOn(d) == [d EXCEPT !.servo = TRUE, !.status = @ \cup {"servo"}]
ServoOff(d) == [d EXCEPT !.servo = FALSE, !.pulses = FALSE, !.status = @ \ {"servo"}]

\* While TCD0 drives the pin, writing the port does not reach the coil.
SolOff(d) == [d EXCEPT !.coil = IF @ = "pwm" THEN "pwm" ELSE "off"]
SolOn(d) == [d EXCEPT !.coil = "dc", !.status = @ \cup {"sol"}]
SolHoldStart(d) == [d EXCEPT !.coil = "pwm"]
\* Hands the pin back to the port, high: the coil conducts for the drain.
SolHoldStop(d) == [d EXCEPT !.coil = "dc"]

Boost12(d) == [d EXCEPT !.boost = "12v", !.vsol = "12v", !.hot = TRUE,
                        !.status = @ \cup {"rail12"}]
Boost6(d) == [d EXCEPT !.boost = "6v", !.vsol = IF @ = "12v" THEN @ ELSE "6v",
                       !.hot = TRUE, !.status = @ \ {"rail12"}]
BoostOff(d) == [d EXCEPT !.boost = "off", !.status = @ \ {"rail12"}]

\* hall_read pulses the supply and leaves it off: in a cycle it is not used.
HallRead(d) == [d EXCEPT !.hall = FALSE]
RefreshHall_Pulsed(d) == HallRead(d)
RefreshHall(d) == IF d.active THEN d ELSE HallRead(d)

-------------------------------------------------------------------------------
(***************************************************************************)
(* The engine.                                                             *)
(***************************************************************************)
\* TCB0, whose interrupt counts milliseconds and wakes the loop.
TickStart_Forgotten(d) == d
TickStart(d) == [d EXCEPT !.timer = TRUE]

SubEnter(d, sub, timed) == [d EXCEPT !.sub = sub, !.due = ~timed]

AllOff_Swapped(d) ==
  [BoostOff(SolHoldStop(SolOff(ServoOff(d)))) EXCEPT !.status = @ \ {"sol"}]

\* The hold is stopped first: that hands the coil's pin back high.
AllOff(d) ==
  [BoostOff(SolOff(SolHoldStop(ServoOff(d)))) EXCEPT !.status = @ \ {"sol"}]

Finish(d) ==
  [AllOff(d) EXCEPT !.hall = FALSE, !.active = FALSE, !.timer = FALSE,
                    !.status = @ \ {"busy"}]

RailOf(st) ==
  CASE HasSol(st) /\ HasServo(st) -> "6v"
    [] HasSol(st) /\ ~HasServo(st) -> "12v"
    [] ~HasSol(st) -> IF HasServo(st) /\ Blob[cfg.hdr].boost THEN "6v" ELSE "vbat"

FreshSampler_Kept(d) == d
FreshSampler(d) == [d EXCEPT !.armed = FALSE, !.arm_cnt = 0, !.eoff_cnt = 0]

StepEnter(d, i) ==
  LET st == Live(d.seq)[i]
      e == [FreshSampler(d) EXCEPT !.idx = i, !.rail = RailOf(st), !.pwm = RailOf(st) = "12v",
                                   !.pulses = @ \/ HasServo(st)]
      powered(f) == IF HasServo(st) THEN ServoOn(f) ELSE f
  IN  CASE RailOf(st) = "12v" -> SubEnter(Boost12(ServoOff(e)), "RAMP", TRUE)
        [] RailOf(st) = "6v" -> SubEnter(powered(Boost6(e)), "RAMP", TRUE)
        [] RailOf(st) = "vbat" -> SubEnter(powered(BoostOff(e)), "RUN", st.timed)

StepAdvance(d) ==
  IF d.idx + 1 > SEQ_STEPS \/ Live(d.seq)[d.idx + 1].act = {}
    THEN Finish(d)
    ELSE StepEnter(d, d.idx + 1)

ActuateAbort(d) == Finish(d)

\* A rail an aborted boost may have left charged is bled before the first step.
NeedsPredrain_Never(d) == FALSE
NeedsPredrain(d) == d.hot

ActuateBegin(d, s) ==
  LET e == [TickStart(AllOff(d)) EXCEPT !.status = @ \cup {"busy"}, !.hall = TRUE,
                                        !.seq = s, !.active = TRUE]
  IN  CASE Live(s)[1].act = {} -> Finish(e)
        [] Live(s)[1].act # {} /\ NeedsPredrain(d) ->
             SubEnter([e EXCEPT !.idx = 1], "PREDRAIN", TRUE)
        [] Live(s)[1].act # {} /\ ~NeedsPredrain(d) -> StepEnter(e, 1)

Drain(d) == SubEnter(BoostOff(d), "DRAIN", TRUE)

EndRun(d) ==
  LET e == IF HasServo(StepOf(d)) THEN ServoOff(d) ELSE d
      f == IF HasSol(StepOf(d)) /\ d.pwm THEN SolHoldStop(e) ELSE e
  IN  IF d.rail = "vbat" THEN StepAdvance(f) ELSE Drain(f)

Wanted(d, present) == IF StepOf(d).eoff = "absent" THEN ~present ELSE present

\* One sample: arm on ARM_N opposite ones in a row, then integrate.
EarlyOff(d, present) ==
  CASE ~d.armed /\ ~Wanted(d, present) ->
         [d EXCEPT !.arm_cnt = @ + 1, !.armed = d.arm_cnt + 1 >= ARM_N]
    [] ~d.armed /\ Wanted(d, present) -> [d EXCEPT !.arm_cnt = 0]
    [] d.armed /\ Wanted(d, present) ->
         [d EXCEPT !.eoff_cnt = @ + 1, !.due = @ \/ d.eoff_cnt + 1 >= CONFIRM_N]
    [] d.armed /\ ~Wanted(d, present) ->
         [d EXCEPT !.eoff_cnt = IF @ > MISS_PENALTY THEN @ - MISS_PENALTY ELSE 0]

SubElapsed(d) ==
  LET st == StepOf(d)
  IN  CASE d.sub = "PREDRAIN" -> StepEnter([d EXCEPT !.hot = FALSE], 1)
        [] d.sub = "RAMP" ->
             IF HasSol(st) THEN IF d.pwm THEN SubEnter(SolOn(d), "STRIKE", Blob[cfg.hdr].strike)
                                         ELSE SubEnter(SolOn(d), "RUN", st.timed)
                           ELSE SubEnter(d, "RUN", st.timed)
        [] d.sub = "STRIKE" ->
             IF st.timed THEN SubEnter(SolHoldStart(d), "RUN", TRUE) ELSE Drain(d)
        [] d.sub = "RUN" -> EndRun(d)
        [] d.sub = "DRAIN" ->
             StepAdvance([(IF HasSol(st) THEN [SolOff(d) EXCEPT !.status = @ \ {"sol"}] ELSE d)
                            EXCEPT !.hot = FALSE])

Samples(d) == d.active /\ d.sub = "RUN" /\ StepOf(d).eoff # "none"

Advance(d) == IF d.due THEN SubElapsed(d) ELSE d

-------------------------------------------------------------------------------
(***************************************************************************)
(* Steps of the engine; LockBoard says when the main loop takes them.      *)
(***************************************************************************)
\* The step a tick leaves: its samples are forgotten with it.
SameStep == dev'.active /\ dev'.sub = "RUN" /\ dev'.idx = dev.idx

TickPlain ==
  /\ dev' = IF dev.active THEN Advance(dev) ELSE dev
  /\ seen' = IF SameStep THEN seen ELSE {}
  /\ UNCHANGED cfg

\* A tick on which the early-off sampler is due as well.
TickSample(present) ==
  /\ Samples(dev)
  /\ dev' = Advance(EarlyOff(dev, present))
  /\ seen' = IF SameStep THEN seen \cup {Wanted(dev, present)} ELSE {}
  /\ UNCHANGED cfg

ActuateTick == TickPlain \/ \E present \in BOOLEAN : TickSample(present)

\* The millisecond timer reaches the end of the sub-phase.  SOL_DRAIN_MS with
\* the coil conducting, or PREDRAIN_MS without, is enough to empty the rail.
PhaseElapses ==
  /\ dev.active /\ dev.timer /\ ~dev.due
  /\ dev' = [dev EXCEPT !.due = TRUE,
                        !.vsol = IF \/ dev.sub = "PREDRAIN"
                                    \/ dev.sub = "DRAIN" /\ dev.coil # "off"
                                   THEN "vbat" ELSE @]
  /\ UNCHANGED <<cfg, seen>>

Sense ==
  /\ dev' = RefreshHall(dev)
  /\ UNCHANGED <<cfg, seen>>

\* A reset: pins float low, the statics are cleared, the EEPROM blob is read
\* back.  `charge` is what is left on the rail.
Restart(blob, charge) ==
  /\ dev' = PowerOn(charge)
  /\ cfg' = blob
  /\ seen' = {}

-------------------------------------------------------------------------------
(***************************************************************************)
(* Properties.                                                             *)
(***************************************************************************)
Charges == {"vbat", "6v", "12v"}

ActuatorTypeOK ==
  /\ cfg \in [hdr: Names, seqs: Names]
  /\ seen \subseteq BOOLEAN
  /\ dev \in [active: BOOLEAN, seq: Directions, idx: 1 .. SEQ_STEPS,
              sub: {"PREDRAIN", "RAMP", "STRIKE", "RUN", "DRAIN"}, due: BOOLEAN,
              timer: BOOLEAN, rail: Charges, pwm: BOOLEAN, hot: BOOLEAN,
              armed: BOOLEAN, arm_cnt: Nat, eoff_cnt: Nat,
              servo: BOOLEAN, pulses: BOOLEAN, coil: {"off", "dc", "pwm"},
              boost: {"off", "6v", "12v"}, hall: BOOLEAN,
              status: SUBSET {"busy", "servo", "sol", "rail12", "ok"}, vsol: Charges]

\* The servo hangs on the rail the solenoid needs at 12 V: it is never powered
\* while that rail holds the charge of a strike, whatever was aborted before
\* ("a new cycle never powers a servo on a still-charged rail",
\* actuate.c:99-101; power.h:12-14).
ServoOffHotRail == dev.servo => dev.vsol # "12v"

\* Whatever ends a cycle, an idle board drives nothing: no supply, no pulses, no
\* coil, no boost, no sensor power ("force every actuator/rail off so nothing
\* can stay energized", actuate.c:144-145).
IdleIsOff ==
  ~dev.active =>
    /\ ~dev.servo /\ ~dev.pulses /\ ~dev.hall
    /\ dev.coil = "off" /\ dev.boost = "off"

\* The coil conducts only in a step that drives it, from its strike to the end
\* of its drain, and the servo is powered only in a step that moves it: even if
\* the configuration is rewritten in between (main.c:141-142: a change mid-step
\* "could strand an actuator on").
DrivenByItsStep ==
  /\ dev.coil # "off" =>
       dev.active /\ HasSol(StepOf(dev)) /\ dev.sub \in {"STRIKE", "RUN", "DRAIN"}
  /\ dev.servo =>
       dev.active /\ HasServo(StepOf(dev)) /\ dev.sub \in {"RAMP", "RUN"} /\ dev.pulses

\* Between two calls of the engine the live bits of STATUS say what the pins do:
\* no path through a cycle, an abort, a new configuration or a reset leaves a pin
\* and its bit apart, and the sensors are powered for the whole of a cycle.  Within
\* a call a pin goes before its bit (actuate.c:181-183,189,292-293), and a read that
\* falls between them still sees the bit as it was.
StatusIsLive ==
  /\ "busy" \in dev.status <=> dev.active
  /\ "servo" \in dev.status <=> dev.servo
  /\ "sol" \in dev.status <=> dev.coil # "off"
  /\ "rail12" \in dev.status <=> dev.boost = "12v"
  /\ dev.active => dev.hall

\* A step ends before its time only on an edge seen within that step: its sensor
\* in the opposite state, then in the wanted one (actuate.c:69-72: "wrong-from-
\* the-start, broken, or disconnected never arms").
EarlyOffNeedsEdge ==
  [][ /\ ActuateTick
      /\ dev.active /\ dev.sub = "RUN" /\ ~dev.due
      /\ ~SameStep
      => seen = BOOLEAN ]_avars
===============================================================================
