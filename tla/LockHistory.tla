------------------------------ MODULE LockHistory ------------------------------
(***************************************************************************)
(* LockEngine with history variables: which codes each open round is made  *)
(* of, which codes completed the last one, and when a veto slot was armed. *)
(* They are computed from what was typed and what enter_code_with answered *)
(* (and, for the newest code a slot has accepted, its replay watermark),   *)
(* not from the compressed round the engine keeps, so the properties below *)
(* say that this state (a count, a last counter, a mask, a window start)   *)
(* is enough to enforce what policy.rs promises of each policy.            *)
(***************************************************************************)
EXTENDS LockEngine

VARIABLES
  trail,      \* trail[i]: the codes counted in slot i's open round
  evidence,   \* the round the last call completed, if it completed one
  consumed,   \* consumed[i]: highest counter of a completed round of slot i
  armed_at    \* armed_at[i]: when slot i was last armed and not yet resolved

hvars == <<vars, trail, evidence, consumed, armed_at>>

NoEvidence == [slot |-> 0, round |-> << >>]

HInit ==
  /\ Init
  /\ trail = [i \in Slots |-> << >>]
  /\ evidence = NoEvidence
  /\ consumed = [i \in Slots |-> 0]
  /\ armed_at = [i \in Slots |-> NotArmed]

Completes == outcome'.kind \in {"Fired", "Armed", "Exhausted"}
Counts(i) == outcome'.slot = i /\ (Completes \/ outcome'.kind = "Progress")

\* The round a call finds, after the tick it begins with.
Carried(i) == IF Stale(i) THEN << >> ELSE trail[i]

Disarmed(i) == IF FireDue(i) THEN NotArmed ELSE armed_at[i]

HTick ==
  /\ Tick
  /\ trail' = [i \in Slots |-> Carried(i)]
  /\ armed_at' = [i \in Slots |-> Disarmed(i)]
  /\ evidence' = NoEvidence
  /\ UNCHANGED consumed

\* A code as it joins slot i's round: `after` is the newest code the slot had
\* accepted before it, whether or not that one counted.
Entered(i, code) ==
  [key |-> code.key, counter |-> code.counter, at |-> now,
   after |-> IF Carried(i) = << >> THEN 0 ELSE burned[i]]

HEnter(code, shut) ==
  LET round(i) == IF Counts(i) THEN Append(Carried(i), Entered(i, code)) ELSE Carried(i)
      done(i) == Completes /\ outcome'.slot = i
  IN  /\ EnterCode(code, shut)
      /\ trail' = [i \in Slots |->
                     IF done(i) \/ state'[i] = Fresh THEN << >> ELSE round(i)]
      /\ evidence' =
           IF Completes
             THEN [slot |-> outcome'.slot, round |-> round(outcome'.slot)]
             ELSE NoEvidence
      /\ consumed' = [i \in Slots |-> IF done(i) THEN code.counter ELSE consumed[i]]
      /\ armed_at' =
           [i \in Slots |->
              IF outcome' = [kind |-> "Armed", slot |-> i] THEN now
              ELSE IF outcome' = [kind |-> "Vetoed", slot |-> i] THEN NotArmed
              ELSE Disarmed(i)]

HOther ==
  /\ \/ PassTime
     \/ \E t \in StartTime .. MaxTime : SetClock(t)
     \/ TakeRelocks
     \/ TakeFires
     \/ TakeReceipt
     \/ \E a \in {"Lock", "Unlock"} : Attest(a)
  /\ evidence' = NoEvidence
  /\ UNCHANGED <<trail, consumed, armed_at>>

HNext ==
  \/ HTick
  \/ \E code \in Codes, shut \in SUBSET GateKinds : HEnter(code, shut)
  \/ HOther

HSpec == HInit /\ [][HNext]_hvars

-------------------------------------------------------------------------------
(***************************************************************************)
(* What policy.rs says a completed round is.                               *)
(***************************************************************************)
Gap(r, k) == (r[k + 1].counter - r[k].counter) * PERIOD_S

InOrder(r) == \A k \in 1 .. (Len(r) - 1) : Gap(r, k) > 0

Paced(p, r) == \A k \in 1 .. (Len(r) - 1) : Between(Gap(r, k), p.gap_min, p.gap_max)

\* What a Quorum paces: each contribution by the newest code the slot accepted
\* before it, which may be a repeated one that contributed nothing.
PacedByAny(p, r) ==
  \A k \in 2 .. Len(r) :
    /\ r[k].after >= r[k - 1].counter
    /\ Between((r[k].counter - r[k].after) * PERIOD_S, p.gap_min, p.gap_max)

WithinWindow(p, r) == Between(r[Len(r)].at - r[1].at, 0, p.window)

\* Every code was typed while a moment of its period was as old as the delay
\* window asks.
Aged(p, r) ==
  \A k \in 1 .. Len(r) :
    LET minted == r[k].counter * PERIOD_S
        d == DelayWindow(p)
    IN  /\ minted <= SatSub(r[k].at, d.min)
        /\ minted + PERIOD_S > SatSub(r[k].at, d.max)

Distinct(r) == \A j, k \in 1 .. Len(r) : j # k => r[j].key # r[k].key

RoundOK(p, r) ==
  /\ Aged(p, r)
  /\ InOrder(r)
  /\ \A k \in 1 .. Len(r) : \E kidx \in DOMAIN p.keys : r[k].key = p.keys[kidx]
  /\ CASE p.kind \in {"AlwaysValid", "DeadMan"} -> Len(r) = 1
       [] p.kind = "Sequence" -> Len(r) = p.need /\ Paced(p, r) /\ WithinWindow(p, r)
       [] p.kind = "Path" ->
            /\ Len(r) = p.need
            /\ \A k \in 1 .. Len(r) : r[k].key = p.keys[k]
            /\ \A k \in 1 .. (Len(r) - 1) : Gap(r, k) <= p.gap_max
       [] p.kind = "Quorum" ->
            /\ Len(r) = p.need
            /\ Distinct(r)
            /\ PacedByAny(p, r)
            /\ WithinWindow(p, r)

\* No slot is satisfied without the round its policy describes: as many codes
\* as it asks for, minted in order, typed inside their delay window, grouped as
\* configured, from the right keys (Policy, policy.rs:95-155), and spaced as
\* configured: the codes of a Sequence and the legs of a Path from one to the
\* next, a contribution to a Quorum from the newest code the slot had accepted
\* by then.  That is less than policy.rs:142-146, which paces a quorum's
\* contributions "exactly like Sequence": a member's repeated code contributes
\* nothing and still restarts the pace (policy.rs:411-414), so two
\* contributions may lie further apart than gap_max_s.
RoundJustified ==
  evidence # NoEvidence => RoundOK(PolicyOf(evidence.slot), evidence.round)

\* A code opens a slot at most once: every code of a completed round is newer
\* than every code of the rounds completed before it ("burns accepted counters
\* against replay", engine.rs:3-7).
CodesServeOnce ==
  [][evidence' # NoEvidence =>
       \A k \in 1 .. Len(evidence'.round) :
         evidence'.round[k].counter > consumed[evidence'.slot]]_hvars

\* A veto slot acts on its own only when it was armed, was not vetoed since,
\* and its full veto delay has passed since the code that armed it last; every
\* other fire is the answer to a code (engine.rs:254-262, 305-322, 361-365).
VetoHonoured ==
  [][\A i \in Slots :
       fired_count'[i] # fired_count[i] =>
         \/ outcome' = [kind |-> "Fired", slot |-> i]
         \/ /\ armed_at[i] # NotArmed
            /\ now >= armed_at[i] + SlotTable[i].veto_delay]_hvars

-------------------------------------------------------------------------------
(***************************************************************************)
(* The engine keeps the contract of UnlockContract.                        *)
(***************************************************************************)
Contract ==
  INSTANCE UnlockContract WITH
    Budget    <- [i \in Slots |-> SlotTable[i].budget],
    VetoDelay <- [i \in Slots |-> SlotTable[i].veto_delay],
    Ceiling   <- FiredMax,
    clock     <- now,
    served    <- consumed,
    acts      <- fired_count,
    due       <- armed_until

\* Whatever policies, gates, decoys and lockouts do, every act of a slot is one
\* the contract allows: a round of codes newer than all that served it before,
\* a budget checked before arming, a veto delay waited out (engine.rs:301-407).
ImplementsContract == Contract!Spec
===============================================================================
