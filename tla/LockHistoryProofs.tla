-------------------------- MODULE LockHistoryProofs --------------------------
(***************************************************************************)
(* Proofs about LockHistory: no code serves twice, a veto window is never  *)
(* cut short, the engine implements UnlockContract, and no slot is         *)
(* satisfied without the round its policy describes, for every table.      *)
(*                                                                         *)
(* HInv adds to the engine's invariant what ties the history to the state: *)
(* a slot's completed rounds lie at or below its replay watermark, its open*)
(* round lies above them, and its deadline is its arming time plus its     *)
(* veto delay.  JInv adds Round: what a slot's compressed state says of the*)
(* codes its open round is made of.                                        *)
(***************************************************************************)
EXTENDS LockHistory, LockEngineProofs

Entry == [key : Keys \cup {NoKey}, counter : Nat, at : Nat, after : Nat]

HistoryInv(i) ==
  /\ trail[i] \in Seq(Entry)
  /\ consumed[i] \in Nat
  /\ consumed[i] <= burned[i]
  /\ \A k \in 1 .. Len(trail[i]) : trail[i][k].counter > consumed[i]
  /\ armed_until[i] # NotArmed =>
       /\ armed_at[i] \in Nat
       /\ armed_until[i] = armed_at[i] + SlotTable[i].veto_delay

HInv ==
  /\ Inv
  /\ consumed \in [Slots -> Nat]
  /\ \A i \in Slots : HistoryInv(i)

-------------------------------------------------------------------------------
(***************************************************************************)
(* The outcomes of a code, told apart by how they bear on the contract.    *)
(***************************************************************************)
Burns(i, code) ==
  /\ code.counter > burned[i]
  /\ burned' = [burned EXCEPT ![i] = code.counter]

\* Nothing beyond the tick, but perhaps a slot's round.
Quiet(code) ==
  /\ outcome'.kind \in {"LockedOut", "Gated", "Replay", "Negative", "Invalid",
                        "Reset", "Beat", "Progress"}
  /\ armed_until' = TickedArmed
  /\ fired_count' = TickedFired
  /\ outcome'.kind = "Progress" => \E i \in Slots : outcome'.slot = i /\ Burns(i, code)
  /\ burned' = burned \/ \E i \in Slots : Burns(i, code)

\* Slot i's arming is cancelled.
Stopped(i) ==
  /\ outcome' = [kind |-> "Vetoed", slot |-> i]
  /\ TickedArmed[i] # NotArmed
  /\ armed_until' = [TickedArmed EXCEPT ![i] = NotArmed]
  /\ fired_count' = TickedFired
  /\ burned' = burned

\* Slot i's round is complete.
Served(i, code) ==
  /\ Burns(i, code)
  /\ \/ /\ BudgetSpent(i)
        /\ armed_until' = TickedArmed
        /\ fired_count' = TickedFired
        /\ outcome' = [kind |-> "Exhausted", slot |-> i]
     \/ /\ ~BudgetSpent(i)
        /\ SlotTable[i].veto_delay > 0
        /\ armed_until' = [TickedArmed EXCEPT ![i] = now + SlotTable[i].veto_delay]
        /\ fired_count' = TickedFired
        /\ outcome' = [kind |-> "Armed", slot |-> i]
     \/ /\ ~BudgetSpent(i)
        /\ SlotTable[i].veto_delay = 0
        /\ armed_until' = TickedArmed
        /\ fired_count' = [TickedFired EXCEPT ![i] = Saturated(@)]
        /\ outcome' = [kind |-> "Fired", slot |-> i]

LEMMA EnterCases ==
  ASSUME Inv, NEW code \in Codes, NEW shut, EnterCode(code, shut)
  PROVE  \/ Quiet(code)
         \/ \E i \in Slots : Stopped(i)
         \/ \E i \in Slots : Served(i, code)
<1>1. ASSUME EnterVetoed(code)
      PROVE  \E i \in Slots : Stopped(i)
  BY <1>1 DEF EnterVetoed, VetoHits, Report, Stopped
<1>2. CASE EnterInvalid
  BY <1>2 DEF EnterInvalid, TickAndReset, Report, Quiet
<1>3. ASSUME NEW i \in Slots, NEW kidx \in Nat, EnterMatched(i, kidx, code, shut)
      PROVE  Quiet(code) \/ Served(i, code)
  <2>1. CASE EnterRefused(i, code, shut)
    BY <2>1 DEF EnterRefused, TickAndReset, Report, Quiet
  <2>2. CASE EnterNegative(i)
    BY <2>2 DEF EnterNegative, TickAndReset, Report, Quiet
  <2>3. CASE EnterAdvanced(i, kidx, code, shut)
    <3>1. PICK r \in Verdicts(i, kidx, code) :
            /\ r.verdict # "Fire"
            /\ state' = [TickedState EXCEPT ![i] = r.st]
            /\ Report(VerdictOutcome(r.verdict), i)
      BY <2>3 DEF EnterAdvanced
    <3>2. r.verdict \in Verdict
      BY <2>3, <3>1, AcceptedInv, CodesType DEF EnterAdvanced
    <3>3. outcome'.kind \in {"Replay", "Reset", "Beat", "Progress"} /\ outcome'.slot = i
      BY <3>1, <3>2 DEF Report, VerdictOutcome, Verdict
    <3>4. Burns(i, code)
      BY <2>3 DEF EnterAdvanced, Accepts, Burns, Inv, TypeOK
    <3>5. QED
      BY <2>3, <3>3, <3>4 DEF EnterAdvanced, Quiet
  <2>4. CASE EnterSatisfied(i, kidx, code, shut)
    <3>1. Burns(i, code)
      BY <2>4 DEF EnterSatisfied, Accepts, Burns
    <3>2. QED
      BY <2>4, <3>1 DEF EnterSatisfied, Report, Served
  <2>5. QED
    BY <1>3, <2>1, <2>2, <2>3, <2>4 DEF EnterMatched
<1>4. ASSUME NEW h \in Hits(code), EnterMatched(h[1], h[2], code, shut)
      PROVE  Quiet(code) \/ \E i \in Slots : Served(i, code)
  <2>1. h[1] \in Slots /\ h[2] \in Nat
    BY DEF Hits, MAX_QUORUM
  <2>2. QED
    BY <1>3, <1>4, <2>1
<1>5. QED
  BY <1>1, <1>2, <1>4 DEF EnterCode

-------------------------------------------------------------------------------
(***************************************************************************)
(* The history invariant.                                                  *)
(***************************************************************************)
LEMMA HInitInv == HInit => HInv
<1> SUFFICES ASSUME HInit PROVE HInv
  OBVIOUS
<1>1. Inv
  BY InitInv DEF HInit
<1>2. ASSUME NEW i \in Slots PROVE HistoryInv(i)
  BY DEF HInit, Init, HistoryInv
<1>3. QED
  BY <1>1, <1>2 DEF HInv, HInit

\* A tick keeps the deadline of every slot it does not fire.
LEMMA TickedDeadline ==
  ASSUME HInv, NEW i \in Slots, TickedArmed[i] # NotArmed
  PROVE  /\ Disarmed(i) \in Nat
         /\ TickedArmed[i] = Disarmed(i) + SlotTable[i].veto_delay
BY DEF HInv, HistoryInv, TickedArmed, Disarmed

LEMMA CarriedFacts ==
  ASSUME HInv, NEW i \in Slots
  PROVE  /\ Carried(i) \in Seq(Entry)
         /\ \A k \in 1 .. Len(Carried(i)) : Carried(i)[k].counter > consumed[i]
BY DEF HInv, HistoryInv, Carried

\* A typed code, as it joins a round.
LEMMA EnteredFacts ==
  ASSUME HInv, NEW i \in Slots, NEW code \in Codes
  PROVE  /\ Entered(i, code) \in Entry
         /\ Entered(i, code).key = code.key /\ Entered(i, code).counter = code.counter
         /\ Entered(i, code).at = now
         /\ Carried(i) # << >> => Entered(i, code).after = burned[i]
<1> DEFINE before == IF Carried(i) = << >> THEN 0 ELSE burned[i]
<1>1. /\ code.key \in Keys \cup {NoKey} /\ code.counter \in Nat
      /\ now \in Nat /\ burned[i] \in Nat
  BY CodesType DEF Codes, NoCode, HInv, Inv, TypeOK
<1>2. before \in Nat /\ (Carried(i) # << >> => before = burned[i])
  BY <1>1
<1>3. Entered(i, code) =
        [key |-> code.key, counter |-> code.counter, at |-> now, after |-> before]
  BY DEF Entered
<1> HIDE DEF before
<1>4. QED
  BY <1>1, <1>2, <1>3 DEF Entry

\* A code above a slot's watermark extends a round of the slot.
LEMMA RoundFacts ==
  ASSUME HInv, NEW i \in Slots, NEW code \in Codes, code.counter > burned[i]
  PROVE  LET r == Append(Carried(i), Entered(i, code))
         IN  /\ r \in Seq(Entry)
             /\ \A k \in 1 .. Len(r) : r[k].counter > consumed[i]
<1> DEFINE e == Entered(i, code)
           r == Append(Carried(i), e)
<1>1. e \in Entry /\ e.counter = code.counter
  BY EnteredFacts
<1>2. e.counter > consumed[i]
  BY <1>1, CodesType DEF HInv, HistoryInv, Inv, TypeOK
<1> HIDE DEF e
<1>3. r \in Seq(Entry)
  BY <1>1, CarriedFacts
<1>4. ASSUME NEW k \in 1 .. Len(r)
      PROVE  r[k].counter > consumed[i]
  <2>1. CASE k = Len(r)
    BY <1>2, <2>1, CarriedFacts
  <2>2. CASE k # Len(r)
    <3>1. k \in 1 .. Len(Carried(i)) /\ r[k] = Carried(i)[k]
      BY <2>2, CarriedFacts
    <3>2. QED
      BY <3>1, CarriedFacts
  <2>3. QED
    BY <2>1, <2>2
<1>5. QED
  BY <1>3, <1>4 DEF e

LEMMA HTickInv ==
  ASSUME HInv, HTick
  PROVE  HInv'
<1>1. Inv'
  BY TickInv DEF HTick, HInv
<1>2. ASSUME NEW i \in Slots PROVE HistoryInv(i)'
  <2>1. /\ trail'[i] = Carried(i) /\ armed_at'[i] = Disarmed(i)
        /\ armed_until'[i] = TickedArmed[i]
        /\ consumed' = consumed /\ burned' = burned
    BY DEF HTick, Tick
  <2>2. QED
    BY <2>1, CarriedFacts, TickedDeadline DEF HInv, HistoryInv
<1>3. QED
  BY <1>1, <1>2 DEF HInv, HTick

LEMMA HOtherInv ==
  ASSUME HInv, HOther
  PROVE  HInv'
<1>1. Inv'
  BY NextInv DEF HOther, HInv, Next
<1>2. UNCHANGED <<burned, armed_until, trail, consumed, armed_at>>
  BY DEF HOther, PassTime, SetClock, TakeRelocks, TakeFires, TakeReceipt, Attest
<1>3. QED
  BY <1>1, <1>2 DEF HInv, HistoryInv

\* One entered code, seen from one slot.
LEMMA HEnterSlot ==
  ASSUME HInv, NEW code \in Codes, NEW shut, HEnter(code, shut), NEW j \in Slots
  PROVE  HistoryInv(j)'
<1> DEFINE round(i) == IF Counts(i) THEN Append(Carried(i), Entered(i, code))
                       ELSE Carried(i)
           done(i) == Completes /\ outcome'.slot = i
<1>1. /\ trail'[j] = IF done(j) \/ state'[j] = Fresh THEN << >> ELSE round(j)
      /\ consumed'[j] = IF done(j) THEN code.counter ELSE consumed[j]
      /\ armed_at'[j] = IF outcome' = [kind |-> "Armed", slot |-> j] THEN now
                        ELSE IF outcome' = [kind |-> "Vetoed", slot |-> j] THEN NotArmed
                        ELSE Disarmed(j)
  BY DEF HEnter
<1>2. /\ consumed[j] \in Nat /\ burned \in [Slots -> Nat] /\ consumed[j] <= burned[j]
      /\ code.counter \in Nat /\ now \in Nat
      /\ TickedArmed \in [Slots -> Nat \cup {NotArmed}]
      /\ SlotTable[j].veto_delay \in Nat
  BY CodesType, TickedTypes, SlotFacts DEF HInv, HistoryInv, Inv, TypeOK, Slot
<1>3. << >> \in Seq(Entry) /\ Len(<< >>) = 0
  OBVIOUS
<1>4. ASSUME ~done(j), Counts(j) => code.counter > burned[j]
      PROVE  /\ trail'[j] \in Seq(Entry)
             /\ \A k \in 1 .. Len(trail'[j]) : trail'[j][k].counter > consumed[j]
  <2>1. CASE state'[j] = Fresh
    BY <1>1, <1>3, <2>1
  <2>2. CASE state'[j] # Fresh /\ Counts(j)
    BY <1>1, <1>4, <2>2, RoundFacts
  <2>3. CASE state'[j] # Fresh /\ ~Counts(j)
    BY <1>1, <1>4, <2>3, CarriedFacts
  <2>4. QED
    BY <2>1, <2>2, <2>3
<1> HIDE DEF round
<1>5. CASE Quiet(code)
  <2>1. ~done(j) /\ (Counts(j) => code.counter > burned[j])
    BY <1>5 DEF Quiet, Completes, Counts, Burns
  <2>2. burned'[j] \in Nat /\ burned[j] <= burned'[j]
    BY <1>2, <1>5 DEF Quiet, Burns
  <2>3. armed_at'[j] = Disarmed(j) /\ armed_until'[j] = TickedArmed[j]
    BY <1>1, <1>5 DEF Quiet
  <2>4. consumed'[j] = consumed[j]
    BY <1>1, <2>1
  <2>5. QED
    BY <1>2, <1>4, <2>1, <2>2, <2>3, <2>4, TickedDeadline DEF HistoryInv
<1>6. ASSUME NEW i \in Slots, Stopped(i) PROVE HistoryInv(j)'
  <2>1. ~done(j) /\ ~Counts(j)
    BY <1>6 DEF Stopped, Completes, Counts
  <2>2. consumed'[j] = consumed[j] /\ burned'[j] = burned[j]
    BY <1>1, <1>6, <2>1 DEF Stopped
  <2>3. CASE i = j
    <3>1. armed_until'[j] = NotArmed
      BY <1>2, <1>6, <2>3 DEF Stopped
    <3>2. QED
      BY <1>2, <1>4, <2>1, <2>2, <3>1 DEF HistoryInv
  <2>4. CASE i # j
    <3>1. outcome'.slot # j
      BY <1>6, <2>4 DEF Stopped
    <3>2. armed_at'[j] = Disarmed(j) /\ armed_until'[j] = TickedArmed[j]
      BY <1>1, <1>2, <1>6, <2>4, <3>1 DEF Stopped
    <3>3. QED
      BY <1>2, <1>4, <2>1, <2>2, <3>2, TickedDeadline DEF HistoryInv
  <2>5. QED
    BY <2>3, <2>4
<1>7. ASSUME NEW i \in Slots, Served(i, code) PROVE HistoryInv(j)'
  <2>1. outcome'.slot = i /\ outcome'.kind \in {"Fired", "Armed", "Exhausted"}
    BY <1>7 DEF Served
  <2>2. CASE i = j
    <3>1. done(j)
      BY <2>1, <2>2 DEF Completes
    <3>2. trail'[j] = << >> /\ consumed'[j] = code.counter /\ burned'[j] = code.counter
      BY <1>1, <1>2, <1>7, <2>2, <3>1 DEF Served, Burns
    <3>3. CASE outcome'.kind = "Armed"
      <4>1. /\ armed_until'[j] = now + SlotTable[j].veto_delay
            /\ armed_at'[j] = now
        BY <1>1, <1>2, <1>7, <2>2, <3>3 DEF Served
      <4>2. QED
        BY <1>2, <1>3, <3>2, <4>1 DEF HistoryInv
    <3>4. CASE outcome'.kind # "Armed"
      <4>1. armed_until'[j] = TickedArmed[j] /\ armed_at'[j] = Disarmed(j)
        BY <1>1, <1>7, <2>1, <3>4 DEF Served
      <4>2. QED
        BY <1>2, <1>3, <3>2, <4>1, TickedDeadline DEF HistoryInv
    <3>5. QED
      BY <3>3, <3>4
  <2>3. CASE i # j
    <3>1. ~done(j) /\ ~Counts(j)
      BY <2>1, <2>3 DEF Counts
    <3>2. consumed'[j] = consumed[j] /\ burned'[j] = burned[j]
      BY <1>1, <1>2, <1>7, <2>3, <3>1 DEF Served, Burns
    <3>3. armed_until'[j] = TickedArmed[j] /\ armed_at'[j] = Disarmed(j)
      BY <1>1, <1>2, <1>7, <2>1, <2>3 DEF Served
    <3>4. QED
      BY <1>2, <1>4, <3>1, <3>2, <3>3, TickedDeadline DEF HistoryInv
  <2>4. QED
    BY <2>2, <2>3
<1>8. QED
  BY <1>5, <1>6, <1>7, EnterCases DEF HEnter, HInv

LEMMA HNextInv == HInv /\ [HNext]_hvars => HInv'
<1> SUFFICES ASSUME HInv, [HNext]_hvars PROVE HInv'
  OBVIOUS
<1>1. CASE HTick
  BY <1>1, HTickInv
<1>2. CASE HOther
  BY <1>2, HOtherInv
<1>3. ASSUME NEW code \in Codes, NEW shut \in SUBSET GateKinds, HEnter(code, shut)
      PROVE  HInv'
  <2>1. Inv'
    BY <1>3, EnterCodeInv DEF HEnter, HInv
  <2>2. consumed' \in [Slots -> Nat]
    BY <1>3, CodesType DEF HEnter, HInv
  <2>3. \A j \in Slots : HistoryInv(j)'
    BY <1>3, HEnterSlot
  <2>4. QED
    BY <2>1, <2>2, <2>3 DEF HInv
<1>4. CASE UNCHANGED hvars
  BY <1>4, NextInv DEF hvars, HInv, HistoryInv, vars
<1>5. QED
  BY <1>1, <1>2, <1>3, <1>4 DEF HNext

LEMMA HInvHolds == HSpec => []HInv
BY HInitInv, HNextInv, PTL DEF HSpec

-------------------------------------------------------------------------------
(***************************************************************************)
(* The theorems.                                                           *)
(***************************************************************************)

\* No code takes part in two completed rounds of a slot: the watermark lies at
\* the newest code of the last round, and a round never starts below it.
THEOREM ServesOnce == HSpec => CodesServeOnce
<1>1. HInv /\ [HNext]_hvars =>
        [evidence' # NoEvidence =>
           \A k \in 1 .. Len(evidence'.round) :
             evidence'.round[k].counter > consumed[evidence'.slot]]_hvars
  <2> SUFFICES ASSUME HInv, HNext, evidence' # NoEvidence
               PROVE  \A k \in 1 .. Len(evidence'.round) :
                        evidence'.round[k].counter > consumed[evidence'.slot]
    OBVIOUS
  <2>1. PICK code \in Codes, shut \in SUBSET GateKinds : HEnter(code, shut)
    BY DEF HNext, HTick, HOther
  <2>2. Completes
    BY <2>1 DEF HEnter
  <2>3. PICK i \in Slots : Served(i, code)
    <3>1. EnterCode(code, shut) /\ Inv
      BY <2>1 DEF HEnter, HInv
    <3>2. ~Quiet(code) /\ ~\E i \in Slots : Stopped(i)
      BY <2>2 DEF Completes, Quiet, Stopped
    <3>3. QED
      BY <3>1, <3>2, EnterCases
  <2>4. outcome'.slot = i /\ code.counter > burned[i]
    BY <2>3 DEF Served, Burns
  <2>5. evidence' =
          [slot |-> i, round |-> Append(Carried(i), Entered(i, code))]
    BY <2>1, <2>2, <2>4 DEF HEnter, Counts
  <2>6. QED
    BY <2>4, <2>5, RoundFacts
<1>2. QED
  BY <1>1, HInvHolds, PTL DEF HSpec, CodesServeOnce

\* A veto window is never cut short: a slot acts on its own only a full veto
\* delay after it was last armed, and not after it was vetoed
\* (engine.rs:254-262, 305-322, 361-365).
THEOREM VetoKept == HSpec => VetoHonoured
<1>1. ASSUME HInv, [HNext]_hvars, NEW i \in Slots, fired_count'[i] # fired_count[i]
      PROVE  \/ outcome' = [kind |-> "Fired", slot |-> i]
             \/ /\ armed_at[i] # NotArmed
                /\ now >= armed_at[i] + SlotTable[i].veto_delay
  <2>1. ASSUME FireDue(i)
        PROVE  /\ armed_at[i] # NotArmed
               /\ now >= armed_at[i] + SlotTable[i].veto_delay
    BY <1>1, <2>1 DEF HInv, HistoryInv, FireDue, NotArmed
  <2>2. TickedFired[i] # fired_count[i] => FireDue(i)
    BY DEF TickedFired
  <2>3. CASE fired_count' = TickedFired
    BY <1>1, <2>1, <2>2, <2>3
  <2>4. ASSUME NEW code \in Codes, NEW shut, HEnter(code, shut),
               fired_count' # TickedFired
        PROVE  \/ outcome' = [kind |-> "Fired", slot |-> i]
               \/ TickedFired[i] # fired_count[i]
    <3>1. EnterCode(code, shut) /\ Inv
      BY <1>1, <2>4 DEF HEnter, HInv
    <3>2. PICK j \in Slots : Served(j, code)
      BY <2>4, <3>1, EnterCases DEF Quiet, Stopped
    <3>3. /\ fired_count' = [TickedFired EXCEPT ![j] = Saturated(@)]
          /\ outcome' = [kind |-> "Fired", slot |-> j]
      BY <2>4, <3>2 DEF Served
    <3>4. CASE i = j
      BY <3>3, <3>4
    <3>5. CASE i # j
      <4>1. fired_count'[i] = TickedFired[i]
        BY <3>1, <3>3, <3>5, TickedTypes DEF Inv
      <4>2. QED
        BY <1>1, <4>1
    <3>6. QED
      BY <3>4, <3>5
  <2>5. CASE fired_count' = fired_count
    BY <1>1, <2>5
  <2>6. QED
    BY <1>1, <2>1, <2>2, <2>3, <2>4, <2>5
       DEF HNext, HTick, Tick, HOther, PassTime, SetClock, TakeRelocks, TakeFires,
           TakeReceipt, Attest, hvars, vars
<1>2. HInv /\ [HNext]_hvars =>
        [\A i \in Slots :
           fired_count'[i] # fired_count[i] =>
             \/ outcome' = [kind |-> "Fired", slot |-> i]
             \/ /\ armed_at[i] # NotArmed
                /\ now >= armed_at[i] + SlotTable[i].veto_delay]_hvars
  BY <1>1
<1>3. QED
  BY <1>2, HInvHolds, PTL DEF HSpec, VetoHonoured

-------------------------------------------------------------------------------
(***************************************************************************)
(* The refinement.  A tick maps to Release; a code to Serve, Stop or       *)
(* Release; everything else to Elapse or a stutter.                        *)
(***************************************************************************)
LEMMA ReleasedMatches ==
  ASSUME HInv
  PROVE  /\ Contract!ReleasedActs = TickedFired
         /\ Contract!ReleasedDue = TickedArmed
<1>1. Contract!ReleasedActs = TickedFired
  BY DEF Contract!ReleasedActs, Contract!IsDue, Contract!Never, Contract!OneMore,
         TickedFired, FireDue, NotArmed, Saturated
<1>2. Contract!ReleasedDue = TickedArmed
  BY DEF Contract!ReleasedDue, Contract!IsDue, Contract!Never, TickedArmed, FireDue,
         NotArmed
<1>3. QED
  BY <1>1, <1>2

LEMMA ServedMatches ==
  ASSUME HInv, NEW code \in Codes, NEW i \in Slots, Served(i, code),
         consumed' = [consumed EXCEPT ![i] = code.counter], now' = now
  PROVE  Contract!Serve(i)
<1>1. consumed'[i] = code.counter /\ code.counter > consumed[i]
  <2>1. code.counter > burned[i] /\ consumed[i] <= burned[i]
    BY DEF Served, Burns, HInv, HistoryInv
  <2>2. consumed[i] \in Nat /\ burned[i] \in Nat /\ code.counter \in Nat
    BY CodesType DEF HInv, Inv, TypeOK
  <2>3. QED
    BY <2>1, <2>2 DEF HInv
<1>2. consumed' = [consumed EXCEPT ![i] = consumed'[i]]
  BY <1>1
<1>3. [j \in Slots |-> SlotTable[j].budget][i] = SlotTable[i].budget
      /\ [j \in Slots |-> SlotTable[j].veto_delay][i] = SlotTable[i].veto_delay
  OBVIOUS
<1>4. CASE /\ BudgetSpent(i)
           /\ armed_until' = TickedArmed
           /\ fired_count' = TickedFired
  BY <1>1, <1>2, <1>3, <1>4, ReleasedMatches DEF Contract!Serve, BudgetSpent
<1>5. CASE /\ ~BudgetSpent(i)
           /\ SlotTable[i].veto_delay > 0
           /\ armed_until' = [TickedArmed EXCEPT ![i] = now + SlotTable[i].veto_delay]
           /\ fired_count' = TickedFired
  BY <1>1, <1>2, <1>3, <1>5, ReleasedMatches DEF Contract!Serve, BudgetSpent
<1>6. CASE /\ ~BudgetSpent(i)
           /\ SlotTable[i].veto_delay = 0
           /\ armed_until' = TickedArmed
           /\ fired_count' = [TickedFired EXCEPT ![i] = Saturated(@)]
  <2>1. fired_count' = [TickedFired EXCEPT ![i] = Contract!OneMore(@)]
    BY <1>6 DEF Contract!OneMore, Saturated
  <2>2. QED
    BY <1>1, <1>2, <1>3, <1>6, <2>1, ReleasedMatches DEF Contract!Serve, BudgetSpent
<1>7. QED
  BY <1>4, <1>5, <1>6 DEF Served

LEMMA EnterMatches ==
  ASSUME HInv, NEW code \in Codes, NEW shut, HEnter(code, shut)
  PROVE  Contract!Next
<1>1. EnterCode(code, shut) /\ Inv /\ consumed \in [Slots -> Nat]
  BY DEF HEnter, HInv
<1>2. now' = now
  BY <1>1 DEF EnterCode, EnterVetoed, EnterInvalid, EnterMatched, EnterRefused,
              EnterAdvanced, EnterSatisfied, EnterNegative
<1>3. consumed' = [i \in Slots |->
                     IF Completes /\ outcome'.slot = i THEN code.counter ELSE consumed[i]]
  BY DEF HEnter
<1>4. CASE Quiet(code)
  <2>1. consumed' = consumed
    BY <1>1, <1>3, <1>4 DEF Quiet, Completes
  <2>2. Contract!Release
    BY <1>2, <1>4, <2>1, ReleasedMatches DEF Quiet, Contract!Release
  <2>3. QED
    BY <2>2 DEF Contract!Next
<1>5. ASSUME NEW i \in Slots, Stopped(i) PROVE Contract!Next
  <2>1. consumed' = consumed
    BY <1>1, <1>3, <1>5 DEF Stopped, Completes
  <2>2. Contract!Stop(i)
    BY <1>2, <1>5, <2>1, ReleasedMatches
       DEF Stopped, Contract!Stop, Contract!Never, NotArmed
  <2>3. QED
    BY <2>2 DEF Contract!Next
<1>6. ASSUME NEW i \in Slots, Served(i, code) PROVE Contract!Next
  <2>1. Completes /\ outcome'.slot = i
    BY <1>6 DEF Served, Completes
  <2>2. consumed' = [consumed EXCEPT ![i] = code.counter]
    BY <1>1, <1>3, <2>1
  <2>3. Contract!Serve(i)
    BY <1>2, <1>6, <2>2, ServedMatches
  <2>4. QED
    BY <2>3 DEF Contract!Next
<1>7. QED
  BY <1>1, <1>4, <1>5, <1>6, EnterCases

\* The engine with all its policies, gates, decoys and lockouts keeps the
\* contract of UnlockContract (engine.rs:241-406).
THEOREM KeepsContract == HSpec => ImplementsContract
<1>1. HInit => Contract!Init
  BY BoundAssumption
     DEF HInit, Init, Contract!Init, Contract!Never, NotArmed
<1>2. HInv /\ HInv' /\ [HNext]_hvars => [Contract!Next]_(Contract!cvars)
  <2> SUFFICES ASSUME HInv, HInv', [HNext]_hvars
               PROVE  [Contract!Next]_(Contract!cvars)
    OBVIOUS
  <2>1. CASE HTick
    <3>1. Contract!Release
      BY <2>1, ReleasedMatches DEF HTick, Tick, Contract!Release
    <3>2. QED
      BY <3>1 DEF Contract!Next
  <2>2. ASSUME NEW code \in Codes, NEW shut \in SUBSET GateKinds, HEnter(code, shut)
        PROVE  Contract!Next
    BY <2>2, EnterMatches
  <2>3. CASE HOther
    <3>1. now' \in Nat
      BY DEF HInv, Inv, TypeOK
    <3>2. UNCHANGED <<consumed, fired_count, armed_until>>
      BY <2>3 DEF HOther, PassTime, SetClock, TakeRelocks, TakeFires, TakeReceipt, Attest
    <3>3. QED
      BY <3>1, <3>2 DEF Contract!Next, Contract!Elapse
  <2>4. CASE UNCHANGED hvars
    BY <2>4 DEF hvars, vars, Contract!cvars
  <2>5. QED
    BY <2>1, <2>2, <2>3, <2>4 DEF HNext
<1>3. QED
  BY <1>1, <1>2, HInvHolds, PTL DEF HSpec, ImplementsContract, Contract!Spec

-------------------------------------------------------------------------------
(***************************************************************************)
(* What a slot's compressed state says of the codes its open round is made *)
(* of.  Round is the inductive invariant behind RoundJustified: the code   *)
(* that completes a round is judged against this state alone.              *)
(***************************************************************************)
OfAge(p, e) ==
  LET minted == e.counter * PERIOD_S
      d == DelayWindow(p)
  IN  /\ minted <= SatSub(e.at, d.min)
      /\ minted + PERIOD_S > SatSub(e.at, d.max)

Keyed(p, r) == \A k \in 1 .. Len(r) : \E m \in DOMAIN p.keys : r[k].key = p.keys[m]

Timely(r) == \A k \in 1 .. Len(r) : r[k].at <= MaxTime

\* m is the first place of its key in the policy's list.
First(p, m) ==
  m \in DOMAIN p.keys /\ \A j \in DOMAIN p.keys : p.keys[j] = p.keys[m] => m <= j

\* A Sequence knows the newest code, when the first was typed, and a draw of
\* the accept window inside the configured one.
Rhythmic(p, st, r) ==
  /\ Paced(p, r)
  /\ r # << >> =>
       /\ r[Len(r)].counter = st.last_counter /\ r[1].at = st.window_start
       /\ p.gap_min <= st.pace_lo /\ st.pace_hi <= p.gap_max

\* A Path knows the newest code; the count says which legs are behind it.
Routed(p, st, r) ==
  /\ \A k \in 1 .. Len(r) : r[k].key = p.keys[k]
  /\ \A k \in 1 .. (Len(r) - 1) : Gap(r, k) <= p.gap_max
  /\ r # << >> => r[Len(r)].counter = st.last_counter

\* A Quorum knows who contributed, and when the first code was typed; each code
\* was paced by the newest the slot had accepted.
Gathered(p, st, r) ==
  /\ Distinct(r)
  /\ PacedByAny(p, r)
  /\ \A k \in 1 .. Len(r) : \E m \in st.seen : First(p, m) /\ r[k].key = p.keys[m]
  /\ r # << >> => r[1].at = st.window_start

Counting(p) == p.kind \in {"Sequence", "Path", "Quorum"}

Common(p, r) == Aged(p, r) /\ InOrder(r) /\ Keyed(p, r) /\ Timely(r)

Round(p, st, r) ==
  /\ ~Counting(p) => r = << >>
  /\ Counting(p) => Len(r) = st.count
  /\ Common(p, r)
  /\ r # << >> => r[Len(r)].counter <= st.last_counter
  /\ p.kind = "Sequence" => Rhythmic(p, st, r)
  /\ p.kind = "Path" => Routed(p, st, r)
  /\ p.kind = "Quorum" => Gathered(p, st, r)

\* The clock does not wrap while a round is open: it stays a window short of
\* the end of the u32 second counter, which is reached in the year 2106.
ClockFits ==
  /\ StartTime <= MaxTime
  /\ \A i \in Slots : PolicyOf(i).window + MaxTime < Word

\* A code the scan has given to slot policy p, in the state st.
Fits(p, st, kidx, e) ==
  /\ OfAge(p, e) /\ e.at <= MaxTime
  /\ kidx \in DOMAIN p.keys /\ e.key = p.keys[kidx]
  /\ st.count > 0 => st.last_counter < e.counter
  /\ p.kind = "Path" => kidx = st.count + 1
  /\ p.kind = "Quorum" => First(p, kidx)
  /\ p.kind = "Quorum" /\ st.count > 0 => e.after = st.last_counter

\* What judging the code makes of the round it found.
Follows(p, res, r, e) ==
  /\ res.verdict = "Fire" => RoundOK(p, Append(r, e)) /\ Round(p, res.st, << >>)
  /\ res.verdict = "Progress" => Round(p, res.st, Append(r, e))
  /\ res.verdict \in {"Ignored", "Beat"} => Round(p, res.st, r)
  /\ res.verdict = "Reset" => res.st = Fresh

-------------------------------------------------------------------------------
(***************************************************************************)
(* Arithmetic.                                                             *)
(***************************************************************************)
LEMMA DivBelow ==
  ASSUME NEW x \in Nat
  PROVE  /\ x \div PERIOD_S \in Nat
         /\ (x \div PERIOD_S) * PERIOD_S <= x
         /\ x < (x \div PERIOD_S) * PERIOD_S + PERIOD_S
BY PeriodAssumption

LEMMA TimesMonotone ==
  ASSUME NEW a \in Nat, NEW b \in Nat, NEW m \in Nat, a <= b
  PROVE  a * m <= b * m
OBVIOUS

LEMMA TimesPositive ==
  ASSUME NEW a \in Int, a > 0
  PROVE  a * PERIOD_S > 0
BY PeriodAssumption

\* A u32 difference of two times that is at most w is their difference.
LEMMA SinceFacts ==
  ASSUME NEW a \in Nat, NEW b \in Nat, NEW w \in Nat, a <= MaxTime, b <= MaxTime,
         w + MaxTime < Word, Since(a, b) <= w
  PROVE  0 <= b - a /\ b - a <= w
<1>1. (b - a) % Word <= w
  BY DEF Since
<1>2. MaxTime \in Nat /\ Word \in Nat \ {0}
  BY BoundAssumption, WordAssumption
<1>3. QED
  BY <1>1, <1>2

\* The counters searched are those whose period has a moment in the window.
LEMMA SearchedAge ==
  ASSUME NEW c \in Nat, NEW x \in Nat, NEW y \in Nat,
         Between(c, x \div PERIOD_S, y \div PERIOD_S)
  PROVE  c * PERIOD_S <= y /\ c * PERIOD_S + PERIOD_S > x
<1>1. x \div PERIOD_S \in Nat /\ y \div PERIOD_S \in Nat /\ PERIOD_S \in Nat
  BY DivBelow, PeriodAssumption
<1>2. (x \div PERIOD_S) * PERIOD_S <= c * PERIOD_S
  BY <1>1, TimesMonotone DEF Between
<1>3. c * PERIOD_S <= (y \div PERIOD_S) * PERIOD_S
  BY <1>1, TimesMonotone DEF Between
<1>4. /\ (x \div PERIOD_S) * PERIOD_S \in Nat
      /\ (y \div PERIOD_S) * PERIOD_S \in Nat /\ c * PERIOD_S \in Nat
  BY <1>1
<1>5. QED
  BY <1>1, <1>2, <1>3, <1>4, DivBelow

-------------------------------------------------------------------------------
(***************************************************************************)
(* A round that grows by one code.                                         *)
(***************************************************************************)
LEMMA AppendFacts ==
  ASSUME NEW r \in Seq(Entry), NEW e \in Entry
  PROVE  /\ Append(r, e) \in Seq(Entry) /\ Append(r, e) # << >>
         /\ Len(Append(r, e)) = Len(r) + 1 /\ Len(r) \in Nat
         /\ Append(r, e)[Len(r) + 1] = e
         /\ \A k \in 1 .. Len(r) : Append(r, e)[k] = r[k] /\ r[k] \in Entry
         /\ r # << >> <=> Len(r) > 0
OBVIOUS

LEMMA FirstOfAppend ==
  ASSUME NEW r \in Seq(Entry), NEW e \in Entry
  PROVE  /\ r = << >> => Append(r, e)[1] = e
         /\ r # << >> => Append(r, e)[1] = r[1] /\ r[1] \in Entry /\ r[Len(r)] \in Entry
<1>1. CASE r = << >>
  BY <1>1, AppendFacts
<1>2. CASE r # << >>
  BY <1>2, AppendFacts
<1>3. QED
  BY <1>1, <1>2

LEMMA GapsOfAppend ==
  ASSUME NEW r \in Seq(Entry), NEW e \in Entry,
         NEW k \in 1 .. (Len(Append(r, e)) - 1)
  PROVE  \/ k \in 1 .. (Len(r) - 1) /\ Gap(Append(r, e), k) = Gap(r, k)
         \/ /\ r # << >> /\ k = Len(r)
            /\ Gap(Append(r, e), k) = (e.counter - r[Len(r)].counter) * PERIOD_S
<1>1. Len(r) \in Nat /\ k \in 1 .. Len(r)
  BY AppendFacts
<1>2. CASE k = Len(r)
  BY <1>1, <1>2, AppendFacts DEF Gap
<1>3. CASE k # Len(r)
  <2>1. k \in 1 .. Len(r) /\ k + 1 \in 1 .. Len(r) /\ k \in 1 .. (Len(r) - 1)
    BY <1>1, <1>3
  <2>2. Append(r, e)[k] = r[k] /\ Append(r, e)[k + 1] = r[k + 1]
    BY <2>1, AppendFacts
  <2>3. QED
    BY <2>1, <2>2 DEF Gap
<1>4. QED
  BY <1>2, <1>3

LEMMA AgedAll ==
  ASSUME NEW p, NEW r
  PROVE  Aged(p, r) <=> \A k \in 1 .. Len(r) : OfAge(p, r[k])
BY DEF Aged, OfAge

LEMMA CommonGrows ==
  ASSUME NEW p \in Policy, NEW r \in Seq(Entry), NEW e \in Entry, Common(p, r),
         OfAge(p, e), e.at <= MaxTime, NEW m \in DOMAIN p.keys, e.key = p.keys[m],
         r # << >> => r[Len(r)].counter < e.counter
  PROVE  Common(p, Append(r, e))
<1> DEFINE s == Append(r, e)
<1>1. /\ Len(s) = Len(r) + 1 /\ Len(r) \in Nat
      /\ \A k \in 1 .. Len(s) : s[k] = e \/ (k \in 1 .. Len(r) /\ s[k] = r[k])
  BY AppendFacts
<1>2. Aged(p, s)
  <2>1. \A k \in 1 .. Len(r) : OfAge(p, r[k])
    BY AgedAll DEF Common
  <2>2. \A k \in 1 .. Len(s) : OfAge(p, s[k])
    <3> HIDE DEF s
    <3> QED BY <1>1, <2>1
  <2>3. QED
    BY <2>2, AgedAll
<1>3. InOrder(s)
  <2> SUFFICES ASSUME NEW k \in 1 .. (Len(s) - 1) PROVE Gap(s, k) > 0
    BY DEF InOrder
  <2>1. CASE k \in 1 .. (Len(r) - 1) /\ Gap(s, k) = Gap(r, k)
    BY <2>1 DEF Common, InOrder
  <2>2. CASE r # << >> /\ Gap(s, k) = (e.counter - r[Len(r)].counter) * PERIOD_S
    <3>1. r[Len(r)].counter \in Nat /\ e.counter \in Nat
      BY <2>2, FirstOfAppend DEF Entry
    <3>2. e.counter - r[Len(r)].counter \in Int /\ e.counter - r[Len(r)].counter > 0
      BY <2>2, <3>1
    <3>3. QED
      BY <2>2, <3>2, TimesPositive
  <2>3. QED
    BY <2>1, <2>2, GapsOfAppend
<1>4. Keyed(p, s)
  <2>1. \A k \in 1 .. Len(r) : \E j \in DOMAIN p.keys : r[k].key = p.keys[j]
    BY DEF Common, Keyed
  <2>2. \A k \in 1 .. Len(s) : \E j \in DOMAIN p.keys : s[k].key = p.keys[j]
    <3> HIDE DEF s
    <3> QED BY <1>1, <2>1
  <2>3. QED
    BY <2>2 DEF Keyed
<1>5. Timely(s)
  <2> HIDE DEF s
  <2> QED BY <1>1 DEF Common, Timely
<1>6. QED
  BY <1>2, <1>3, <1>4, <1>5 DEF Common

LEMMA RoundFresh ==
  ASSUME NEW p, NEW st, Counting(p) => st.count = 0
  PROVE  Round(p, st, << >>)
<1>1. Len(<< >>) = 0
  OBVIOUS
<1>2. 1 .. 0 = {} /\ 1 .. (0 - 1) = {}
  OBVIOUS
<1>3. Common(p, << >>)
  BY <1>1, <1>2 DEF Common, Aged, InOrder, Keyed, Timely
<1>4. Rhythmic(p, st, << >>) /\ Routed(p, st, << >>) /\ Gathered(p, st, << >>)
  BY <1>1, <1>2 DEF Rhythmic, Routed, Gathered, Paced, PacedByAny, Distinct
<1>5. QED
  BY <1>1, <1>3, <1>4 DEF Round

-------------------------------------------------------------------------------
(***************************************************************************)
(* The policies, one code at a time.                                       *)
(***************************************************************************)
LEMMA CountedFacts ==
  ASSUME NEW st \in SlotState, NEW c \in Nat, NEW t \in Nat
  PROVE  /\ Counted(st, c, t) \in SlotState
         /\ Counted(st, c, t).count = st.count + 1
         /\ Counted(st, c, t).last_counter = c
         /\ Counted(st, c, t).window_start = st.window_start
         /\ Counted(st, c, t).seen = st.seen
<1>1. Counted(st, c, t) \in SlotState
  BY CountedType
<1>2. Counted(st, c, t).count = st.count + 1 /\ Counted(st, c, t).last_counter = c
  BY DEF Counted, SlotState
<1>3. Counted(st, c, t).window_start = st.window_start /\ Counted(st, c, t).seen = st.seen
  BY DEF Counted, SlotState
<1>4. QED
  BY <1>1, <1>2, <1>3

\* Every draw of the accept window lies inside the configured one.
LEMMA PaceWindowInside ==
  ASSUME NEW p \in Policy, NEW w \in PaceWindows(p)
  PROVE  p.gap_min <= w.lo /\ w.hi <= p.gap_max
<1> DEFINE span == IF p.gap_max >= p.gap_min THEN p.gap_max - p.gap_min ELSE 0
           j == IF p.pace_jitter <= span \div 2 THEN p.pace_jitter ELSE span \div 2
<1>1. w.lo \in p.gap_min .. (p.gap_min + j) /\ w.hi \in (p.gap_max - j) .. p.gap_max
  BY DEF PaceWindows
<1> HIDE DEF j
<1>2. QED
  BY <1>1

\* The newest code of an open round is older than one that fits it.
LEMMA NewerThanRound ==
  ASSUME NEW p \in Policy, NEW st \in SlotState, NEW r \in Seq(Entry), NEW e \in Entry,
         NEW kidx, Round(p, st, r), Fits(p, st, kidx, e)
  PROVE  /\ r # << >> => st.count > 0 /\ r[Len(r)].counter < e.counter
         /\ Common(p, Append(r, e))
<1>1. ASSUME r # << >> PROVE st.count > 0 /\ r[Len(r)].counter < e.counter
  <2>1. Len(r) > 0 /\ r[Len(r)].counter \in Nat
    BY <1>1, AppendFacts, FirstOfAppend DEF Entry
  <2>2. Counting(p) /\ st.count > 0
    BY <1>1, <2>1 DEF Round
  <2>3. r[Len(r)].counter <= st.last_counter
    BY <1>1 DEF Round
  <2>4. st.last_counter < e.counter
    BY <2>2 DEF Fits
  <2>5. st.last_counter \in Nat /\ e.counter \in Nat
    BY DEF SlotState, Entry
  <2>6. QED
    BY <2>1, <2>2, <2>3, <2>4, <2>5
<1>2. Common(p, r)
  BY DEF Round
<1>3. OfAge(p, e) /\ e.at <= MaxTime /\ kidx \in DOMAIN p.keys /\ e.key = p.keys[kidx]
  BY DEF Fits
<1>4. QED
  BY <1>1, <1>2, <1>3, CommonGrows

\* The first code of a round was typed at most a window ago.
LEMMA WindowOfAppend ==
  ASSUME NEW p \in Policy, p.window + MaxTime < Word,
         NEW r \in Seq(Entry), NEW e \in Entry, NEW start \in Nat,
         Timely(r), e.at <= MaxTime, r # << >> => r[1].at = start,
         r # << >> => Since(start, e.at) <= p.window
  PROVE  WithinWindow(p, Append(r, e))
<1> DEFINE s == Append(r, e)
<1>1. s[Len(s)] = e
  BY AppendFacts
<1>2. p.window \in Nat /\ e.at \in Nat
  BY DEF Policy, Entry
<1>3. CASE r = << >>
  <2>1. s[1] = e
    BY <1>3, FirstOfAppend
  <2>2. QED
    BY <1>1, <1>2, <2>1 DEF WithinWindow, Between
<1>4. CASE r # << >>
  <2>1. s[1] = r[1] /\ r[1].at <= MaxTime
    BY <1>4, FirstOfAppend, AppendFacts DEF Timely
  <2>2. 0 <= e.at - start /\ e.at - start <= p.window
    BY <1>2, <1>4, <2>1, SinceFacts
  <2>3. s[Len(s)].at - s[1].at = e.at - start
    BY <1>1, <1>4, <2>1
  <2>4. QED
    BY <2>2, <2>3 DEF WithinWindow, Between
<1>5. QED
  BY <1>3, <1>4

LEMMA PacedGrows ==
  ASSUME NEW p \in Policy, NEW r \in Seq(Entry), NEW e \in Entry, Paced(p, r),
         r # << >> => Between((e.counter - r[Len(r)].counter) * PERIOD_S,
                              p.gap_min, p.gap_max)
  PROVE  Paced(p, Append(r, e))
BY GapsOfAppend DEF Paced

LEMMA SequenceRound ==
  ASSUME NEW p \in Policy, p.kind = "Sequence", p.window + MaxTime < Word,
         NEW st \in SlotState, NEW b \in Nat, RoundInv(p, st, b),
         NEW r \in Seq(Entry), Round(p, st, r), NEW e \in Entry,
         NEW kidx, Fits(p, st, kidx, e), NEW res \in OnSequence(p, st, e.counter, e.at)
  PROVE  Follows(p, res, r, e)
<1> DEFINE start == IF st.count = 0 THEN e.at ELSE st.window_start
           here == [st EXCEPT !.window_start = start]
           s == Append(r, e)
           violated ==
             /\ st.count > 0
             /\ \/ ~Between(GenGap(st, e.counter), st.pace_lo, st.pace_hi)
                \/ Since(st.window_start, e.at) > p.window
<1>1. /\ e.counter \in Nat /\ e.at \in Nat /\ st.count \in Nat /\ st.window_start \in Nat
      /\ st.pace_lo \in Nat /\ st.pace_hi \in Nat /\ p.need \in Nat /\ p.window \in Nat
      /\ p.gap_min \in Nat /\ p.gap_max \in Nat
  BY DEF Entry, SlotState, Policy
<1>2. here \in SlotState /\ here.count = st.count /\ here.window_start = start
  BY <1>1 DEF SlotState
<1> HIDE DEF here
<1> DEFINE next == Counted(here, e.counter, e.at)
<1>3. /\ next \in SlotState /\ next.count = st.count + 1
      /\ next.last_counter = e.counter /\ next.window_start = start
  <2>1. here \in SlotState /\ e.counter \in Nat /\ e.at \in Nat
    BY <1>1, <1>2
  <2>2. next \in SlotState /\ next.count = here.count + 1
    BY <2>1, CountedFacts, Zenon
  <2>3. next.last_counter = e.counter
    BY <2>1, CountedFacts, ZenonT(40)
  <2>4. next.window_start = here.window_start
    BY <2>1, CountedFacts, ZenonT(40)
  <2> HIDE DEF next, start
  <2>5. QED
    BY <1>2, <2>2, <2>3, <2>4
<1> HIDE DEF next
<1>4. \/ r # << >> /\ violated /\ res = Result(Fresh, "Reset")
      \/ ~violated /\ Satisfied(p, next) /\ res = Result(Fresh, "Fire")
      \/ /\ ~violated
         /\ \E w \in PaceWindows(p) :
              res = Result([next EXCEPT !.pace_lo = w.lo, !.pace_hi = w.hi], "Progress")
  <2>1. violated => r # << >>
    BY <1>1 DEF Round, Counting
  <2>2. QED
    BY <2>1 DEF OnSequence, next, here
<1>5. Len(r) = st.count /\ (r # << >> <=> st.count > 0) /\ Len(s) = st.count + 1 /\ s[Len(s)] = e
      /\ Rhythmic(p, st, r) /\ Timely(r) /\ e.at <= MaxTime
  BY AppendFacts DEF Round, Counting, Common, Fits
<1>6. Common(p, s) /\ s # << >>
  BY NewerThanRound, AppendFacts
<1>7. r # << >> => r[1].at = st.window_start /\ r[Len(r)].counter = st.last_counter
                   /\ p.gap_min <= st.pace_lo /\ st.pace_hi <= p.gap_max
  BY <1>5 DEF Rhythmic
<1>8. s[1].at = start
  <2>1. CASE r = << >>
    BY <1>5, <2>1, <1>1, FirstOfAppend
  <2>2. CASE r # << >>
    BY <1>5, <1>7, <2>2, FirstOfAppend
  <2>3. QED
    BY <2>1, <2>2
<1>9. ASSUME ~violated PROVE Paced(p, s) /\ WithinWindow(p, s)
  <2>1. r # << >> => /\ Between(GenGap(st, e.counter), st.pace_lo, st.pace_hi)
                     /\ Since(st.window_start, e.at) <= p.window
    <3>1. Since(st.window_start, e.at) \in Int
      BY <1>1, WordAssumption DEF Since
    <3>2. QED
      BY <1>1, <1>5, <1>9, <3>1
  <2>2. GenGap(st, e.counter) \in Int
    <3>1. e.counter - st.last_counter \in Int /\ PERIOD_S \in Int
      BY <1>1, PeriodAssumption DEF SlotState
    <3>2. QED
      BY <3>1 DEF GenGap
  <2>3. r # << >> => Between(GenGap(st, e.counter), p.gap_min, p.gap_max)
    BY <1>1, <1>7, <2>1, <2>2 DEF Between
  <2>4. r # << >> => (e.counter - r[Len(r)].counter) * PERIOD_S = GenGap(st, e.counter)
    BY <1>7 DEF GenGap
  <2>5. Paced(p, s)
    BY <1>5, <2>3, <2>4, PacedGrows DEF Rhythmic
  <2>6. WithinWindow(p, s)
    BY <1>1, <1>5, <1>7, <2>1, WindowOfAppend
  <2>7. QED
    BY <2>5, <2>6
<1> HIDE DEF s, start, violated
<1>10. CASE violated /\ res = Result(Fresh, "Reset")
  BY <1>10 DEF Follows, Result
<1>11. CASE ~violated /\ Satisfied(p, next) /\ res = Result(Fresh, "Fire")
  <2>1. res.st = Fresh /\ res.verdict = "Fire"
    BY <1>11 DEF Result
  <2>2. Len(s) = p.need
    BY <1>1, <1>3, <1>5, <1>11 DEF Satisfied, RoundInv
  <2>3. RoundOK(p, s)
    BY <1>6, <1>9, <1>11, <2>2 DEF RoundOK, Common, Keyed
  <2>4. Round(p, Fresh, << >>)
    BY RoundFresh DEF Fresh
  <2>5. QED
    BY <2>1, <2>3, <2>4 DEF Follows, s
<1>12. ASSUME ~violated, NEW w \in PaceWindows(p),
              res = Result([next EXCEPT !.pace_lo = w.lo, !.pace_hi = w.hi], "Progress")
       PROVE  Follows(p, res, r, e)
  <2>1. res.st = [next EXCEPT !.pace_lo = w.lo, !.pace_hi = w.hi] /\ res.verdict = "Progress"
    BY <1>12 DEF Result
  <2>2. /\ res.st.count = next.count /\ res.st.last_counter = next.last_counter
        /\ res.st.window_start = next.window_start
        /\ res.st.pace_lo = w.lo /\ res.st.pace_hi = w.hi
    BY <1>3, <2>1 DEF SlotState
  <2>3. Rhythmic(p, res.st, s)
    BY <1>3, <1>5, <1>8, <1>9, <1>12, <2>2, PaceWindowInside DEF Rhythmic
  <2>4. Round(p, res.st, s)
    BY <1>1, <1>3, <1>5, <1>6, <2>2, <2>3 DEF Round, Counting
  <2>5. QED
    BY <2>1, <2>4 DEF Follows, s
<1>13. QED
  BY <1>4, <1>10, <1>11, <1>12

LEMMA PathRound ==
  ASSUME NEW p \in Policy, p.kind = "Path",
         NEW st \in SlotState, NEW b \in Nat, RoundInv(p, st, b),
         NEW r \in Seq(Entry), Round(p, st, r), NEW e \in Entry,
         NEW kidx, Fits(p, st, kidx, e), NEW res \in OnPath(p, st, e.counter, e.at)
  PROVE  Follows(p, res, r, e)
<1> DEFINE next == Counted(st, e.counter, e.at)
           s == Append(r, e)
           dawdled == st.count > 0 /\ GenGap(st, e.counter) > p.gap_max
<1>1. /\ e.counter \in Nat /\ e.at \in Nat /\ p.need \in Nat /\ p.gap_max \in Nat
      /\ st.count \in Nat
  BY DEF Entry, Policy, SlotState
<1>2. next \in SlotState /\ next.count = st.count + 1 /\ next.last_counter = e.counter
  BY <1>1, CountedFacts
<1> HIDE DEF next
<1>3. \/ res = Result(Fresh, "Reset")
      \/ ~dawdled /\ Satisfied(p, next) /\ res = Result(Fresh, "Fire")
      \/ ~dawdled /\ res = Result(next, "Progress")
  BY DEF OnPath, next
<1>4. Len(r) = st.count /\ Len(r) \in Nat /\ (r # << >> <=> st.count > 0)
      /\ Len(s) = st.count + 1 /\ s[Len(s)] = e /\ Routed(p, st, r)
  BY AppendFacts DEF Round, Counting
<1>5. Common(p, s) /\ s # << >>
  BY NewerThanRound, AppendFacts
<1>6. ASSUME ~dawdled
      PROVE  \A k \in 1 .. (Len(s) - 1) : Gap(s, k) <= p.gap_max
  <2>1. r # << >> => (e.counter - r[Len(r)].counter) * PERIOD_S = GenGap(st, e.counter)
    BY <1>4 DEF Routed, GenGap
  <2>2. GenGap(st, e.counter) \in Int
    <3>1. e.counter - st.last_counter \in Int /\ PERIOD_S \in Int
      BY <1>1, PeriodAssumption DEF SlotState
    <3>2. QED
      BY <3>1 DEF GenGap
  <2>3. r # << >> => (e.counter - r[Len(r)].counter) * PERIOD_S <= p.gap_max
    BY <1>1, <1>4, <1>6, <2>1, <2>2
  <2>4. QED
    BY <1>4, <2>3, GapsOfAppend DEF Routed
<1>7. \A k \in 1 .. Len(s) : s[k].key = p.keys[k]
  <2>1. e.key = p.keys[Len(s)]
    BY <1>4 DEF Fits
  <2>2. \A k \in 1 .. Len(r) : s[k] = r[k] /\ r[k].key = p.keys[k]
    BY <1>4, AppendFacts DEF Routed
  <2>3. Len(s) = Len(r) + 1 /\ Len(r) \in Nat /\ s[Len(s)] = e
    BY <1>4
  <2> HIDE DEF s
  <2>4. ASSUME NEW k \in 1 .. Len(s) PROVE s[k].key = p.keys[k]
    <3>1. CASE k = Len(s)
      BY <2>1, <2>3, <3>1
    <3>2. CASE k # Len(s)
      <4>1. k \in 1 .. Len(r)
        BY <2>3, <3>2
      <4>2. QED
        BY <2>2, <4>1
    <3>3. QED
      BY <3>1, <3>2
  <2>5. QED
    BY <2>4
<1> HIDE DEF s, dawdled
<1>8. CASE res = Result(Fresh, "Reset")
  BY <1>8 DEF Follows, Result
<1>9. CASE ~dawdled /\ Satisfied(p, next) /\ res = Result(Fresh, "Fire")
  <2>1. res.st = Fresh /\ res.verdict = "Fire"
    BY <1>9 DEF Result
  <2>2. Len(s) = p.need
    BY <1>1, <1>2, <1>4, <1>9 DEF Satisfied, RoundInv
  <2>3. RoundOK(p, s)
    BY <1>5, <1>6, <1>7, <1>9, <2>2 DEF RoundOK, Common, Keyed
  <2>4. Round(p, Fresh, << >>)
    BY RoundFresh DEF Fresh
  <2>5. QED
    BY <2>1, <2>3, <2>4 DEF Follows, s
<1>10. CASE ~dawdled /\ res = Result(next, "Progress")
  <2>1. res.st = next /\ res.verdict = "Progress"
    BY <1>10 DEF Result
  <2>2. Routed(p, next, s)
    BY <1>2, <1>4, <1>6, <1>7, <1>10 DEF Routed
  <2>3. Round(p, next, s)
    BY <1>1, <1>2, <1>4, <1>5, <2>2 DEF Round, Counting
  <2>4. QED
    BY <2>1, <2>3 DEF Follows, s
<1>11. QED
  BY <1>3, <1>8, <1>9, <1>10

\* A member not yet seen is none of those who contributed.
LEMMA DistinctGrows ==
  ASSUME NEW p \in Policy, NEW st, NEW r \in Seq(Entry), NEW e \in Entry,
         Gathered(p, st, r), NEW m \in DOMAIN p.keys \ st.seen, First(p, m),
         e.key = p.keys[m]
  PROVE  Distinct(Append(r, e))
<1> DEFINE s == Append(r, e)
<1>1. ASSUME NEW k \in 1 .. Len(r) PROVE r[k].key # e.key
  <2>1. PICK j \in st.seen : First(p, j) /\ r[k].key = p.keys[j]
    BY DEF Gathered
  <2>2. ASSUME p.keys[j] = p.keys[m] PROVE FALSE
    <3>1. j \in DOMAIN p.keys /\ m <= j /\ j <= m
      BY <2>1, <2>2 DEF First
    <3>2. j \in Nat /\ m \in Nat
      BY <3>1 DEF Policy
    <3>3. QED
      BY <2>1, <3>1, <3>2
  <2>3. QED
    BY <2>1, <2>2
<1>2. /\ Len(s) = Len(r) + 1 /\ Len(r) \in Nat /\ s[Len(r) + 1] = e
      /\ \A k \in 1 .. Len(r) : s[k] = r[k]
  BY AppendFacts
<1> HIDE DEF s
<1>3. \A k \in 1 .. Len(s) : k \in 1 .. Len(r) \/ k = Len(r) + 1
  BY <1>2
<1>4. \A j, k \in 1 .. Len(r) : j # k => r[j].key # r[k].key
  BY DEF Gathered, Distinct
<1>5. \A j, k \in 1 .. Len(s) : j # k => s[j].key # s[k].key
  BY <1>1, <1>2, <1>3, <1>4
<1>6. QED
  BY <1>5 DEF Distinct, s

\* A code within the bounds of the newest one accepted keeps the pace.
LEMMA PacedByAnyGrows ==
  ASSUME NEW p \in Policy, NEW r \in Seq(Entry), NEW e \in Entry, PacedByAny(p, r),
         r # << >> => /\ e.after >= r[Len(r)].counter
                      /\ Between((e.counter - e.after) * PERIOD_S, p.gap_min, p.gap_max)
  PROVE  PacedByAny(p, Append(r, e))
<1> DEFINE s == Append(r, e)
<1>1. Len(r) \in Nat /\ Len(s) = Len(r) + 1 /\ s[Len(r) + 1] = e
      /\ \A k \in 1 .. Len(r) : s[k] = r[k]
  BY AppendFacts
<1> HIDE DEF s
<1>2. ASSUME NEW k \in 2 .. Len(s)
      PROVE  /\ s[k].after >= s[k - 1].counter
             /\ Between((s[k].counter - s[k].after) * PERIOD_S, p.gap_min, p.gap_max)
  <2>1. k - 1 \in 1 .. Len(r) /\ s[k - 1] = r[k - 1]
    BY <1>1
  <2>2. CASE k = Len(r) + 1
    <3>1. r # << >> /\ s[k] = e /\ s[k - 1] = r[Len(r)]
      BY <1>1, <2>1, <2>2
    <3>2. QED
      BY <3>1
  <2>3. CASE k # Len(r) + 1
    <3>1. k \in 2 .. Len(r) /\ s[k] = r[k]
      BY <1>1, <2>3
    <3>2. QED
      BY <2>1, <3>1 DEF PacedByAny
  <2>4. QED
    BY <2>2, <2>3
<1>3. QED
  BY <1>2 DEF PacedByAny, s

LEMMA QuorumRound ==
  ASSUME NEW p \in Policy, p.kind = "Quorum", p.window + MaxTime < Word,
         NEW st \in SlotState, NEW b \in Nat, RoundInv(p, st, b),
         NEW r \in Seq(Entry), Round(p, st, r), NEW e \in Entry,
         NEW kidx \in Nat, Fits(p, st, kidx, e),
         NEW res \in OnQuorum(p, st, kidx, e.counter, e.at)
  PROVE  Follows(p, res, r, e)
<1> DEFINE start == IF st.count = 0 THEN e.at ELSE st.window_start
           here == [st EXCEPT !.window_start = start, !.last_kidx = kidx,
                              !.seen = @ \cup {kidx}]
           s == Append(r, e)
           late == st.count > 0 /\ Since(st.window_start, e.at) > p.window
           astray == st.count > 0 /\ ~Between(GenGap(st, e.counter), p.gap_min, p.gap_max)
<1>1. /\ e.counter \in Nat /\ e.at \in Nat /\ st.count \in Nat /\ st.window_start \in Nat
      /\ p.need \in Nat /\ p.window \in Nat
  BY DEF Entry, SlotState, Policy
<1>2. /\ here \in SlotState /\ here.count = st.count /\ here.window_start = start
      /\ here.seen = st.seen \cup {kidx}
  BY <1>1 DEF SlotState
<1> HIDE DEF here
<1> DEFINE next == Counted(here, e.counter, e.at)
<1>3. /\ next \in SlotState /\ next.count = st.count + 1
      /\ next.last_counter = e.counter /\ next.window_start = start
      /\ next.seen = st.seen \cup {kidx}
  <2>1. here \in SlotState /\ e.counter \in Nat /\ e.at \in Nat
    BY <1>1, <1>2
  <2>2. next \in SlotState /\ next.count = here.count + 1
    BY <2>1, CountedFacts, Zenon
  <2>3. next.last_counter = e.counter
    BY <2>1, CountedFacts, ZenonT(40)
  <2>4. next.window_start = here.window_start
    BY <2>1, CountedFacts, ZenonT(40)
  <2>5. next.seen = here.seen
    BY <2>1, CountedFacts, ZenonT(40)
  <2> HIDE DEF next, start
  <2>6. QED
    BY <1>2, <2>2, <2>3, <2>4, <2>5
<1> HIDE DEF next
<1> DEFINE same == [st EXCEPT !.last_counter = e.counter]
<1>4. \/ res = Result(Fresh, "Reset")
      \/ Repeats(st, kidx) /\ res = Result(same, "Ignored")
      \/ /\ ~late /\ ~astray /\ ~Repeats(st, kidx) /\ Satisfied(p, next)
         /\ res = Result(Fresh, "Fire")
      \/ ~late /\ ~astray /\ ~Repeats(st, kidx) /\ res = Result(next, "Progress")
  BY DEF OnQuorum, next, here
<1>5. /\ Len(r) = st.count /\ (r # << >> <=> st.count > 0) /\ Len(s) = st.count + 1
      /\ s[Len(s)] = e /\ Gathered(p, st, r) /\ Timely(r) /\ e.at <= MaxTime
  BY AppendFacts DEF Round, Counting, Common, Fits
<1>6. Common(p, s) /\ s # << >>
  BY NewerThanRound, AppendFacts
<1>7. r # << >> => r[1].at = st.window_start
  BY <1>5 DEF Gathered
<1>8. s[1].at = start
  <2>1. CASE r = << >>
    BY <1>5, <2>1, <1>1, FirstOfAppend
  <2>2. CASE r # << >>
    BY <1>5, <1>7, <2>2, FirstOfAppend
  <2>3. QED
    BY <2>1, <2>2
<1>9. ASSUME ~late PROVE WithinWindow(p, s)
  <2>1. r # << >> => Since(st.window_start, e.at) <= p.window
    <3>1. Since(st.window_start, e.at) \in Int
      BY <1>1, WordAssumption DEF Since
    <3>2. QED
      BY <1>1, <1>5, <1>9, <3>1
  <2>2. QED
    BY <1>1, <1>5, <1>7, <2>1, WindowOfAppend
<1>10. kidx \in DOMAIN p.keys /\ First(p, kidx) /\ e.key = p.keys[kidx]
  BY DEF Fits
<1>11. ASSUME ~Repeats(st, kidx) PROVE Distinct(s)
  <2>1. CASE st.count > 0
    BY <1>5, <1>10, <1>11, <2>1, DistinctGrows DEF Repeats
  <2>2. CASE st.count = 0
    <3>1. 1 .. Len(s) = {1}
      BY <1>5, <2>2
    <3>2. QED
      BY <3>1 DEF Distinct
  <2>3. QED
    BY <1>1, <2>1, <2>2
<1>12. ASSUME ~astray PROVE PacedByAny(p, s)
  <2>1. r # << >> => /\ e.after = st.last_counter
                     /\ Between(GenGap(st, e.counter), p.gap_min, p.gap_max)
    BY <1>5, <1>12 DEF Fits
  <2>2. r # << >> => st.last_counter >= r[Len(r)].counter
    <3>1. r # << >> => r[Len(r)].counter \in Nat
      BY FirstOfAppend DEF Entry
    <3>2. QED
      BY <3>1 DEF Round, SlotState
  <2>3. r # << >> => /\ e.after >= r[Len(r)].counter
                     /\ Between((e.counter - e.after) * PERIOD_S, p.gap_min, p.gap_max)
    BY <2>1, <2>2 DEF GenGap
  <2>4. PacedByAny(p, r)
    BY <1>5 DEF Gathered
  <2>5. QED
    BY <2>3, <2>4, PacedByAnyGrows
<1>13. \A k \in 1 .. Len(s) :
         \E m \in st.seen \cup {kidx} : First(p, m) /\ s[k].key = p.keys[m]
  <2>1. \A k \in 1 .. Len(r) :
          s[k] = r[k] /\ \E m \in st.seen : First(p, m) /\ r[k].key = p.keys[m]
    BY <1>5, AppendFacts DEF Gathered
  <2>2. \A k \in 1 .. Len(s) : k \in 1 .. Len(r) \/ s[k] = e
    BY AppendFacts
  <2> HIDE DEF s
  <2>3. QED
    BY <1>10, <2>1, <2>2
<1> HIDE DEF s, late, astray, start
<1>14. CASE res = Result(Fresh, "Reset")
  BY <1>14 DEF Follows, Result
<1>15. CASE Repeats(st, kidx) /\ res = Result(same, "Ignored")
  <2>1. res.st = same /\ res.verdict = "Ignored"
    BY <1>15 DEF Result
  <2>2. /\ res.st.count = st.count /\ res.st.last_counter = e.counter
        /\ res.st.seen = st.seen /\ res.st.window_start = st.window_start
    BY <2>1 DEF SlotState
  <2>3. Gathered(p, res.st, r)
    BY <1>5, <2>2 DEF Gathered
  <2>4. r # << >> => r[Len(r)].counter <= e.counter
    <3>1. r # << >> => r[Len(r)].counter < e.counter /\ r[Len(r)].counter \in Nat
      BY NewerThanRound, FirstOfAppend DEF Entry
    <3>2. QED
      BY <1>1, <3>1
  <2>5. Round(p, res.st, r)
    BY <1>5, <2>2, <2>3, <2>4 DEF Round, Counting
  <2>6. QED
    BY <2>1, <2>5 DEF Follows
<1>16. CASE /\ ~late /\ ~astray /\ ~Repeats(st, kidx) /\ Satisfied(p, next)
            /\ res = Result(Fresh, "Fire")
  <2>1. res.st = Fresh /\ res.verdict = "Fire"
    BY <1>16 DEF Result
  <2>2. Len(s) = p.need
    BY <1>1, <1>3, <1>5, <1>16 DEF Satisfied, RoundInv
  <2>3. RoundOK(p, s)
    BY <1>6, <1>9, <1>11, <1>12, <1>16, <2>2 DEF RoundOK, Common, Keyed
  <2>4. Round(p, Fresh, << >>)
    BY RoundFresh DEF Fresh
  <2>5. QED
    BY <2>1, <2>3, <2>4 DEF Follows, s
<1>17. CASE ~late /\ ~astray /\ ~Repeats(st, kidx) /\ res = Result(next, "Progress")
  <2>1. res.st = next /\ res.verdict = "Progress"
    BY <1>17 DEF Result
  <2>2. Gathered(p, next, s)
    BY <1>3, <1>8, <1>11, <1>13, <1>12, <1>17 DEF Gathered
  <2>3. Round(p, next, s)
    BY <1>1, <1>3, <1>5, <1>6, <2>2 DEF Round, Counting
  <2>4. QED
    BY <2>1, <2>3 DEF Follows, s
<1>18. QED
  BY <1>4, <1>14, <1>15, <1>16, <1>17

\* AlwaysValid and DeadMan keep no round: a code fires by itself, or is a beat.
LEMMA SingleRound ==
  ASSUME NEW p \in Policy, p.kind \in {"AlwaysValid", "DeadMan"},
         NEW st \in SlotState, NEW r \in Seq(Entry), Round(p, st, r), NEW e \in Entry,
         NEW kidx, Fits(p, st, kidx, e), NEW res, res.verdict \in {"Fire", "Beat"}
  PROVE  Follows(p, res, r, e)
<1>1. r = << >> /\ ~Counting(p)
  BY DEF Round, Counting
<1>2. Round(p, res.st, << >>)
  BY <1>1, RoundFresh
<1>3. Common(p, Append(r, e))
  BY NewerThanRound
<1>4. Len(Append(r, e)) = 1
  BY <1>1, AppendFacts
<1>5. RoundOK(p, Append(r, e))
  BY <1>3, <1>4 DEF RoundOK, Common, Keyed
<1>6. QED
  BY <1>1, <1>2, <1>5 DEF Follows

LEMMA CodeRound ==
  ASSUME NEW p \in Policy, p.window + MaxTime < Word,
         NEW st \in SlotState, NEW b \in Nat, RoundInv(p, st, b),
         NEW r \in Seq(Entry), Round(p, st, r), NEW e \in Entry,
         NEW kidx \in Nat, Fits(p, st, kidx, e),
         NEW res \in OnCode(p, st, kidx, e.counter, e.at)
  PROVE  Follows(p, res, r, e)
<1>1. ~(st.count > 0 /\ e.counter <= st.last_counter)
  BY DEF Fits, SlotState, Entry
<1>2. p.kind \in PolicyKinds
  BY DEF Policy
<1>3. CASE p.kind = "AlwaysValid"
  <2>1. res = Result(st, "Fire")
    BY <1>1, <1>3 DEF OnCode
  <2>2. QED
    BY <1>3, <2>1, SingleRound DEF Result
<1>4. CASE p.kind = "Sequence"
  BY <1>1, <1>4, SequenceRound DEF OnCode
<1>5. CASE p.kind = "Path"
  BY <1>1, <1>5, PathRound DEF OnCode
<1>6. CASE p.kind = "DeadMan"
  <2>1. res \in OnDeadMan(st, e.counter, e.at)
    BY <1>1, <1>6 DEF OnCode
  <2>2. res.verdict \in {"Fire", "Beat"}
    BY <2>1 DEF OnDeadMan, Result
  <2>3. QED
    BY <1>6, <2>2, SingleRound
<1>7. CASE p.kind = "Quorum"
  BY <1>1, <1>7, QuorumRound DEF OnCode
<1>8. QED
  BY <1>2, <1>3, <1>4, <1>5, <1>6, <1>7 DEF PolicyKinds

-------------------------------------------------------------------------------
(***************************************************************************)
(* The rounds of all slots, one call at a time.                            *)
(***************************************************************************)
Rounds == \A i \in Slots : Round(PolicyOf(i), state[i], trail[i])

JInv == HInv /\ now <= MaxTime /\ Rounds /\ RoundJustified

\* The call's code is the next one of the round of the slot the scan gave it to.
Joins(h, code) ==
  /\ ScanStopsAt(h, code)
  /\ RealHit(h[1], h[2], code)
  /\ code.counter > burned[h[1]]
  /\ outcome'.slot = h[1]
  /\ \E res \in Verdicts(h[1], h[2], code) :
       /\ state' = [TickedState EXCEPT ![h[1]] = res.st]
       /\ IF res.verdict = "Fire"
            THEN outcome'.kind \in {"Fired", "Armed", "Exhausted"}
            ELSE outcome'.kind = VerdictOutcome(res.verdict)

\* The call's code counts for no round.
CountsForNone == outcome'.kind \notin {"Fired", "Armed", "Exhausted", "Progress"}

LEMMA EnterJoins ==
  ASSUME Inv, NEW code \in Codes, NEW shut, EnterCode(code, shut)
  PROVE  \/ CountsForNone /\ \A j \in Slots : state'[j] \in {Fresh, TickedState[j]}
         \/ \E h \in Slots \X (1 .. MAX_QUORUM) : Joins(h, code)
<1>1. TickedState \in [Slots -> SlotState]
  BY TickedTypes DEF Inv
<1>2. ASSUME NEW R \in SUBSET Slots, TickAndReset(R)
      PROVE  \A j \in Slots : state'[j] \in {Fresh, TickedState[j]}
  BY <1>2 DEF TickAndReset
<1>3. CASE EnterVetoed(code)
  BY <1>1, <1>3 DEF EnterVetoed, Report, CountsForNone
<1>4. CASE EnterInvalid
  <2>1. PICK R \in SUBSET Slots : TickAndReset(R)
    BY <1>4 DEF EnterInvalid
  <2>2. CountsForNone
    BY <1>4 DEF EnterInvalid, Report, CountsForNone
  <2>3. QED
    BY <1>2, <2>1, <2>2
<1>5. ASSUME NEW h \in Hits(code), ScanStopsAt(h, code), EnterMatched(h[1], h[2], code, shut)
      PROVE  \/ CountsForNone /\ \A j \in Slots : state'[j] \in {Fresh, TickedState[j]}
             \/ Joins(h, code)
  <2>1. h[1] \in Slots
    BY DEF Hits
  <2>2. CASE EnterNegative(h[1])
    <3>1. PICK R \in SUBSET Slots : TickAndReset(R)
      BY <2>1, <2>2 DEF EnterNegative
    <3>2. CountsForNone
      BY <2>2 DEF EnterNegative, Report, CountsForNone
    <3>3. QED
      BY <1>2, <3>1, <3>2
  <2>3. CASE EnterRefused(h[1], code, shut)
    <3>1. TickAndReset({})
      BY <2>3 DEF EnterRefused
    <3>2. CountsForNone
      BY <2>3 DEF EnterRefused, Report, CountsForNone
    <3>3. QED
      BY <1>2, <3>1, <3>2
  <2>4. CASE RealHit(h[1], h[2], code) /\ EnterAdvanced(h[1], h[2], code, shut)
    <3>1. PICK res \in Verdicts(h[1], h[2], code) :
            /\ res.verdict # "Fire"
            /\ state' = [TickedState EXCEPT ![h[1]] = res.st]
            /\ outcome' = [kind |-> VerdictOutcome(res.verdict), slot |-> h[1]]
      BY <2>4 DEF EnterAdvanced, Report
    <3>2. outcome'.kind = VerdictOutcome(res.verdict) /\ outcome'.slot = h[1]
      BY <3>1
    <3>3. code.counter > burned[h[1]]
      BY <2>4 DEF EnterAdvanced, Accepts
    <3>4. QED
      BY <1>5, <2>4, <3>1, <3>2, <3>3 DEF Joins
  <2>5. CASE RealHit(h[1], h[2], code) /\ EnterSatisfied(h[1], h[2], code, shut)
    <3>1. PICK res \in Verdicts(h[1], h[2], code) :
            /\ res.verdict = "Fire"
            /\ state' = [TickedState EXCEPT ![h[1]] = res.st]
      BY <2>5 DEF EnterSatisfied
    <3>2. outcome'.kind \in {"Fired", "Armed", "Exhausted"} /\ outcome'.slot = h[1]
      BY <2>5 DEF EnterSatisfied, Report
    <3>3. code.counter > burned[h[1]]
      BY <2>5 DEF EnterSatisfied, Accepts
    <3>4. QED
      BY <1>5, <2>5, <3>1, <3>2, <3>3 DEF Joins
  <2>6. QED
    BY <1>5, <2>2, <2>3, <2>4, <2>5 DEF EnterMatched
<1>6. Hits(code) \subseteq Slots \X (1 .. MAX_QUORUM)
  BY DEF Hits
<1>7. QED
  BY <1>3, <1>4, <1>5, <1>6 DEF EnterCode

\* The tick drops the round it finds stale, and leaves the others.
LEMMA TickedRound ==
  ASSUME JInv, NEW i \in Slots
  PROVE  Round(PolicyOf(i), TickedState[i], Carried(i))
<1>1. CASE Stale(i)
  <2>1. TickedState[i] = Fresh /\ Carried(i) = << >>
    BY <1>1 DEF TickedState, Carried
  <2>2. QED
    BY <2>1, RoundFresh DEF Fresh
<1>2. CASE ~Stale(i)
  <2>1. TickedState[i] = state[i] /\ Carried(i) = trail[i]
    BY <1>2 DEF TickedState, Carried
  <2>2. QED
    BY <2>1 DEF JInv, Rounds
<1>3. QED
  BY <1>1, <1>2

\* The scan gives a code to the first place of its key.
LEMMA ScanFirst ==
  ASSUME NEW code, NEW h \in Slots \X (1 .. MAX_QUORUM), ScanStopsAt(h, code),
         RealHit(h[1], h[2], code), PolicyOf(h[1]).kind = "Quorum"
  PROVE  First(PolicyOf(h[1]), h[2])
<1> DEFINE i == h[1]
           p == PolicyOf(i)
<1>1. i \in Slots /\ h[2] \in 1 .. MAX_QUORUM /\ p \in Policy
  BY SlotFacts
<1>2. h[2] \in DOMAIN p.keys
  BY DEF ScanStopsAt, Hits, Candidates
<1>3. ASSUME NEW j \in DOMAIN p.keys, p.keys[j] = p.keys[h[2]], j < h[2]
      PROVE  FALSE
  <2>1. j \in Nat /\ j >= 1
    BY <1>1 DEF Policy
  <2>2. j \in 1 .. MAX_QUORUM
    BY <1>1, <1>3, <2>1 DEF MAX_QUORUM
  <2>3. RealHit(i, j, code)
    BY <1>3 DEF RealHit, CandKey
  <2>4. <<i, j>> \in Hits(code)
    BY <1>1, <2>2, <2>3 DEF Hits, Candidates
  <2>5. h[1] < i \/ (h[1] = i /\ h[2] <= j)
    BY <2>4 DEF ScanStopsAt
  <2>6. QED
    BY <1>1, <1>3, <2>1, <2>5, SlotFacts
<1>4. ASSUME NEW j \in DOMAIN p.keys, p.keys[j] = p.keys[h[2]] PROVE h[2] <= j
  <2>1. j \in Nat
    BY <1>1 DEF Policy
  <2>2. QED
    BY <1>1, <1>3, <1>4, <2>1
<1>5. QED
  BY <1>2, <1>4 DEF First

LEMMA WindowType ==
  ASSUME NEW p \in Policy
  PROVE  DelayWindow(p).min \in Nat /\ DelayWindow(p).max \in Nat
<1>1. p.delay_min \in Nat /\ p.delay_max \in Nat /\ 2 * PERIOD_S \in Nat
  BY PeriodAssumption DEF Policy
<1>2. QED
  BY <1>1 DEF DelayWindow

\* A code that matched a candidate key fits the round that offered the key.
LEMMA JoinFits ==
  ASSUME JInv, NEW code \in Codes, NEW h \in Slots \X (1 .. MAX_QUORUM), Joins(h, code)
  PROVE  Fits(PolicyOf(h[1]), TickedState[h[1]], h[2], Entered(h[1], code))
<1> DEFINE i == h[1]
           kidx == h[2]
           p == PolicyOf(i)
           st == TickedState[i]
           e == Entered(i, code)
           d == DelayWindow(p)
<1>1. /\ i \in Slots /\ kidx \in 1 .. MAX_QUORUM /\ p \in Policy /\ SlotOK(SlotTable[i])
      /\ p = SlotTable[i].policy
  BY SlotFacts DEF PolicyOf, Policies
<1>2. st \in SlotState /\ RoundInv(p, st, burned[i]) /\ code.counter \in Nat /\ now \in Nat
  BY <1>1, TickedTypes, TickedInv, CodesType DEF JInv, HInv, Inv, TypeOK
<1>3. e.at = now /\ e.key = code.key /\ e.counter = code.counter
  BY <1>1, EnteredFacts DEF JInv
<1> HIDE DEF st
<1>4. MatchKey(CandKey(i, kidx), code, d)
  BY DEF Joins, RealHit
<1>5. code.key = p.keys[kidx]
  BY <1>4 DEF MatchKey, CandKey
<1>6. d.min \in Nat /\ d.max \in Nat
  BY <1>1, WindowType
<1>7. OfAge(p, e)
  <2>1. SatSub(now, d.min) \in Nat /\ SatSub(now, d.max) \in Nat
    <3> HIDE DEF d
    <3> QED BY <1>2, <1>6 DEF SatSub
  <2>2. /\ code.counter * PERIOD_S <= SatSub(now, d.min)
        /\ code.counter * PERIOD_S + PERIOD_S > SatSub(now, d.max)
    <3>1. Between(code.counter, SatSub(now, d.max) \div PERIOD_S,
                                SatSub(now, d.min) \div PERIOD_S)
      BY <1>4 DEF MatchKey
    <3> HIDE DEF d
    <3> QED BY <1>2, <2>1, <3>1, SearchedAge
  <2>3. QED
    BY <1>3, <2>2 DEF OfAge
<1>8. kidx \in Candidates(p, st)
  BY DEF Joins, ScanStopsAt, Hits, st
<1>9. p.keys # << >> /\ p.keys \in Seq(Keys) /\ (p.kind = "Path" => p.need <= Len(p.keys))
  BY <1>1 DEF SlotOK, Policy
<1>10. p.kind = "Path" => kidx = st.count + 1 /\ kidx <= p.need
  <2>1. st.count \in Nat /\ p.need \in Nat
    BY <1>1, <1>2 DEF SlotState, Policy
  <2>2. p.kind = "Path" => st.count < p.need
    BY <1>2 DEF RoundInv
  <2>3. p.kind = "Path" => kidx = st.count + 1
    BY <1>8, <2>2 DEF Candidates
  <2> HIDE DEF p, kidx
  <2>4. QED
    BY <2>1, <2>2, <2>3
<1>11. kidx \in DOMAIN p.keys
  BY <1>1, <1>8, <1>9, <1>10 DEF Candidates, Policy
<1>12. st.count > 0 => st.last_counter < code.counter
  <2>1. code.counter > burned[i] /\ burned[i] \in Nat
    BY <1>1 DEF Joins, JInv, HInv, Inv, TypeOK
  <2>2. QED
    BY <1>2, <2>1 DEF RoundInv, SlotState
<1>13. p.kind = "Quorum" => First(p, kidx)
  BY ScanFirst DEF Joins
<1>14. now <= MaxTime
  BY DEF JInv
<1>15. p.kind = "Quorum" /\ st.count > 0 => e.after = st.last_counter
  <2>1. p.kind = "Quorum" => Len(Carried(i)) = st.count
    BY <1>1, TickedRound DEF Round, Counting, st
  <2>2. p.kind = "Quorum" /\ st.count > 0 => e.after = burned[i]
    BY <1>1, <2>1, EnteredFacts DEF JInv
  <2>3. st.count > 0 => st.last_counter = burned[i]
    BY <1>2 DEF RoundInv
  <2>4. QED
    BY <2>2, <2>3
<1> HIDE DEF e, p, kidx
<1>16. QED
  BY <1>5, <1>7, <1>10, <1>11, <1>12, <1>13, <1>14, <1>3, <1>15 DEF Fits, e, p, kidx, st

LEMMA EnterClock ==
  ASSUME NEW code, NEW shut, EnterCode(code, shut)
  PROVE  now' = now
BY DEF EnterCode, EnterVetoed, EnterInvalid, EnterMatched, EnterRefused,
       EnterAdvanced, EnterSatisfied, EnterNegative

\* What an entered code makes of the history, with its LETs named.
LEMMA HEnterFacts ==
  ASSUME NEW code, NEW shut, HEnter(code, shut)
  PROVE  /\ EnterCode(code, shut)
         /\ \A j \in Slots :
              trail'[j] = IF (Completes /\ outcome'.slot = j) \/ state'[j] = Fresh THEN << >>
                          ELSE IF Counts(j) THEN Append(Carried(j), Entered(j, code))
                          ELSE Carried(j)
         /\ Completes /\ Counts(outcome'.slot) =>
              evidence' = [slot |-> outcome'.slot,
                           round |-> Append(Carried(outcome'.slot), Entered(outcome'.slot, code))]
         /\ ~Completes => evidence' = NoEvidence
BY DEF HEnter

\* A slot the code does not count for.
LEMMA OtherRound ==
  ASSUME JInv, NEW j \in Slots, ~Counts(j),
         state'[j] \in {Fresh, TickedState[j]},
         trail'[j] = IF state'[j] = Fresh THEN << >> ELSE Carried(j)
  PROVE  Round(PolicyOf(j), state'[j], trail'[j])
<1>1. CASE state'[j] = Fresh
  BY <1>1, RoundFresh DEF Fresh
<1>2. CASE state'[j] # Fresh
  BY <1>2, TickedRound
<1>3. QED
  BY <1>1, <1>2

LEMMA HEnterRounds ==
  ASSUME ClockFits, JInv, NEW code \in Codes, NEW shut, HEnter(code, shut)
  PROVE  Rounds' /\ RoundJustified'
<1>1. Inv /\ HInv /\ EnterCode(code, shut)
  BY HEnterFacts DEF JInv, HInv
<1>2. \A j \in Slots :
        trail'[j] = IF (Completes /\ outcome'.slot = j) \/ state'[j] = Fresh THEN << >>
                    ELSE IF Counts(j) THEN Append(Carried(j), Entered(j, code))
                    ELSE Carried(j)
  BY HEnterFacts
<1>3. CASE CountsForNone /\ \A j \in Slots : state'[j] \in {Fresh, TickedState[j]}
  <2>1. ~Completes /\ \A j \in Slots : ~Counts(j)
    BY <1>3 DEF CountsForNone, Completes, Counts
  <2>2. \A j \in Slots : Round(PolicyOf(j), state'[j], trail'[j])
    BY <1>2, <1>3, <2>1, OtherRound
  <2>3. evidence' = NoEvidence
    BY <2>1, HEnterFacts
  <2>4. QED
    BY <2>2, <2>3 DEF Rounds, RoundJustified, PolicyOf, Policies
<1>4. ASSUME NEW h \in Slots \X (1 .. MAX_QUORUM), Joins(h, code)
      PROVE  Rounds' /\ RoundJustified'
  <2> DEFINE i == h[1]
             p == PolicyOf(i)
             st == TickedState[i]
             e == Entered(i, code)
             r == Carried(i)
  <2>1. PICK res \in Verdicts(i, h[2], code) :
          /\ state' = [TickedState EXCEPT ![i] = res.st]
          /\ IF res.verdict = "Fire"
               THEN outcome'.kind \in {"Fired", "Armed", "Exhausted"}
               ELSE outcome'.kind = VerdictOutcome(res.verdict)
    BY <1>4 DEF Joins
  <2>2. i \in Slots /\ h[2] \in Nat /\ p \in Policy /\ outcome'.slot = i
    BY <1>4, SlotFacts DEF MAX_QUORUM, Joins
  <2>3. /\ TickedState \in [Slots -> SlotState] /\ st \in SlotState
        /\ burned[i] \in Nat /\ RoundInv(p, st, burned[i])
    BY <1>1, <2>2, TickedTypes, TickedInv DEF Inv, TypeOK
  <2>4. e \in Entry /\ e.counter = code.counter /\ e.at = now
    BY <1>1, <2>2, EnteredFacts
  <2>5. r \in Seq(Entry) /\ Round(p, st, r)
    BY <1>1, <2>2, CarriedFacts, TickedRound
  <2>6. Fits(p, st, h[2], e)
    BY <1>4, JoinFits
  <2>7. res \in OnCode(p, st, h[2], e.counter, e.at)
    BY <2>1, <2>4 DEF Verdicts
  <2>8. p.window + MaxTime < Word
    BY <2>2 DEF ClockFits
  <2>9. Follows(p, res, r, e)
    <3> HIDE DEF p, st, e, r, i
    <3> QED BY <2>2, <2>3, <2>4, <2>5, <2>6, <2>7, <2>8, CodeRound
  <2>10. state'[i] = res.st
    BY <2>1, <2>2, <2>3
  <2>11. res.verdict \in Verdict
    <3>1. code.counter > burned[i] /\ code.counter \in Nat
      BY <1>4, CodesType DEF Joins
    <3>2. res \in OnCode(p, st, h[2], code.counter, now) /\ now \in Nat
      BY <1>1, <2>1 DEF Verdicts, Inv, TypeOK
    <3> HIDE DEF p, st, i
    <3> QED BY <2>2, <2>3, <3>1, <3>2, OnCodeFacts
  <2>12. ASSUME NEW j \in Slots, j # i
         PROVE  Round(PolicyOf(j), state'[j], trail'[j])
    <3>1. state'[j] = TickedState[j]
      BY <2>1, <2>3, <2>12
    <3>2. ~Counts(j) /\ outcome'.slot # j
      BY <2>2, <2>12 DEF Counts
    <3>3. trail'[j] = IF state'[j] = Fresh THEN << >> ELSE Carried(j)
      BY <1>2, <3>2
    <3>4. QED
      BY <3>1, <3>2, <3>3, OtherRound
  <2>13. res.verdict = "Fire" <=> Completes
    BY <2>1, <2>11 DEF Completes, VerdictOutcome, Verdict
  <2>14. res.verdict \in {"Fire", "Progress"} <=> Counts(i)
    BY <2>1, <2>2, <2>11 DEF Counts, Completes, VerdictOutcome, Verdict
  <2>15. Round(p, state'[i], trail'[i])
    <3>1. CASE state'[i] = Fresh
      <4>1. trail'[i] = << >>
        BY <1>2, <2>2, <3>1
      <4>2. QED
        BY <3>1, <4>1, RoundFresh DEF Fresh
    <3>2. CASE res.verdict = "Fire"
      <4>1. trail'[i] = << >>
        BY <1>2, <2>2, <2>13, <3>2
      <4>2. QED
        BY <2>9, <2>10, <3>2, <4>1 DEF Follows
    <3>3. CASE state'[i] # Fresh /\ res.verdict = "Progress"
      <4>1. trail'[i] = Append(r, e)
        BY <1>2, <2>2, <2>13, <2>14, <3>3
      <4>2. QED
        BY <2>9, <2>10, <3>3, <4>1 DEF Follows
    <3>4. CASE state'[i] # Fresh /\ res.verdict \in {"Ignored", "Beat"}
      <4>1. trail'[i] = r
        BY <1>2, <2>2, <2>13, <2>14, <3>4
      <4>2. QED
        BY <2>9, <2>10, <3>4, <4>1 DEF Follows
    <3>5. res.verdict = "Reset" => state'[i] = Fresh
      BY <2>9, <2>10 DEF Follows
    <3>6. QED
      BY <2>11, <3>1, <3>2, <3>3, <3>4, <3>5 DEF Verdict
  <2>16. Rounds'
    BY <2>12, <2>15 DEF Rounds, PolicyOf, Policies
  <2>17. RoundJustified'
    <3>1. CASE ~Completes
      BY <3>1, HEnterFacts DEF RoundJustified
    <3>2. CASE Completes
      <4>1. evidence' = [slot |-> i, round |-> Append(r, e)]
        BY <2>2, <2>13, <2>14, <3>2, HEnterFacts
      <4>2. RoundOK(p, Append(r, e))
        BY <2>9, <2>13, <3>2 DEF Follows
      <4>3. RoundOK(PolicyOf(evidence'.slot), evidence'.round)
        BY <4>1, <4>2
      <4>4. QED
        BY <4>3 DEF RoundJustified, PolicyOf, Policies
    <3>3. QED
      BY <3>1, <3>2
  <2>18. QED
    BY <2>16, <2>17
<1>5. QED
  BY <1>1, <1>3, <1>4, EnterJoins

LEMMA JInitInv == ClockFits /\ HInit => JInv
<1> SUFFICES ASSUME ClockFits, HInit PROVE JInv
  OBVIOUS
<1>1. HInv
  BY HInitInv
<1>2. now <= MaxTime
  BY DEF ClockFits, HInit, Init
<1>3. Rounds
  BY RoundFresh DEF Rounds, HInit, Init, Fresh
<1>4. QED
  BY <1>1, <1>2, <1>3 DEF JInv, RoundJustified, HInit

LEMMA JNextInv == ClockFits /\ JInv /\ [HNext]_hvars => JInv'
<1> SUFFICES ASSUME ClockFits, JInv, [HNext]_hvars PROVE JInv'
  OBVIOUS
<1>1. HInv'
  BY HNextInv DEF JInv
<1>2. CASE HTick
  <2>1. /\ \A i \in Slots : state'[i] = TickedState[i] /\ trail'[i] = Carried(i)
        /\ now' = now /\ evidence' = NoEvidence
    BY <1>2 DEF HTick, Tick, TickedState
  <2>2. \A i \in Slots : Round(PolicyOf(i), state'[i], trail'[i])
    BY <2>1, TickedRound
  <2>3. QED
    BY <1>1, <2>1, <2>2 DEF JInv, Rounds, RoundJustified, PolicyOf, Policies
<1>3. ASSUME NEW code \in Codes, NEW shut \in SUBSET GateKinds, HEnter(code, shut)
      PROVE  JInv'
  <2>1. now' = now
    BY <1>3, EnterClock DEF HEnter
  <2>2. QED
    BY <1>1, <1>3, <2>1, HEnterRounds DEF JInv
<1>4. CASE HOther
  <2>1. UNCHANGED <<state, trail>> /\ evidence' = NoEvidence
    BY <1>4 DEF HOther, PassTime, SetClock, TakeRelocks, TakeFires, TakeReceipt, Attest
  <2>2. now' <= MaxTime
    <3>1. now \in Nat /\ MaxTime \in Nat /\ StartTime \in Nat /\ now <= MaxTime
      BY BoundAssumption DEF JInv, HInv, Inv, TypeOK
    <3>2. QED
      BY <1>4, <3>1
         DEF HOther, PassTime, SetClock, TakeRelocks, TakeFires, TakeReceipt, Attest
  <2>3. QED
    BY <1>1, <2>1, <2>2 DEF JInv, Rounds, RoundJustified, PolicyOf, Policies
<1>5. CASE UNCHANGED hvars
  BY <1>1, <1>5 DEF JInv, Rounds, RoundJustified, PolicyOf, Policies, hvars, vars
<1>6. QED
  BY <1>2, <1>3, <1>4, <1>5 DEF HNext

\* No slot acts without the full round its policy describes, whatever was typed,
\* reset, vetoed, gated or forgotten in between: the count, the last counter,
\* the mask and the window start that the engine keeps are enough to judge the
\* code that completes it (on_code, policy.rs:311-432; engine.rs:301-407).
THEOREM RoundsEarned ==
  ASSUME ClockFits
  PROVE  HSpec => []RoundJustified
<1>1. HInit => JInv
  BY JInitInv
<1>2. JInv /\ [HNext]_hvars => JInv'
  BY JNextInv
<1>3. JInv => RoundJustified
  BY DEF JInv
<1>4. QED
  BY <1>1, <1>2, <1>3, PTL DEF HSpec
===============================================================================
