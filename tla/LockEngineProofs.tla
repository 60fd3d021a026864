--------------------------- MODULE LockEngineProofs ---------------------------
(***************************************************************************)
(* Proofs about LockEngine, for every slot table, decoy table, gate set,   *)
(* buffer size and period.                                                 *)
(*                                                                         *)
(* The inductive invariant is Inv: the types, and for each slot            *)
(*   RoundInv   what its runtime state says of its open round,             *)
(*   BudgetInv  that an armed slot has a veto window and still has budget, *)
(* which is what RoundCoherent and BudgetKept need to survive a tick that  *)
(* fires a slot long after the code that armed it.                         *)
(***************************************************************************)
EXTENDS LockEngine, FiniteSetTheorems, TLAPS

\* The state of one slot's round, given its policy and its replay watermark.
RoundInv(p, st, b) ==
  /\ st.count > 0 => p.kind # "AlwaysValid" /\ st.last_counter = b
  /\ p.kind \in {"Sequence", "Path", "Quorum"} => st.count < p.need
  /\ p.kind = "Sequence" /\ st.count > 0 /\ p.gap_min <= p.gap_max =>
       /\ p.gap_min <= st.pace_lo
       /\ st.pace_lo <= st.pace_hi
       /\ st.pace_hi <= p.gap_max
  /\ p.kind = "Quorum" => IsFiniteSet(st.seen) /\ Cardinality(st.seen) = st.count
  /\ st.sustained => p.kind = "DeadMan"

\* A slot's budget, given its deadline and how often it has fired.
BudgetInv(i, armed, fired) ==
  /\ armed # NotArmed => SlotTable[i].veto_delay > 0
  /\ SlotTable[i].budget > 0 => fired <= SlotTable[i].budget
  /\ SlotTable[i].budget > 0 /\ armed # NotArmed => fired < SlotTable[i].budget

Inv ==
  /\ TypeOK
  /\ \A i \in Slots : RoundInv(PolicyOf(i), state[i], burned[i])
  /\ \A i \in Slots : BudgetInv(i, armed_until[i], fired_count[i])

-------------------------------------------------------------------------------
(***************************************************************************)
(* The slot table and the policy state machines.                           *)
(***************************************************************************)
LEMMA SlotFacts ==
  ASSUME NEW i \in Slots
  PROVE  /\ i \in Nat /\ i # 0
         /\ SlotTable[i] \in Slot
         /\ PolicyOf(i) \in Policy
         /\ SlotOK(SlotTable[i])
<1>1. SlotTable[i] \in Slot
  BY SlotAssumption DEF Slots
<1>2. Len(SlotTable) \in Nat
  BY SlotAssumption
<1>3. QED
  BY <1>1, <1>2, SlotAssumption DEF Slots, Slot, PolicyOf, Policies

LEMMA FreshType == Fresh \in SlotState
BY DEF Fresh, SlotState

LEMMA FreshInv ==
  ASSUME NEW p \in Policy, NEW b \in Nat
  PROVE  RoundInv(p, Fresh, b)
BY FS_EmptySet DEF RoundInv, Fresh, Policy

\* The window drawn for the next step lies inside the configured one and is
\* never empty (pace_draw, policy.rs:257-271).
LEMMA PaceWindowFacts ==
  ASSUME NEW p \in Policy, NEW w \in PaceWindows(p)
  PROVE  /\ w.lo \in Nat /\ w.hi \in Nat
         /\ p.gap_min <= p.gap_max =>
              p.gap_min <= w.lo /\ w.lo <= w.hi /\ w.hi <= p.gap_max
<1> DEFINE span == IF p.gap_max >= p.gap_min THEN p.gap_max - p.gap_min ELSE 0
           j == IF p.pace_jitter <= span \div 2 THEN p.pace_jitter ELSE span \div 2
<1>1. p.gap_min \in Nat /\ p.gap_max \in Nat /\ p.pace_jitter \in Nat
  BY DEF Policy
<1>2. span \in Nat /\ span <= p.gap_max
  BY <1>1
<1>3. j \in Nat /\ 2 * j <= span
  <2> HIDE DEF span
  <2> QED BY <1>1, <1>2
<1>4. w.lo \in p.gap_min .. (p.gap_min + j) /\ w.hi \in (p.gap_max - j) .. p.gap_max
  BY DEF PaceWindows
<1>5. CASE p.gap_max >= p.gap_min
  <2>1. span = p.gap_max - p.gap_min
    BY <1>5
  <2> HIDE DEF span, j
  <2> QED BY <2>1, <1>1, <1>2, <1>3, <1>4
<1>6. CASE ~(p.gap_max >= p.gap_min)
  <2> HIDE DEF span, j
  <2> QED BY <1>6, <1>1, <1>2, <1>3, <1>4
<1>7. QED
  BY <1>5, <1>6

Verdict == {"Ignored", "Fire", "Reset", "Progress", "Beat"}

\* Counting a code keeps the types.
LEMMA CountedType ==
  ASSUME NEW st \in SlotState, NEW c \in Nat, NEW t \in Nat
  PROVE  Counted(st, c, t) \in SlotState
<1>1. st.count + 1 \in Nat
  BY DEF SlotState
<1>2. [[[st EXCEPT !.count = st.count + 1] EXCEPT !.last_counter = c]
          EXCEPT !.last_code = t] \in SlotState
  BY <1>1 DEF SlotState
<1>3. QED
  BY <1>2 DEF Counted

LEMMA OnSequenceFacts ==
  ASSUME NEW p \in Policy, p.kind = "Sequence", NEW st \in SlotState,
         NEW c \in Nat, NEW t \in Nat, NEW b \in Nat, c > b,
         RoundInv(p, st, b), NEW r \in OnSequence(p, st, c, t)
  PROVE  r.st \in SlotState /\ r.verdict \in Verdict /\ RoundInv(p, r.st, c)
<1> DEFINE start == IF st.count = 0 THEN t ELSE st.window_start
           next == Counted([st EXCEPT !.window_start = start], c, t)
<1>1. next \in SlotState
  BY CountedType DEF SlotState
<1>2. next.count = st.count + 1 /\ next.last_counter = c /\ next.sustained = st.sustained
  BY DEF Counted, SlotState
<1>3. st.count \in Nat /\ p.need \in Nat /\ next.count \in Nat
  BY <1>1 DEF SlotState, Policy
<1> HIDE DEF next
<1>4. \/ r = Result(Fresh, "Reset")
      \/ r = Result(Fresh, "Fire")
      \/ /\ ~Satisfied(p, next)
         /\ \E w \in PaceWindows(p) :
              r = Result([next EXCEPT !.pace_lo = w.lo, !.pace_hi = w.hi], "Progress")
  BY DEF OnSequence, next
<1>5. CASE r = Result(Fresh, "Reset") \/ r = Result(Fresh, "Fire")
  BY <1>5, FreshType, FreshInv DEF Result, Verdict
<1>6. ASSUME NEW w \in PaceWindows(p), ~Satisfied(p, next),
             r = Result([next EXCEPT !.pace_lo = w.lo, !.pace_hi = w.hi], "Progress")
      PROVE  r.st \in SlotState /\ r.verdict \in Verdict /\ RoundInv(p, r.st, c)
  <2>1. /\ w.lo \in Nat /\ w.hi \in Nat
        /\ p.gap_min <= p.gap_max =>
             p.gap_min <= w.lo /\ w.lo <= w.hi /\ w.hi <= p.gap_max
    BY PaceWindowFacts
  <2>2. r.st = [next EXCEPT !.pace_lo = w.lo, !.pace_hi = w.hi] /\ r.verdict = "Progress"
    BY <1>6 DEF Result
  <2>3. r.st \in SlotState
    BY <1>1, <2>1, <2>2 DEF SlotState
  <2>4. /\ r.st.count = next.count /\ r.st.last_counter = next.last_counter
        /\ r.st.sustained = next.sustained
        /\ r.st.pace_lo = w.lo /\ r.st.pace_hi = w.hi
    BY <1>1, <2>2 DEF SlotState
  <2>5. next.count < p.need
    BY <1>3, <1>6 DEF Satisfied
  <2>6. ~st.sustained
    BY DEF RoundInv
  <2>7. RoundInv(p, r.st, c)
    BY <1>2, <1>3, <2>1, <2>4, <2>5, <2>6 DEF RoundInv
  <2>8. QED
    BY <2>2, <2>3, <2>7 DEF Verdict
<1>7. QED
  BY <1>4, <1>5, <1>6

LEMMA OnPathFacts ==
  ASSUME NEW p \in Policy, p.kind = "Path", NEW st \in SlotState,
         NEW c \in Nat, NEW t \in Nat, NEW b \in Nat, c > b,
         RoundInv(p, st, b), NEW r \in OnPath(p, st, c, t)
  PROVE  r.st \in SlotState /\ r.verdict \in Verdict /\ RoundInv(p, r.st, c)
<1> DEFINE next == Counted(st, c, t)
<1>1. next \in SlotState
  BY CountedType
<1>2. next.count = st.count + 1 /\ next.last_counter = c /\ next.sustained = st.sustained
  BY DEF Counted, SlotState
<1>3. st.count \in Nat /\ p.need \in Nat /\ next.count \in Nat
  BY <1>1 DEF SlotState, Policy
<1> HIDE DEF next
<1>4. \/ r = Result(Fresh, "Reset")
      \/ r = Result(Fresh, "Fire")
      \/ ~Satisfied(p, next) /\ r = Result(next, "Progress")
  BY DEF OnPath, next
<1>5. CASE r = Result(Fresh, "Reset") \/ r = Result(Fresh, "Fire")
  BY <1>5, FreshType, FreshInv DEF Result, Verdict
<1>6. CASE ~Satisfied(p, next) /\ r = Result(next, "Progress")
  <2>1. r.st = next /\ r.verdict = "Progress"
    BY <1>6 DEF Result
  <2>2. next.count < p.need
    BY <1>3, <1>6 DEF Satisfied
  <2>3. RoundInv(p, next, c)
    BY <1>2, <1>3, <2>2 DEF RoundInv
  <2>4. QED
    BY <1>1, <2>1, <2>3 DEF Verdict
<1>7. QED
  BY <1>4, <1>5, <1>6

LEMMA OnDeadManFacts ==
  ASSUME NEW p \in Policy, p.kind = "DeadMan", NEW st \in SlotState,
         NEW c \in Nat, NEW t \in Nat, NEW r \in OnDeadMan(st, c, t)
  PROVE  /\ r.st \in SlotState /\ r.verdict \in Verdict /\ RoundInv(p, r.st, c)
         /\ r.st.sustained
<1> DEFINE alive == [st EXCEPT !.last_counter = c, !.last_code = t]
<1>1. alive \in SlotState /\ alive.last_counter = c /\ alive.sustained = st.sustained
  BY DEF SlotState
<1> HIDE DEF alive
<1>2. CASE st.sustained /\ r = Result(alive, "Beat")
  <2>1. r.st = alive /\ r.verdict = "Beat"
    BY <1>2 DEF Result
  <2>2. r.st.sustained
    BY <1>1, <1>2, <2>1
  <2>3. RoundInv(p, alive, c)
    BY <1>1 DEF RoundInv
  <2>4. QED
    BY <1>1, <2>1, <2>2, <2>3 DEF Verdict
<1>3. CASE r = Result([alive EXCEPT !.sustained = TRUE, !.count = 1], "Fire")
  <2>1. /\ r.st = [alive EXCEPT !.sustained = TRUE, !.count = 1]
        /\ r.verdict = "Fire"
    BY <1>3 DEF Result
  <2> DEFINE awake == [alive EXCEPT !.sustained = TRUE]
  <2>2. awake \in SlotState /\ awake.last_counter = c
    BY <1>1 DEF SlotState
  <2>3. r.st = [awake EXCEPT !.count = 1]
    BY <2>1
  <2> HIDE DEF awake
  <2>4. r.st \in SlotState /\ r.st.last_counter = c
    BY <2>2, <2>3 DEF SlotState
  <2>5. r.st.sustained = TRUE
    BY <1>1, <2>1 DEF SlotState
  <2>6. RoundInv(p, r.st, c)
    BY <2>4 DEF RoundInv
  <2>7. QED
    BY <2>1, <2>4, <2>5, <2>6 DEF Verdict
<1>4. QED
  BY <1>2, <1>3 DEF OnDeadMan, alive

LEMMA OnQuorumFacts ==
  ASSUME NEW p \in Policy, p.kind = "Quorum", NEW st \in SlotState,
         NEW k \in Nat, NEW c \in Nat, NEW t \in Nat, NEW b \in Nat, c > b,
         RoundInv(p, st, b), NEW r \in OnQuorum(p, st, k, c, t)
  PROVE  r.st \in SlotState /\ r.verdict \in Verdict /\ RoundInv(p, r.st, c)
<1> DEFINE start == IF st.count = 0 THEN t ELSE st.window_start
           here == [st EXCEPT !.window_start = start, !.last_kidx = k,
                              !.seen = @ \cup {k}]
           next == Counted(here, c, t)
<1>1. /\ here \in SlotState /\ here.count = st.count
      /\ here.seen = st.seen \cup {k} /\ here.sustained = st.sustained
  BY DEF SlotState
<1> HIDE DEF here
<1>2. next \in SlotState
  BY <1>1, CountedType
<1>3. /\ next.count = st.count + 1 /\ next.last_counter = c
      /\ next.seen = st.seen \cup {k} /\ next.sustained = st.sustained
  BY <1>1 DEF Counted, SlotState
<1>4. st.count \in Nat /\ p.need \in Nat /\ next.count \in Nat
  BY <1>2 DEF SlotState, Policy
<1> HIDE DEF next
<1>5. \/ r = Result(Fresh, "Reset")
      \/ r = Result(Fresh, "Fire")
      \/ r = Result([st EXCEPT !.last_counter = c], "Ignored")
      \/ ~Repeats(st, k) /\ ~Satisfied(p, next) /\ r = Result(next, "Progress")
  BY DEF OnQuorum, next, here
<1>6. CASE r = Result(Fresh, "Reset") \/ r = Result(Fresh, "Fire")
  BY <1>6, FreshType, FreshInv DEF Result, Verdict
<1>7. CASE r = Result([st EXCEPT !.last_counter = c], "Ignored")
  <2>1. r.st = [st EXCEPT !.last_counter = c] /\ r.verdict = "Ignored"
    BY <1>7 DEF Result
  <2>2. /\ r.st \in SlotState /\ r.st.count = st.count /\ r.st.last_counter = c
        /\ r.st.seen = st.seen /\ r.st.sustained = st.sustained
    BY <2>1 DEF SlotState
  <2>3. RoundInv(p, r.st, c)
    BY <2>2 DEF RoundInv
  <2>4. QED
    BY <2>1, <2>2, <2>3 DEF Verdict
<1>8. CASE ~Repeats(st, k) /\ ~Satisfied(p, next) /\ r = Result(next, "Progress")
  <2>1. r.st = next /\ r.verdict = "Progress"
    BY <1>8 DEF Result
  <2>2. next.count < p.need
    BY <1>4, <1>8 DEF Satisfied
  <2>3. IsFiniteSet(st.seen) /\ Cardinality(st.seen) = st.count
    BY DEF RoundInv
  <2>4. k \notin st.seen
    <3>1. CASE st.count > 0
      BY <1>8, <3>1 DEF Repeats
    <3>2. CASE st.count = 0
      BY <2>3, <3>2, FS_EmptySet
    <3>3. QED
      BY <1>4, <3>1, <3>2
  <2>5. IsFiniteSet(next.seen) /\ Cardinality(next.seen) = next.count
    <3>1. /\ IsFiniteSet(st.seen \cup {k})
          /\ Cardinality(st.seen \cup {k}) = Cardinality(st.seen) + 1
      BY <2>3, <2>4, FS_AddElement
    <3>2. QED
      BY <1>3, <2>3, <3>1
  <2>6. RoundInv(p, next, c)
    BY <1>3, <1>4, <2>2, <2>5 DEF RoundInv
  <2>7. QED
    BY <1>2, <2>1, <2>6 DEF Verdict
<1>9. QED
  BY <1>5, <1>6, <1>7, <1>8

\* Whatever the policy, a code newer than the watermark leaves a round that the
\* new watermark covers (on_code, policy.rs:311-432).
LEMMA OnCodeFacts ==
  ASSUME NEW p \in Policy, NEW st \in SlotState, NEW k \in Nat, NEW c \in Nat,
         NEW t \in Nat, NEW b \in Nat, c > b, RoundInv(p, st, b),
         NEW r \in OnCode(p, st, k, c, t)
  PROVE  /\ r.st \in SlotState /\ r.verdict \in Verdict /\ RoundInv(p, r.st, c)
         /\ st.sustained => r.st.sustained
<1>1. ~(st.count > 0 /\ c <= st.last_counter)
  BY DEF RoundInv, SlotState
<1>2. p.kind \in PolicyKinds
  BY DEF Policy
<1>3. st.sustained => p.kind = "DeadMan"
  BY DEF RoundInv
<1>4. CASE p.kind = "AlwaysValid"
  <2>1. r = Result(st, "Fire")
    BY <1>1, <1>4 DEF OnCode
  <2>2. RoundInv(p, st, c)
    BY <1>4 DEF RoundInv, SlotState
  <2>3. QED
    BY <2>1, <2>2 DEF Result, Verdict
<1>5. CASE p.kind = "Sequence"
  <2>1. r \in OnSequence(p, st, c, t)
    BY <1>1, <1>5 DEF OnCode
  <2>2. QED
    BY <2>1, <1>3, <1>5, OnSequenceFacts
<1>6. CASE p.kind = "Path"
  <2>1. r \in OnPath(p, st, c, t)
    BY <1>1, <1>6 DEF OnCode
  <2>2. QED
    BY <2>1, <1>3, <1>6, OnPathFacts
<1>7. CASE p.kind = "DeadMan"
  <2>1. r \in OnDeadMan(st, c, t)
    BY <1>1, <1>7 DEF OnCode
  <2>2. QED
    BY <2>1, <1>7, OnDeadManFacts
<1>8. CASE p.kind = "Quorum"
  <2>1. r \in OnQuorum(p, st, k, c, t)
    BY <1>1, <1>8 DEF OnCode
  <2>2. QED
    BY <2>1, <1>3, <1>8, OnQuorumFacts
<1>9. QED
  BY <1>2, <1>4, <1>5, <1>6, <1>7, <1>8 DEF PolicyKinds

-------------------------------------------------------------------------------
(***************************************************************************)
(* Receipts.                                                               *)
(***************************************************************************)
Events(S) == S \in SUBSET [rank : Nat, action : Actions]

LEMMA ImageFinite ==
  ASSUME NEW S, IsFiniteSet(S), NEW f
  PROVE  IsFiniteSet({f[x] : x \in S})
<1> DEFINE g == [x \in S |-> f[x]]
<1>1. g \in Surjection(S, {f[x] : x \in S})
  BY DEF Surjection
<1>2. QED
  BY <1>1, FS_Surjection

LEMMA RelockActionType ==
  ASSUME NEW a \in Actions
  PROVE  RelockAction(a) \in Actions
BY DEF RelockAction, Actions

LEMMA SlotsFinite == IsFiniteSet(Slots)
<1>1. Len(SlotTable) \in Nat
  BY SlotAssumption
<1>2. QED
  BY <1>1, FS_Interval DEF Slots

\* A tick mints finitely many events, each with an action of a slot.
LEMMA TickEventsType == Events(TickEvents) /\ IsFiniteSet(TickEvents)
<1> DEFINE R == {j \in Slots : RelockDue(j)}
           F == {j \in Slots : FireDue(j)}
           rel == [i \in Slots |-> Event(2 * i, RelockAction(SlotTable[i].action))]
           fire == [i \in Slots |-> Event(2 * i + 1, SlotTable[i].action)]
<1>1. IsFiniteSet(R) /\ IsFiniteSet(F)
  BY SlotsFinite, FS_Subset
<1>2. TickEvents = {rel[i] : i \in R} \cup {fire[i] : i \in F}
  BY DEF TickEvents
<1>3. ASSUME NEW i \in Slots
      PROVE  rel[i] \in [rank : Nat, action : Actions]
             /\ fire[i] \in [rank : Nat, action : Actions]
  <2>1. SlotTable[i].action \in Actions /\ i \in Nat
    BY SlotFacts DEF Slot
  <2>2. QED
    BY <2>1, RelockActionType DEF Event
<1>4. IsFiniteSet({rel[i] : i \in R}) /\ IsFiniteSet({fire[i] : i \in F})
  <2> HIDE DEF rel, fire, R, F
  <2> QED BY <1>1, ImageFinite
<1>5. IsFiniteSet(TickEvents)
  <2> HIDE DEF rel, fire, R, F
  <2> QED BY <1>2, <1>4, FS_Union
<1>6. Events(TickEvents)
  BY <1>2, <1>3 DEF Events
<1>7. QED
  BY <1>5, <1>6

LEMMA LaterType ==
  ASSUME NEW i \in Slots, NEW a \in Actions
  PROVE  Later(i, a) \in [rank : Nat, action : Actions]
<1>1. Len(SlotTable) \in Nat /\ i \in Nat
  BY SlotAssumption, SlotFacts
<1>2. QED
  BY <1>1 DEF Later, Event

\* A hole of the buffer is counted by the holes up to it.
LEMMA HoleNumberType ==
  ASSUME NEW p \in 1 .. MaxReceipts, pending_receipt[p] = NoReceipt
  PROVE  HoleNumber(p) \in Nat /\ HoleNumber(p) > 0
<1> DEFINE H == {q \in 1 .. p : pending_receipt[q] = NoReceipt}
<1>1. IsFiniteSet(H)
  BY FS_Interval, FS_Subset, BoundAssumption
<1>2. p \in H
  BY BoundAssumption
<1>3. Cardinality(H) \in Nat /\ Cardinality(H) # 0
  BY <1>1, <1>2, FS_CardinalityType, FS_EmptySet
<1>4. QED
  BY <1>3 DEF HoleNumber

LEMMA MintType ==
  ASSUME TypeOK, NEW E, Events(E), IsFiniteSet(E), Mint(E)
  PROVE  /\ next_seq' \in Nat
         /\ pending_receipt' \in [1 .. MaxReceipts -> Receipt \cup {NoReceipt}]
<1>1. CASE HasConfirm
  <2>1. next_seq' \in Nat
    BY <1>1, FS_CardinalityType DEF Mint, TypeOK
  <2>2. ASSUME NEW p \in 1 .. MaxReceipts
        PROVE  Queued(E)[p] \in Receipt \cup {NoReceipt}
    <3> DEFINE here == {e \in E : Rank(e, E) = HoleNumber(p)}
    <3>1. CASE pending_receipt[p] = NoReceipt /\ here # {}
      <4>1. (CHOOSE e \in here : TRUE) \in E
        BY <3>1
      <4>2. (CHOOSE e \in here : TRUE).action \in Actions
        BY <4>1 DEF Events
      <4>3. next_seq + HoleNumber(p) - 1 \in Nat
        BY <3>1, HoleNumberType DEF TypeOK
      <4>4. Queued(E)[p] = [seq    |-> next_seq + HoleNumber(p) - 1,
                            action |-> (CHOOSE e \in here : TRUE).action]
        BY <3>1 DEF Queued
      <4>5. QED
        BY <4>2, <4>3, <4>4 DEF Receipt
    <3>2. CASE ~(pending_receipt[p] = NoReceipt /\ here # {})
      <4>1. Queued(E)[p] = pending_receipt[p]
        BY <3>2 DEF Queued
      <4>2. QED
        BY <4>1 DEF TypeOK
    <3>3. QED
      BY <3>1, <3>2
  <2>3. Queued(E) \in [1 .. MaxReceipts -> Receipt \cup {NoReceipt}]
    <3>1. Queued(E) = [p \in 1 .. MaxReceipts |-> Queued(E)[p]]
      BY DEF Queued
    <3>2. QED
      BY <2>2, <3>1
  <2>4. QED
    BY <1>1, <2>1, <2>3 DEF Mint
<1>2. CASE ~HasConfirm
  BY <1>2 DEF Mint, TypeOK
<1>3. QED
  BY <1>1, <1>2

-------------------------------------------------------------------------------
(***************************************************************************)
(* The tick every call begins with.                                        *)
(***************************************************************************)
LEMMA SaturatedFacts ==
  ASSUME NEW n \in 0 .. FiredMax
  PROVE  Saturated(n) \in 0 .. FiredMax /\ Saturated(n) <= n + 1
BY BoundAssumption DEF Saturated

LEMMA TickedTypes ==
  ASSUME TypeOK
  PROVE  /\ TickedState \in [Slots -> SlotState]
         /\ TickedArmed \in [Slots -> Nat \cup {NotArmed}]
         /\ TickedFired \in [Slots -> 0 .. FiredMax]
         /\ TickedRelock \subseteq Slots
         /\ TickedFire \subseteq Slots
<1>1. TickedState \in [Slots -> SlotState]
  BY FreshType DEF TypeOK, TickedState
<1>2. TickedArmed \in [Slots -> Nat \cup {NotArmed}]
  BY DEF TypeOK, TickedArmed
<1>3. TickedFired \in [Slots -> 0 .. FiredMax]
  BY SaturatedFacts DEF TypeOK, TickedFired
<1>4. TickedRelock \subseteq Slots /\ TickedFire \subseteq Slots
  BY DEF TypeOK, TickedRelock, TickedFire
<1>5. QED
  BY <1>1, <1>2, <1>3, <1>4

LEMMA TickedInv ==
  ASSUME Inv, NEW i \in Slots
  PROVE  /\ RoundInv(PolicyOf(i), TickedState[i], burned[i])
         /\ BudgetInv(i, TickedArmed[i], TickedFired[i])
<1>1. RoundInv(PolicyOf(i), state[i], burned[i]) /\ BudgetInv(i, armed_until[i], fired_count[i])
  BY DEF Inv
<1>2. PolicyOf(i) \in Policy /\ burned[i] \in Nat
  BY SlotFacts DEF Inv, TypeOK
<1>3. RoundInv(PolicyOf(i), TickedState[i], burned[i])
  BY <1>1, <1>2, FreshInv DEF TickedState
<1>4. CASE FireDue(i)
  <2>1. fired_count[i] \in 0 .. FiredMax /\ armed_until[i] # NotArmed
    BY <1>4 DEF Inv, TypeOK, FireDue
  <2>2. TickedArmed[i] = NotArmed /\ TickedFired[i] = Saturated(fired_count[i])
    BY <1>4 DEF TickedArmed, TickedFired
  <2>3. SlotTable[i].budget \in Nat
    BY SlotFacts DEF Slot
  <2>4. Saturated(fired_count[i]) \in Nat /\ Saturated(fired_count[i]) <= fired_count[i] + 1
    BY <2>1, SaturatedFacts
  <2>5. QED
    BY <1>1, <1>3, <2>1, <2>2, <2>3, <2>4 DEF BudgetInv
<1>5. CASE ~FireDue(i)
  BY <1>1, <1>3, <1>5 DEF TickedArmed, TickedFired
<1>6. QED
  BY <1>4, <1>5

\* A forced reset on top of the tick.
LEMMA ResetEventsType ==
  ASSUME NEW R \in SUBSET Slots
  PROVE  LET E == TickEvents \cup
                    {Later(i, RelockAction(SlotTable[i].action)) : i \in R}
         IN  Events(E) /\ IsFiniteSet(E)
<1> DEFINE late == [i \in Slots |-> Later(i, RelockAction(SlotTable[i].action))]
<1>1. IsFiniteSet(R)
  BY SlotsFinite, FS_Subset
<1>2. IsFiniteSet({late[i] : i \in R})
  <2> HIDE DEF late
  <2> QED BY <1>1, ImageFinite
<1>3. {Later(i, RelockAction(SlotTable[i].action)) : i \in R} = {late[i] : i \in R}
  OBVIOUS
<1>4. IsFiniteSet(TickEvents \cup {late[i] : i \in R})
  <2> HIDE DEF late
  <2> QED BY <1>2, TickEventsType, FS_Union
<1>5. ASSUME NEW i \in R
      PROVE  Later(i, RelockAction(SlotTable[i].action)) \in [rank : Nat, action : Actions]
  BY SlotFacts, LaterType, RelockActionType DEF Slot
<1>6. QED
  BY <1>3, <1>4, <1>5, TickEventsType DEF Events

LEMMA TickAndResetInv ==
  ASSUME Inv, NEW R \in SUBSET Slots, TickAndReset(R),
         UNCHANGED <<now, burned>>,
         lockout_until' \in [Slots -> Nat], outcome' \in Outcome
  PROVE  Inv'
<1> DEFINE owed == {i \in R : OwesRelock(i)}
<1>1. Events(TickEvents \cup {Later(i, RelockAction(SlotTable[i].action)) : i \in owed})
      /\ IsFiniteSet(TickEvents \cup
                       {Later(i, RelockAction(SlotTable[i].action)) : i \in owed})
  <2>1. owed \in SUBSET Slots
    OBVIOUS
  <2> HIDE DEF owed
  <2> QED BY <2>1, ResetEventsType
<1>2. /\ next_seq' \in Nat
      /\ pending_receipt' \in [1 .. MaxReceipts -> Receipt \cup {NoReceipt}]
  BY <1>1, MintType DEF Inv, TickAndReset
<1>3. state' \in [Slots -> SlotState]
  BY TickedTypes, FreshType DEF Inv, TickAndReset
<1>4. TypeOK'
  BY <1>2, <1>3, TickedTypes DEF Inv, TypeOK, TickAndReset
<1>5. ASSUME NEW i \in Slots
      PROVE  RoundInv(PolicyOf(i), state'[i], burned'[i])
  BY TickedInv, SlotFacts, FreshInv DEF Inv, TypeOK, TickAndReset
<1>6. ASSUME NEW i \in Slots
      PROVE  BudgetInv(i, armed_until'[i], fired_count'[i])
  BY TickedInv DEF TickAndReset
<1>7. QED
  BY <1>4, <1>5, <1>6 DEF Inv, PolicyOf, Policies

LEMMA TickInv == Inv /\ Tick => Inv'
<1> SUFFICES ASSUME Inv, Tick PROVE Inv'
  OBVIOUS
<1>1. /\ next_seq' \in Nat
      /\ pending_receipt' \in [1 .. MaxReceipts -> Receipt \cup {NoReceipt}]
  BY TickEventsType, MintType DEF Inv, Tick
<1>2. outcome' \in Outcome
  BY DEF Tick, NoOutcome, Outcome, OutcomeKinds
<1>3. TypeOK'
  BY <1>1, <1>2, TickedTypes DEF Inv, TypeOK, Tick
<1>4. QED
  BY <1>3, TickedInv DEF Inv, Tick, PolicyOf, Policies

-------------------------------------------------------------------------------
(***************************************************************************)
(* enter_code_with.                                                        *)
(***************************************************************************)
LEMMA CodesType ==
  ASSUME NEW code \in Codes
  PROVE  code.counter \in Nat
BY DEF Codes, NoCode

LEMMA VetoedInv ==
  ASSUME Inv, NEW code, EnterVetoed(code)
  PROVE  Inv'
<1>1. PICK i \in Slots :
        /\ state' = [TickedState EXCEPT ![i] = Fresh]
        /\ armed_until' = [TickedArmed EXCEPT ![i] = NotArmed]
        /\ fired_count' = TickedFired
        /\ pending_relock' = TickedRelock
        /\ pending_fire' = TickedFire
        /\ Mint(TickEvents)
        /\ Report("Vetoed", i)
        /\ UNCHANGED <<now, burned, lockout_until>>
  BY DEF EnterVetoed, VetoHits
<1>2. /\ next_seq' \in Nat
      /\ pending_receipt' \in [1 .. MaxReceipts -> Receipt \cup {NoReceipt}]
  BY <1>1, TickEventsType, MintType DEF Inv
<1>3. outcome' \in Outcome
  BY <1>1, SlotFacts DEF Report, Outcome, OutcomeKinds
<1>4. /\ state' \in [Slots -> SlotState]
      /\ armed_until' \in [Slots -> Nat \cup {NotArmed}]
  BY <1>1, TickedTypes, FreshType DEF Inv
<1>5. TypeOK'
  BY <1>1, <1>2, <1>3, <1>4, TickedTypes DEF Inv, TypeOK
<1>6. ASSUME NEW j \in Slots
      PROVE  RoundInv(PolicyOf(j), state'[j], burned'[j])
  BY <1>1, TickedInv, TickedTypes, SlotFacts, FreshInv DEF Inv, TypeOK
<1>7. ASSUME NEW j \in Slots
      PROVE  BudgetInv(j, armed_until'[j], fired_count'[j])
  <2>1. CASE j = i
    BY <1>1, <2>1, TickedInv, TickedTypes DEF BudgetInv, Inv
  <2>2. CASE j # i
    BY <1>1, <2>2, TickedInv, TickedTypes DEF Inv
  <2>3. QED
    BY <2>1, <2>2
<1>8. QED
  BY <1>5, <1>6, <1>7 DEF Inv, PolicyOf, Policies

LEMMA RefusedInv ==
  ASSUME Inv, NEW i \in Slots, NEW code, NEW shut, EnterRefused(i, code, shut)
  PROVE  Inv'
<1>1. outcome' \in Outcome
  BY SlotFacts DEF EnterRefused, Report, Outcome, OutcomeKinds
<1>2. lockout_until' \in [Slots -> Nat]
  BY DEF EnterRefused, Inv, TypeOK
<1>3. QED
  BY <1>1, <1>2, TickAndResetInv DEF EnterRefused

\* The part of the state that an accepted code changes beyond the tick.
LEMMA AcceptedInv ==
  ASSUME Inv, NEW i \in Slots, NEW kidx \in Nat, NEW code, code.counter \in Nat,
         NEW shut, Accepts(i, code, shut), NEW r \in Verdicts(i, kidx, code),
         state' = [TickedState EXCEPT ![i] = r.st],
         burned' = [burned EXCEPT ![i] = code.counter]
  PROVE  /\ state' \in [Slots -> SlotState]
         /\ burned' \in [Slots -> Nat]
         /\ \A j \in Slots : RoundInv(PolicyOf(j), state'[j], burned'[j])
         /\ r.verdict \in Verdict
         /\ TickedState[i].sustained => r.st.sustained
<1>1. /\ r.st \in SlotState /\ r.verdict \in Verdict
      /\ RoundInv(PolicyOf(i), r.st, code.counter)
      /\ TickedState[i].sustained => r.st.sustained
  <2>1. r \in OnCode(PolicyOf(i), TickedState[i], kidx, code.counter, now)
    BY DEF Verdicts
  <2>2. /\ PolicyOf(i) \in Policy /\ TickedState[i] \in SlotState
        /\ burned[i] \in Nat /\ now \in Nat /\ code.counter > burned[i]
    BY SlotFacts, TickedTypes DEF Inv, TypeOK, Accepts
  <2>3. RoundInv(PolicyOf(i), TickedState[i], burned[i])
    BY TickedInv
  <2>4. QED
    BY <2>1, <2>2, <2>3, OnCodeFacts
<1>2. state' \in [Slots -> SlotState] /\ burned' \in [Slots -> Nat]
  BY <1>1, TickedTypes DEF Inv, TypeOK
<1>3. ASSUME NEW j \in Slots
      PROVE  RoundInv(PolicyOf(j), state'[j], burned'[j])
  <2>1. CASE j = i
    BY <1>1, <2>1, TickedTypes DEF Inv, TypeOK
  <2>2. CASE j # i
    BY <2>2, TickedInv, TickedTypes DEF Inv, TypeOK
  <2>3. QED
    BY <2>1, <2>2
<1>4. QED
  BY <1>1, <1>2, <1>3

LEMMA AdvancedInv ==
  ASSUME Inv, NEW i \in Slots, NEW kidx \in Nat, NEW code, code.counter \in Nat,
         NEW shut, EnterAdvanced(i, kidx, code, shut)
  PROVE  Inv'
<1>1. PICK r \in Verdicts(i, kidx, code) :
        /\ r.verdict # "Fire"
        /\ state' = [TickedState EXCEPT ![i] = r.st]
        /\ Report(VerdictOutcome(r.verdict), i)
  BY DEF EnterAdvanced
<1>2. /\ state' \in [Slots -> SlotState] /\ burned' \in [Slots -> Nat]
      /\ \A j \in Slots : RoundInv(PolicyOf(j), state'[j], burned'[j])
      /\ r.verdict \in Verdict
  BY <1>1, AcceptedInv DEF EnterAdvanced
<1>3. outcome' \in Outcome
  BY <1>1, <1>2, SlotFacts
     DEF Report, VerdictOutcome, Verdict, Outcome, OutcomeKinds
<1>4. /\ next_seq' \in Nat
      /\ pending_receipt' \in [1 .. MaxReceipts -> Receipt \cup {NoReceipt}]
  BY TickEventsType, MintType DEF Inv, EnterAdvanced
<1>5. TypeOK'
  BY <1>2, <1>3, <1>4, TickedTypes DEF Inv, TypeOK, EnterAdvanced
<1>6. QED
  BY <1>2, <1>5, TickedInv DEF Inv, PolicyOf, Policies, EnterAdvanced

LEMMA SatisfiedInv ==
  ASSUME Inv, NEW i \in Slots, NEW kidx \in Nat, NEW code, code.counter \in Nat,
         NEW shut, EnterSatisfied(i, kidx, code, shut)
  PROVE  Inv'
<1>1. /\ state' \in [Slots -> SlotState] /\ burned' \in [Slots -> Nat]
      /\ \A j \in Slots : RoundInv(PolicyOf(j), state'[j], burned'[j])
  <2>1. PICK r \in Verdicts(i, kidx, code) :
          state' = [TickedState EXCEPT ![i] = r.st]
    BY DEF EnterSatisfied
  <2>2. QED
    BY <2>1, AcceptedInv DEF EnterSatisfied
<1>2. outcome' \in Outcome
  BY SlotFacts DEF EnterSatisfied, Report, Outcome, OutcomeKinds
<1>3. SlotTable[i].budget \in Nat /\ SlotTable[i].veto_delay \in Nat
      /\ SlotTable[i].action \in Actions
  BY SlotFacts DEF Slot
<1>4. TickedFired[i] \in 0 .. FiredMax /\ TickedFired[i] \in Nat
  BY TickedTypes DEF Inv
<1>5. BudgetInv(i, TickedArmed[i], TickedFired[i])
  BY TickedInv
<1>6. /\ next_seq' \in Nat
      /\ pending_receipt' \in [1 .. MaxReceipts -> Receipt \cup {NoReceipt}]
  <2>1. CASE Mint(TickEvents)
    BY <2>1, TickEventsType, MintType DEF Inv
  <2>2. CASE Mint(TickEvents \cup {Later(i, SlotTable[i].action)})
    <3> DEFINE E == TickEvents \cup {Later(i, SlotTable[i].action)}
    <3>1. IsFiniteSet(E)
      BY TickEventsType, FS_AddElement
    <3>2. Events(E)
      BY <1>3, TickEventsType, LaterType DEF Events
    <3> HIDE DEF E
    <3>3. QED
      BY <2>2, <3>1, <3>2, MintType DEF Inv, E
  <2>3. QED
    BY <2>1, <2>2 DEF EnterSatisfied
<1>7. /\ armed_until' \in [Slots -> Nat \cup {NotArmed}]
      /\ fired_count' \in [Slots -> 0 .. FiredMax]
      /\ \A j \in Slots : BudgetInv(j, armed_until'[j], fired_count'[j])
  <2>1. CASE armed_until' = TickedArmed /\ fired_count' = TickedFired
    BY <2>1, TickedTypes, TickedInv DEF Inv
  <2>2. CASE /\ ~BudgetSpent(i) /\ SlotTable[i].veto_delay > 0
             /\ armed_until' = [TickedArmed EXCEPT ![i] = now + SlotTable[i].veto_delay]
             /\ fired_count' = TickedFired
    <3>1. now + SlotTable[i].veto_delay \in Nat
      BY <1>3 DEF Inv, TypeOK
    <3>2. armed_until' \in [Slots -> Nat \cup {NotArmed}]
          /\ fired_count' \in [Slots -> 0 .. FiredMax]
      BY <2>2, <3>1, TickedTypes DEF Inv
    <3>3. BudgetInv(i, armed_until'[i], fired_count'[i])
      BY <1>3, <1>4, <1>5, <2>2 DEF BudgetInv, BudgetSpent
    <3>4. ASSUME NEW j \in Slots, j # i
          PROVE  BudgetInv(j, armed_until'[j], fired_count'[j])
      BY <2>2, <3>4, TickedInv, TickedTypes DEF Inv
    <3>5. QED
      BY <3>2, <3>3, <3>4
  <2>3. CASE /\ ~BudgetSpent(i) /\ SlotTable[i].veto_delay = 0
             /\ armed_until' = TickedArmed
             /\ fired_count' = [TickedFired EXCEPT ![i] = Saturated(@)]
    <3>1. /\ Saturated(TickedFired[i]) \in 0 .. FiredMax
          /\ Saturated(TickedFired[i]) <= TickedFired[i] + 1
      BY <1>4, SaturatedFacts
    <3>2. armed_until' \in [Slots -> Nat \cup {NotArmed}]
          /\ fired_count' \in [Slots -> 0 .. FiredMax]
      BY <2>3, <3>1, TickedTypes DEF Inv
    <3>3. fired_count'[i] = Saturated(TickedFired[i]) /\ armed_until'[i] = TickedArmed[i]
      BY <2>3, TickedTypes DEF Inv
    <3>4. BudgetInv(i, armed_until'[i], fired_count'[i])
      BY <1>3, <1>4, <1>5, <2>3, <3>1, <3>3 DEF BudgetInv, BudgetSpent
    <3>5. ASSUME NEW j \in Slots, j # i
          PROVE  BudgetInv(j, armed_until'[j], fired_count'[j])
      BY <2>3, <3>5, TickedInv, TickedTypes DEF Inv
    <3>6. QED
      BY <3>2, <3>4, <3>5
  <2>4. QED
    BY <2>1, <2>2, <2>3 DEF EnterSatisfied
<1>8. TypeOK'
  BY <1>1, <1>2, <1>6, <1>7, TickedTypes DEF Inv, TypeOK, EnterSatisfied
<1>9. QED
  BY <1>1, <1>7, <1>8 DEF Inv, PolicyOf, Policies

LEMMA NegativeInv ==
  ASSUME Inv, NEW i \in Slots, EnterNegative(i)
  PROVE  Inv'
<1>1. outcome' \in Outcome
  BY SlotFacts DEF EnterNegative, Report, Outcome, OutcomeKinds
<1>2. SlotTable[i].negative.secs \in Nat
  BY SlotFacts DEF Slot, Negatives
<1>3. lockout_until' \in [Slots -> Nat]
  BY <1>2 DEF EnterNegative, Inv, TypeOK
<1>4. PICK R \in SUBSET Slots : TickAndReset(R)
  BY DEF EnterNegative
<1>5. QED
  BY <1>1, <1>3, <1>4, TickAndResetInv DEF EnterNegative

LEMMA InvalidInv ==
  ASSUME Inv, EnterInvalid
  PROVE  Inv'
<1>1. outcome' \in Outcome
  BY DEF EnterInvalid, Report, Outcome, OutcomeKinds
<1>2. lockout_until' \in [Slots -> Nat]
  BY DEF EnterInvalid, Inv, TypeOK
<1>3. QED
  BY <1>1, <1>2, TickAndResetInv DEF EnterInvalid

LEMMA EnterCodeInv ==
  ASSUME Inv, NEW code \in Codes, NEW shut, EnterCode(code, shut)
  PROVE  Inv'
<1>1. CASE EnterVetoed(code)
  BY <1>1, VetoedInv
<1>2. CASE EnterInvalid
  BY <1>2, InvalidInv
<1>3. ASSUME NEW h \in Hits(code), EnterMatched(h[1], h[2], code, shut)
      PROVE  Inv'
  <2>1. h[1] \in Slots /\ h[2] \in Nat
    BY DEF Hits, MAX_QUORUM
  <2>2. code.counter \in Nat
    BY CodesType
  <2>3. CASE EnterRefused(h[1], code, shut)
    BY <2>1, <2>3, RefusedInv
  <2>4. CASE EnterAdvanced(h[1], h[2], code, shut)
    BY <2>1, <2>2, <2>4, AdvancedInv
  <2>5. CASE EnterSatisfied(h[1], h[2], code, shut)
    BY <2>1, <2>2, <2>5, SatisfiedInv
  <2>6. CASE EnterNegative(h[1])
    BY <2>1, <2>6, NegativeInv
  <2>7. QED
    BY <1>3, <2>3, <2>4, <2>5, <2>6 DEF EnterMatched
<1>4. QED
  BY <1>1, <1>2, <1>3 DEF EnterCode

-------------------------------------------------------------------------------
(***************************************************************************)
(* The caller, and the invariant of the specification.                     *)
(***************************************************************************)
LEMMA InitInv == Init => Inv
<1> SUFFICES ASSUME Init PROVE Inv
  OBVIOUS
<1>1. TypeOK
  BY FreshType, BoundAssumption
     DEF Init, TypeOK, NoOutcome, Outcome, OutcomeKinds, NoReceipt
<1>2. ASSUME NEW i \in Slots
      PROVE  RoundInv(PolicyOf(i), state[i], burned[i])
  BY SlotFacts, FreshInv DEF Init
<1>3. ASSUME NEW i \in Slots
      PROVE  BudgetInv(i, armed_until[i], fired_count[i])
  BY SlotFacts DEF Init, BudgetInv, Slot, SlotOK
<1>4. QED
  BY <1>1, <1>2, <1>3 DEF Inv

LEMMA AttestInv ==
  ASSUME Inv, NEW a \in {"Lock", "Unlock"}, Attest(a)
  PROVE  Inv'
<1>1. Events({Event(0, a)}) /\ IsFiniteSet({Event(0, a)})
  <2>1. Events({Event(0, a)})
    BY DEF Events, Event, Actions
  <2>2. IsFiniteSet({Event(0, a)})
    BY FS_Singleton
  <2>3. QED
    BY <2>1, <2>2
<1>2. /\ next_seq' \in Nat
      /\ pending_receipt' \in [1 .. MaxReceipts -> Receipt \cup {NoReceipt}]
  BY <1>1, MintType DEF Inv, Attest
<1>3. TypeOK'
  BY <1>2 DEF Inv, TypeOK, Attest, NoOutcome, Outcome, OutcomeKinds
<1>4. QED
  BY <1>3 DEF Inv, PolicyOf, Policies, Attest

LEMMA TakeReceiptInv == Inv /\ TakeReceipt => Inv'
<1> SUFFICES ASSUME Inv, TakeReceipt PROVE Inv'
  OBVIOUS
<1>1. pending_receipt' \in [1 .. MaxReceipts -> Receipt \cup {NoReceipt}]
  BY DEF Inv, TypeOK, TakeReceipt
<1>2. TypeOK'
  BY <1>1 DEF Inv, TypeOK, TakeReceipt, NoOutcome, Outcome, OutcomeKinds
<1>3. QED
  BY <1>2 DEF Inv, PolicyOf, Policies, TakeReceipt

LEMMA NextInv == Inv /\ [Next]_vars => Inv'
<1> SUFFICES ASSUME Inv, [Next]_vars PROVE Inv'
  OBVIOUS
<1> USE DEF Inv, TypeOK, NoOutcome, Outcome, OutcomeKinds, PolicyOf, Policies
<1>1. CASE PassTime
  BY <1>1 DEF PassTime
<1>2. ASSUME NEW t \in StartTime .. MaxTime, SetClock(t) PROVE Inv'
  <2>1. t \in Nat
    BY BoundAssumption
  <2>2. QED
    BY <1>2, <2>1 DEF SetClock
<1>3. CASE Tick
  BY <1>3, TickInv
<1>4. ASSUME NEW code \in Codes, NEW shut \in SUBSET GateKinds, EnterCode(code, shut)
      PROVE  Inv'
  BY <1>4, EnterCodeInv
<1>5. CASE TakeRelocks
  BY <1>5 DEF TakeRelocks
<1>6. CASE TakeFires
  BY <1>6 DEF TakeFires
<1>7. CASE TakeReceipt
  BY <1>7, TakeReceiptInv
<1>8. ASSUME NEW a \in {"Lock", "Unlock"}, Attest(a) PROVE Inv'
  BY <1>8, AttestInv
<1>9. CASE UNCHANGED vars
  BY <1>9 DEF vars
<1>10. QED
  BY <1>1, <1>2, <1>3, <1>4, <1>5, <1>6, <1>7, <1>8, <1>9 DEF Next

LEMMA InvHolds == Spec => []Inv
BY InitInv, NextInv, PTL DEF Spec

\* Every field of LockEngine keeps its type whatever codes, gates, drains and
\* clock changes the engine meets.
THEOREM TypeCorrect == Spec => []TypeOK
<1>1. Inv => TypeOK
  BY DEF Inv
<1>2. QED
  BY <1>1, InvHolds, PTL

\* A courier slot's budget is never overdrawn, veto window or not: the check at
\* arming (engine.rs:358) still holds when the window elapses (engine.rs:255).
THEOREM BudgetSafe == Spec => []BudgetKept
<1>1. Inv => BudgetKept
  BY DEF Inv, BudgetInv, BudgetKept
<1>2. QED
  BY <1>1, InvHolds, PTL

\* A slot's compressed round state never contradicts its policy or its replay
\* watermark (SlotState, policy.rs:221-243).
THEOREM RoundsCoherent == Spec => []RoundCoherent
<1>1. Inv => RoundCoherent
  BY DEF Inv, RoundInv, RoundCoherent
<1>2. QED
  BY <1>1, InvHolds, PTL

-------------------------------------------------------------------------------
(***************************************************************************)
(* The end of a sustain.                                                   *)
(***************************************************************************)

\* What one step does to the sustain of one slot.
SustainKept(i) ==
  SlotTable[i].veto_delay = 0 /\ state[i].sustained /\ ~state'[i].sustained
    => i \in pending_relock'

\* The tick a call begins with ends a sustain only by queueing its re-lock.
LEMMA TickSustain ==
  ASSUME Inv, NEW i \in Slots, state[i].sustained
  PROVE  TickedState[i].sustained \/ i \in TickedRelock
<1>1. PolicyOf(i).kind = "DeadMan"
  BY DEF Inv, RoundInv
<1>2. QED
  BY <1>1 DEF TickedState, TickedRelock, RelockDue

LEMMA ResetSustain ==
  ASSUME Inv, NEW R \in SUBSET Slots, TickAndReset(R), NEW i \in Slots
  PROVE  SustainKept(i)
<1> SUFFICES ASSUME state[i].sustained, ~state'[i].sustained
             PROVE  i \in pending_relock'
  BY DEF SustainKept
<1>1. CASE i \in TickedRelock
  BY <1>1 DEF TickAndReset
<1>2. CASE TickedState[i].sustained
  <2>1. i \in R
    BY <1>2 DEF TickAndReset
  <2>2. PolicyOf(i).kind = "DeadMan"
    BY DEF Inv, RoundInv
  <2>3. QED
    BY <1>2, <2>1, <2>2 DEF TickAndReset, OwesRelock
<1>3. QED
  BY <1>1, <1>2, TickSustain

LEMMA AcceptedSustain ==
  ASSUME Inv, NEW j \in Slots, NEW kidx \in Nat, NEW code, code.counter \in Nat,
         NEW shut, EnterAdvanced(j, kidx, code, shut) \/ EnterSatisfied(j, kidx, code, shut),
         NEW i \in Slots
  PROVE  SustainKept(i)
<1> SUFFICES ASSUME state[i].sustained, ~state'[i].sustained
             PROVE  i \in pending_relock'
  BY DEF SustainKept
<1>1. PICK r \in Verdicts(j, kidx, code) : state' = [TickedState EXCEPT ![j] = r.st]
  BY DEF EnterAdvanced, EnterSatisfied
<1>2. TickedState[j].sustained => r.st.sustained
  BY <1>1, AcceptedInv DEF EnterAdvanced, EnterSatisfied
<1>3. pending_relock' = TickedRelock
  BY DEF EnterAdvanced, EnterSatisfied
<1>4. TickedState[i].sustained => state'[i].sustained
  BY <1>1, <1>2, TickedTypes DEF Inv
<1>5. QED
  BY <1>3, <1>4, TickSustain

LEMMA VetoedSustain ==
  ASSUME Inv, NEW code, EnterVetoed(code), NEW i \in Slots
  PROVE  SustainKept(i)
<1> SUFFICES ASSUME SlotTable[i].veto_delay = 0, state[i].sustained, ~state'[i].sustained
             PROVE  i \in pending_relock'
  BY DEF SustainKept
<1>1. PICK j \in VetoHits(code) :
        /\ state' = [TickedState EXCEPT ![j] = Fresh]
        /\ pending_relock' = TickedRelock
  BY DEF EnterVetoed
<1>2. j \in Slots /\ TickedArmed[j] # NotArmed
  BY DEF VetoHits
<1>3. j # i
  BY <1>2, TickedInv DEF BudgetInv
<1>4. QED
  BY <1>1, <1>3, TickSustain, TickedTypes DEF Inv

LEMMA NextSustain ==
  ASSUME Inv, [Next]_vars, NEW i \in Slots
  PROVE  SustainKept(i)
<1>1. CASE state' = state
  BY <1>1 DEF SustainKept
<1>2. CASE Tick
  BY <1>2, TickSustain DEF Tick, SustainKept
<1>3. ASSUME NEW code \in Codes, NEW shut, EnterCode(code, shut)
      PROVE  SustainKept(i)
  <2>1. CASE EnterVetoed(code)
    BY <2>1, VetoedSustain
  <2>2. CASE EnterInvalid
    <3>1. PICK R \in SUBSET Slots : TickAndReset(R)
      BY <2>2 DEF EnterInvalid
    <3>2. QED
      BY <3>1, ResetSustain
  <2>3. ASSUME NEW h \in Hits(code), EnterMatched(h[1], h[2], code, shut)
        PROVE  SustainKept(i)
    <3>1. h[1] \in Slots /\ h[2] \in Nat /\ code.counter \in Nat
      BY CodesType DEF Hits, MAX_QUORUM
    <3>2. CASE EnterRefused(h[1], code, shut) \/ EnterNegative(h[1])
      <4>1. PICK R \in SUBSET Slots : TickAndReset(R)
        BY <3>1, <3>2 DEF EnterRefused, EnterNegative
      <4>2. QED
        BY <4>1, ResetSustain
    <3>3. CASE EnterAdvanced(h[1], h[2], code, shut) \/ EnterSatisfied(h[1], h[2], code, shut)
      BY <3>1, <3>3, AcceptedSustain
    <3>4. QED
      BY <2>3, <3>2, <3>3 DEF EnterMatched
  <2>4. QED
    BY <1>3, <2>1, <2>2, <2>3 DEF EnterCode
<1>4. QED
  BY <1>1, <1>2, <1>3
     DEF Next, PassTime, SetClock, TakeRelocks, TakeFires, TakeReceipt, Attest, vars

\* No path through the engine ends the sustain of a slot that opens at once
\* without owing the re-lock (engine.rs:246-249, 278-286).
THEOREM SustainReleased == Spec => SustainEndsWithRelock
<1>1. Inv /\ [Next]_vars =>
        [\A i \in Slots :
           SlotTable[i].veto_delay = 0 /\ state[i].sustained /\ ~state'[i].sustained
             => i \in pending_relock']_vars
  BY NextSustain DEF SustainKept
<1>2. QED
  BY <1>1, InvHolds, PTL DEF Spec, SustainEndsWithRelock

-------------------------------------------------------------------------------
(***************************************************************************)
(* Receipt counters.                                                       *)
(***************************************************************************)
Occupied(p) == pending_receipt[p] # NoReceipt

ReceiptInv ==
  \A p \in 1 .. MaxReceipts :
    Occupied(p) =>
      /\ pending_receipt[p].seq < next_seq
      /\ \A q \in 1 .. MaxReceipts :
           Occupied(q) /\ p # q => pending_receipt[p].seq # pending_receipt[q].seq

\* Of two holes, the later one has the higher number.
LEMMA HolesOrdered ==
  ASSUME NEW p \in 1 .. MaxReceipts, NEW q \in 1 .. MaxReceipts, p < q,
         pending_receipt[q] = NoReceipt
  PROVE  HoleNumber(p) < HoleNumber(q)
<1> DEFINE H(n) == {k \in 1 .. n : pending_receipt[k] = NoReceipt}
<1>1. IsFiniteSet(H(q))
  BY FS_Interval, FS_Subset, BoundAssumption
<1>2. H(p) \in SUBSET H(q) /\ q \in H(q) /\ q \notin H(p)
  BY BoundAssumption
<1>3. Cardinality(H(p)) <= Cardinality(H(q)) /\ IsFiniteSet(H(p))
      /\ Cardinality(H(p)) # Cardinality(H(q))
  <2> HIDE DEF H
  <2> QED BY <1>1, <1>2, FS_Subset
<1>4. Cardinality(H(p)) \in Nat /\ Cardinality(H(q)) \in Nat
  BY <1>1, <1>3, FS_CardinalityType
<1>5. QED
  BY <1>3, <1>4 DEF HoleNumber

\* What a hole holds after events were queued: nothing, or a counter of its own
\* among those the events consumed.
LEMMA QueuedAt ==
  ASSUME NEW E, IsFiniteSet(E), next_seq \in Nat, NEW p \in 1 .. MaxReceipts
  PROVE  \/ Queued(E)[p] = pending_receipt[p]
         \/ /\ pending_receipt[p] = NoReceipt
            /\ Queued(E)[p].seq = next_seq + HoleNumber(p) - 1
            /\ HoleNumber(p) <= Cardinality(E)
<1> DEFINE here == {e \in E : Rank(e, E) = HoleNumber(p)}
<1>1. CASE pending_receipt[p] = NoReceipt /\ here # {}
  <2>1. PICK e \in E : Rank(e, E) = HoleNumber(p)
    BY <1>1
  <2>2. Cardinality({g \in E : g.rank <= e.rank}) <= Cardinality(E)
    BY FS_Subset
  <2>3. HoleNumber(p) <= Cardinality(E)
    BY <2>1, <2>2 DEF Rank
  <2>4. Queued(E)[p].seq = next_seq + HoleNumber(p) - 1
    BY <1>1 DEF Queued
  <2>5. QED
    BY <1>1, <2>3, <2>4
<1>2. CASE ~(pending_receipt[p] = NoReceipt /\ here # {})
  BY <1>2 DEF Queued
<1>3. QED
  BY <1>1, <1>2

LEMMA MintReceipts ==
  ASSUME TypeOK, ReceiptInv, NEW E, IsFiniteSet(E), Mint(E)
  PROVE  ReceiptInv'
<1>1. CASE ~HasConfirm
  BY <1>1 DEF Mint, ReceiptInv, Occupied
<1>2. CASE HasConfirm
  <2>1. /\ next_seq \in Nat /\ Cardinality(E) \in Nat
        /\ next_seq' = next_seq + Cardinality(E)
        /\ pending_receipt' = Queued(E)
    BY <1>2, FS_CardinalityType DEF Mint, TypeOK
  <2> DEFINE old(p) == Occupied(p) /\ pending_receipt'[p] = pending_receipt[p]
             new(p) == /\ pending_receipt[p] = NoReceipt
                       /\ pending_receipt'[p].seq = next_seq + HoleNumber(p) - 1
                       /\ HoleNumber(p) <= Cardinality(E)
                       /\ HoleNumber(p) \in Nat /\ HoleNumber(p) > 0
  <2>2. ASSUME NEW p \in 1 .. MaxReceipts, Occupied(p)'
        PROVE  old(p) \/ new(p)
    BY <2>1, <2>2, QueuedAt, HoleNumberType DEF Occupied
  <2>3. ASSUME NEW p \in 1 .. MaxReceipts, old(p)
        PROVE  /\ pending_receipt'[p].seq \in Nat
               /\ pending_receipt'[p].seq < next_seq
    BY <2>3 DEF TypeOK, ReceiptInv, Occupied, Receipt
  <2>4. ASSUME NEW p \in 1 .. MaxReceipts, NEW q \in 1 .. MaxReceipts, p < q,
               Occupied(p)', Occupied(q)'
        PROVE  pending_receipt'[p].seq # pending_receipt'[q].seq
    <3>1. CASE old(p) /\ old(q)
      BY <2>4, <3>1 DEF ReceiptInv
    <3>2. CASE new(p) /\ new(q)
      BY <2>1, <2>4, <3>2, HolesOrdered
    <3>3. CASE (old(p) /\ new(q)) \/ (new(p) /\ old(q))
      BY <2>1, <2>3, <3>3
    <3>4. QED
      BY <2>2, <2>4, <3>1, <3>2, <3>3
  <2>5. ASSUME NEW p \in 1 .. MaxReceipts, Occupied(p)'
        PROVE  pending_receipt'[p].seq < next_seq'
    BY <2>1, <2>2, <2>3, <2>5
  <2>6. QED
    <3> HIDE DEF old, new
    <3>1. SUFFICES ASSUME NEW p \in 1 .. MaxReceipts, Occupied(p)',
                          NEW q \in 1 .. MaxReceipts, Occupied(q)', p # q
                   PROVE  pending_receipt'[p].seq # pending_receipt'[q].seq
      BY <2>5 DEF ReceiptInv
    <3>2. CASE p < q
      BY <2>4, <3>1, <3>2
    <3>3. CASE q < p
      BY <2>4, <3>1, <3>3
    <3>4. QED
      BY <3>1, <3>2, <3>3, BoundAssumption
<1>3. QED
  BY <1>1, <1>2

\* Every call of the engine mints a finite set of events.
LEMMA EnterMints ==
  ASSUME NEW code \in Codes, NEW shut, EnterCode(code, shut)
  PROVE  \E E : IsFiniteSet(E) /\ Mint(E)
<1>1. IsFiniteSet(TickEvents)
  BY TickEventsType
<1>2. ASSUME NEW R \in SUBSET Slots, TickAndReset(R)
      PROVE  \E E : IsFiniteSet(E) /\ Mint(E)
  <2> DEFINE owed == {i \in R : OwesRelock(i)}
             E == TickEvents \cup
                    {Later(i, RelockAction(SlotTable[i].action)) : i \in owed}
  <2>1. Mint(E)
    BY <1>2 DEF TickAndReset
  <2>2. owed \in SUBSET Slots
    OBVIOUS
  <2>3. IsFiniteSet(E)
    <3> HIDE DEF owed
    <3> QED BY <2>2, ResetEventsType
  <2>4. QED
    BY <2>1, <2>3
<1>3. CASE EnterVetoed(code)
  BY <1>1, <1>3 DEF EnterVetoed
<1>4. CASE EnterInvalid
  <2>1. PICK R \in SUBSET Slots : TickAndReset(R)
    BY <1>4 DEF EnterInvalid
  <2>2. QED
    BY <1>2, <2>1
<1>5. ASSUME NEW h \in Hits(code), EnterMatched(h[1], h[2], code, shut)
      PROVE  \E E : IsFiniteSet(E) /\ Mint(E)
  <2>1. h[1] \in Slots
    BY DEF Hits
  <2>2. CASE EnterRefused(h[1], code, shut) \/ EnterNegative(h[1])
    <3>1. PICK R \in SUBSET Slots : TickAndReset(R)
      BY <2>1, <2>2 DEF EnterRefused, EnterNegative
    <3>2. QED
      BY <1>2, <3>1
  <2>3. CASE EnterAdvanced(h[1], h[2], code, shut)
    BY <1>1, <2>3 DEF EnterAdvanced
  <2>4. CASE EnterSatisfied(h[1], h[2], code, shut)
    <3>1. IsFiniteSet(TickEvents \cup {Later(h[1], SlotTable[h[1]].action)})
      BY <1>1, FS_AddElement
    <3>2. \/ Mint(TickEvents)
          \/ Mint(TickEvents \cup {Later(h[1], SlotTable[h[1]].action)})
      BY <2>4 DEF EnterSatisfied
    <3>3. QED
      BY <1>1, <3>1, <3>2
  <2>5. QED
    BY <1>5, <2>2, <2>3, <2>4 DEF EnterMatched
<1>6. QED
  BY <1>3, <1>4, <1>5 DEF EnterCode

LEMMA NextReceipts ==
  ASSUME Inv, ReceiptInv, [Next]_vars
  PROVE  ReceiptInv'
<1>1. CASE UNCHANGED <<next_seq, pending_receipt>>
  BY <1>1 DEF ReceiptInv, Occupied
<1>2. ASSUME NEW E, IsFiniteSet(E), Mint(E) PROVE ReceiptInv'
  BY <1>2, MintReceipts DEF Inv
<1>3. CASE Tick
  BY <1>2, <1>3, TickEventsType DEF Tick
<1>4. ASSUME NEW code \in Codes, NEW shut, EnterCode(code, shut) PROVE ReceiptInv'
  BY <1>2, <1>4, EnterMints
<1>5. ASSUME NEW a \in {"Lock", "Unlock"}, Attest(a) PROVE ReceiptInv'
  <2>1. IsFiniteSet({Event(0, a)})
    BY FS_Singleton
  <2>2. QED
    BY <1>2, <1>5, <2>1 DEF Attest
<1>6. CASE TakeReceipt
  BY <1>6 DEF TakeReceipt, ReceiptInv, Occupied, Inv, TypeOK
<1>7. QED
  BY <1>1, <1>3, <1>4, <1>5, <1>6
     DEF Next, PassTime, SetClock, TakeRelocks, TakeFires, vars

\* No two waiting receipts carry the same event counter, however many events a
\* call mints and however full the buffer is
\* (mint_receipt, engine.rs:171-181).
THEOREM ReceiptsUnique == Spec => []ReceiptsDistinct
<1>1. Init => ReceiptInv
  BY DEF Init, ReceiptInv, Occupied
<1>2. ReceiptInv => ReceiptsDistinct
  <2> SUFFICES ASSUME ReceiptInv, NEW p \in 1 .. MaxReceipts, NEW q \in 1 .. MaxReceipts,
                      Occupied(p)
               PROVE  /\ pending_receipt[p].seq < next_seq
                      /\ p # q /\ Occupied(q)
                           => pending_receipt[p].seq # pending_receipt[q].seq
    BY DEF ReceiptsDistinct, Occupied
  <2>1. QED
    BY DEF ReceiptInv, Occupied
<1>3. Inv /\ ReceiptInv /\ [Next]_vars => ReceiptInv'
  BY NextReceipts
<1>4. QED
  BY <1>1, <1>2, <1>3, InvHolds, PTL DEF Spec
===============================================================================
