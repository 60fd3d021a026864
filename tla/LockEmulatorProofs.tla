-------------------------- MODULE LockEmulatorProofs --------------------------
(***************************************************************************)
(* Proofs about LockEmulator, for every slot table, key table, gate set and*)
(* length of a `time +n`: the engine and the bolt agree between commands,  *)
(* receipts come out in the order of their events, and none is lost as long*)
(* as the buffer has room for what one call can mint.                      *)
(*                                                                         *)
(* All rest on the order of the drains.  Every time a command reads the    *)
(* clock it ticks and drains, so between commands no dead-man slot is      *)
(* stale, nothing is owed, and the receipt buffer is empty.                *)
(***************************************************************************)
EXTENDS LockEmulator, LockEngineProofs

\* The slots whose sustain is the bolt: dead-man slots that open at once, and
\* have no budget.  Once a budget is spent, a code sustains the slot and fires
\* nothing (policy.rs:381-390 runs before the check at engine.rs:357-360).
Bolted(i) ==
  /\ PolicyOf(i).kind = "DeadMan"
  /\ SlotTable[i].veto_delay = 0 /\ SlotTable[i].budget = 0

NoBudgetedSustain ==
  \A i \in Slots :
    PolicyOf(i).kind = "DeadMan" /\ SlotTable[i].veto_delay = 0 => SlotTable[i].budget = 0

Fires(i) == outcome' = [kind |-> "Fired", slot |-> i]

\* A slot is sustained while its fire action holds and no re-lock is owed.
Agrees(i) ==
  state[i].sustained <=> (bolt[i] = FireAction(i) /\ i \notin pending_relock)

\* Receipts are waiting in the order of their events.
Sorted ==
  \A p, q \in 1 .. MaxReceipts :
    p < q /\ Occupied(p) /\ Occupied(q) => pending_receipt[p].seq < pending_receipt[q].seq

Emptied == \A p \in 1 .. MaxReceipts : ~Occupied(p)

EInv ==
  /\ Inv
  /\ phase \in Phases
  /\ bolt \in [Slots -> Actions]
  /\ phase # "relocks" => pending_relock = {}
  /\ \A i \in pending_fire : SlotTable[i].veto_delay > 0
  /\ phase # "tick" => \A i \in Slots : ~RelockDue(i)
  /\ \A i \in Slots : Bolted(i) => Agrees(i)
  /\ phase \in {"idle", "tick"} => Emptied
  /\ Sorted

-------------------------------------------------------------------------------
(***************************************************************************)
(* One call of the engine, as a dead-man slot sees it.                     *)
(***************************************************************************)
LEMMA ActionFacts ==
  ASSUME NEW i \in Slots
  PROVE  /\ FireAction(i) \in Actions /\ CloseAction(i) \in Actions
         /\ FireAction(i) # CloseAction(i)
<1>1. SlotTable[i].action \in Actions
  BY SlotFacts DEF Slot
<1>2. QED
  BY <1>1 DEF FireAction, CloseAction, RelockAction, Actions

\* Nothing is stale the moment it is reset, or when its last code was just typed.
LEMMA FreshNotDue ==
  ASSUME NEW p \in Policy, NEW t
  PROVE  ~(p.kind = "DeadMan" /\ Expired(p, Fresh, t))
BY DEF Expired, Fresh

LEMMA LivelyNotDue ==
  ASSUME NEW p \in Policy, NEW t \in Nat, NEW st, st.last_code = t
  PROVE  ~(p.kind = "DeadMan" /\ Expired(p, st, t))
<1>1. Since(t, t) = 0
  BY WordAssumption DEF Since
<1>2. p.beat \in Nat
  BY DEF Policy
<1>3. QED
  BY <1>1, <1>2 DEF Expired

\* What a code does to a dead-man slot: it fires and starts the sustain, or it
\* keeps it.
LEMMA DeadManCode ==
  ASSUME NEW p \in Policy, p.kind = "DeadMan", NEW st \in SlotState,
         NEW k, NEW c \in Nat, NEW t \in Nat, NEW b \in Nat, c > b, RoundInv(p, st, b),
         NEW r \in OnCode(p, st, k, c, t)
  PROVE  /\ r.st.sustained /\ r.st.last_code = t
         /\ r.verdict \in {"Fire", "Beat"} /\ (r.verdict = "Beat" <=> st.sustained)
<1>1. ~(st.count > 0 /\ c <= st.last_counter)
  BY DEF RoundInv, SlotState
<1>2. r \in OnDeadMan(st, c, t)
  BY <1>1 DEF OnCode
<1>3. r.st.sustained
  BY <1>2, OnDeadManFacts
<1> DEFINE alive == [st EXCEPT !.last_counter = c, !.last_code = t]
<1>4. alive \in SlotState /\ alive.last_code = t
  BY DEF SlotState
<1> HIDE DEF alive
<1>5. \/ st.sustained /\ r = Result(alive, "Beat")
      \/ ~st.sustained /\ r = Result([alive EXCEPT !.sustained = TRUE, !.count = 1], "Fire")
  BY <1>2 DEF OnDeadMan, alive
<1>6. CASE st.sustained /\ r = Result(alive, "Beat")
  BY <1>3, <1>4, <1>6 DEF Result
<1>7. CASE ~st.sustained /\ r = Result([alive EXCEPT !.sustained = TRUE, !.count = 1], "Fire")
  <2>1. r.st = [alive EXCEPT !.sustained = TRUE, !.count = 1] /\ r.verdict = "Fire"
    BY <1>7 DEF Result
  <2>2. r.st.last_code = t
    BY <1>4, <2>1 DEF SlotState
  <2>3. QED
    BY <1>3, <1>7, <2>1, <2>2
<1>8. QED
  BY <1>5, <1>6, <1>7

\* What a call that found no stale dead-man slot and owed nothing did to one.
Untouched(i) ==
  /\ state'[i] = state[i] /\ i \notin pending_relock' /\ ~Fires(i)

Released(i) ==
  /\ state'[i] = Fresh /\ ~Fires(i)
  /\ state[i].sustained => i \in pending_relock'

Sustained(i) ==
  /\ state'[i].sustained /\ state'[i].last_code = now /\ i \notin pending_relock'
  /\ Bolted(i) => (Fires(i) <=> ~state[i].sustained)

Answered(i) == Untouched(i) \/ Released(i) \/ Sustained(i)

Settled ==
  Inv /\ pending_relock = {} /\ \A i \in Slots : ~RelockDue(i)

LEMMA SettledTick ==
  ASSUME Settled
  PROVE  /\ TickedRelock = {}
         /\ \A i \in Slots : PolicyOf(i).kind = "DeadMan" => TickedState[i] = state[i]
BY DEF Settled, TickedRelock, TickedState, RelockDue

LEMMA SettledReset ==
  ASSUME Settled, NEW R \in SUBSET Slots, TickAndReset(R), NEW i \in Slots,
         PolicyOf(i).kind = "DeadMan", ~Fires(i)
  PROVE  Answered(i)
<1>1. TickedRelock = {} /\ TickedState[i] = state[i]
  BY SettledTick
<1>2. CASE i \in R
  BY <1>1, <1>2 DEF TickAndReset, OwesRelock, Answered, Released
<1>3. CASE i \notin R
  BY <1>1, <1>3 DEF TickAndReset, Answered, Untouched
<1>4. QED
  BY <1>2, <1>3

LEMMA SettledAccepted ==
  ASSUME Settled, NEW code \in Codes, NEW shut, NEW j \in Slots, NEW kidx \in Nat,
         EnterAdvanced(j, kidx, code, shut) \/ EnterSatisfied(j, kidx, code, shut),
         NEW i \in Slots, PolicyOf(i).kind = "DeadMan"
  PROVE  Answered(i)
<1>1. Inv /\ pending_relock' = TickedRelock /\ TickedRelock = {} /\ outcome'.slot = j
  BY SettledTick DEF Settled, EnterAdvanced, EnterSatisfied, Report
<1>2. PICK r \in Verdicts(j, kidx, code) :
        /\ state' = [TickedState EXCEPT ![j] = r.st]
        /\ EnterAdvanced(j, kidx, code, shut) =>
             r.verdict # "Fire" /\ outcome'.kind = VerdictOutcome(r.verdict)
        /\ EnterSatisfied(j, kidx, code, shut) => r.verdict = "Fire"
  <2>1. CASE EnterAdvanced(j, kidx, code, shut)
    <3>1. PICK r \in Verdicts(j, kidx, code) :
            /\ r.verdict # "Fire"
            /\ state' = [TickedState EXCEPT ![j] = r.st]
            /\ outcome' = [kind |-> VerdictOutcome(r.verdict), slot |-> j]
      BY <2>1 DEF EnterAdvanced, Report
    <3>2. ~EnterSatisfied(j, kidx, code, shut)
      <4>1. SUFFICES ASSUME EnterSatisfied(j, kidx, code, shut) PROVE FALSE
        OBVIOUS
      <4>2. outcome'.kind \in {"Fired", "Armed", "Exhausted"}
        BY <4>1 DEF EnterSatisfied, Report
      <4>3. r.verdict \in Verdict
        BY <1>1, <2>1, <3>1, AcceptedInv, CodesType DEF EnterAdvanced
      <4>4. QED
        BY <3>1, <4>2, <4>3 DEF VerdictOutcome, Verdict
    <3>3. QED
      BY <2>1, <3>1, <3>2
  <2>2. CASE ~EnterAdvanced(j, kidx, code, shut)
    BY <2>2 DEF EnterSatisfied
  <2>3. QED
    BY <2>1, <2>2
<1>3. TickedState \in [Slots -> SlotState] /\ TickedState[i] = state[i]
  BY <1>1, SettledTick, TickedTypes DEF Inv
<1>4. CASE i # j
  <2>1. state'[i] = state[i] /\ ~Fires(i)
    BY <1>1, <1>2, <1>3, <1>4 DEF Fires
  <2>2. QED
    BY <1>1, <2>1 DEF Answered, Untouched
<1>5. CASE i = j
  <2>1. /\ r \in OnCode(PolicyOf(i), state[i], kidx, code.counter, now)
        /\ state'[i] = r.st
    BY <1>2, <1>3, <1>5 DEF Verdicts
  <2>2. /\ PolicyOf(i) \in Policy /\ state[i] \in SlotState /\ code.counter \in Nat
        /\ now \in Nat /\ burned[i] \in Nat /\ code.counter > burned[i]
        /\ RoundInv(PolicyOf(i), state[i], burned[i])
    BY <1>1, <1>5, SlotFacts, CodesType
       DEF Inv, TypeOK, EnterAdvanced, EnterSatisfied, Accepts
  <2>3. /\ r.st.sustained /\ r.st.last_code = now
        /\ r.verdict \in {"Fire", "Beat"} /\ (r.verdict = "Beat" <=> state[i].sustained)
    BY <2>1, <2>2, DeadManCode
  <2>4. ASSUME Bolted(i)
        PROVE  Fires(i) <=> ~state[i].sustained
    <3>1. CASE r.verdict = "Fire"
      <4>1. EnterSatisfied(j, kidx, code, shut)
        BY <1>2, <3>1
      <4>2. Fires(i)
        BY <1>5, <2>4, <4>1 DEF EnterSatisfied, BudgetSpent, Bolted, Report, Fires
      <4>3. QED
        BY <2>3, <3>1, <4>2
    <3>2. CASE r.verdict = "Beat"
      <4>1. outcome'.kind = "Beat"
        BY <1>2, <3>2 DEF VerdictOutcome
      <4>2. QED
        BY <2>3, <3>2, <4>1 DEF Fires
    <3>3. QED
      BY <2>3, <3>1, <3>2
  <2>5. QED
    BY <1>1, <2>1, <2>3, <2>4 DEF Answered, Sustained
<1>6. QED
  BY <1>4, <1>5

LEMMA SettledEnter ==
  ASSUME Settled, NEW code \in Codes, NEW shut, EnterCode(code, shut),
         NEW i \in Slots, Bolted(i)
  PROVE  Answered(i)
<1>1. PolicyOf(i).kind = "DeadMan" /\ SlotTable[i].veto_delay = 0 /\ Inv
  BY DEF Bolted, Settled
<1>2. CASE EnterVetoed(code)
  <2>1. PICK j \in VetoHits(code) :
          /\ state' = [TickedState EXCEPT ![j] = Fresh]
          /\ outcome' = [kind |-> "Vetoed", slot |-> j]
          /\ pending_relock' = TickedRelock
    BY <1>2 DEF EnterVetoed, Report
  <2>2. j \in Slots /\ TickedArmed[j] # NotArmed
    BY DEF VetoHits
  <2>3. j # i
    BY <1>1, <2>2, TickedInv DEF BudgetInv
  <2>4. TickedState[i] = state[i] /\ TickedRelock = {} /\ TickedState \in [Slots -> SlotState]
    BY <1>1, SettledTick, TickedTypes DEF Inv
  <2>5. state'[i] = state[i] /\ ~Fires(i) /\ i \notin pending_relock'
    BY <2>1, <2>2, <2>3, <2>4 DEF Fires
  <2>6. QED
    BY <2>5 DEF Answered, Untouched
<1>3. CASE EnterInvalid
  <2>1. PICK R \in SUBSET Slots : TickAndReset(R)
    BY <1>3 DEF EnterInvalid
  <2>2. ~Fires(i)
    BY <1>3 DEF EnterInvalid, Report, Fires
  <2>3. QED
    BY <1>1, <2>1, <2>2, SettledReset
<1>4. ASSUME NEW h \in Hits(code), EnterMatched(h[1], h[2], code, shut)
      PROVE  Answered(i)
  <2>1. h[1] \in Slots /\ h[2] \in Nat
    BY DEF Hits, MAX_QUORUM
  <2>2. CASE EnterRefused(h[1], code, shut)
    <3>1. TickAndReset({}) /\ ~Fires(i)
      BY <2>2 DEF EnterRefused, Report, Fires
    <3>2. QED
      BY <1>1, <3>1, SettledReset
  <2>3. CASE EnterNegative(h[1])
    <3>1. PICK R \in SUBSET Slots : TickAndReset(R)
      BY <2>1, <2>3 DEF EnterNegative
    <3>2. ~Fires(i)
      BY <2>3 DEF EnterNegative, Report, Fires
    <3>3. QED
      BY <1>1, <3>1, <3>2, SettledReset
  <2>4. CASE EnterAdvanced(h[1], h[2], code, shut) \/ EnterSatisfied(h[1], h[2], code, shut)
    BY <1>1, <2>1, <2>4, SettledAccepted
  <2>5. QED
    BY <1>4, <2>2, <2>3, <2>4 DEF EnterMatched
<1>5. QED
  BY <1>2, <1>3, <1>4 DEF EnterCode

-------------------------------------------------------------------------------
(***************************************************************************)
(* How many receipts one call may mint, and where they land.               *)
(***************************************************************************)
Ranked(E) ==
  /\ \A e \in E : e.rank \in Nat
  /\ \A e, g \in E : e.rank = g.rank => e = g

\* The ranks of n events are 1 .. n.
LEMMA RankOnto ==
  ASSUME NEW E, IsFiniteSet(E), Ranked(E)
  PROVE  \A n \in 1 .. Cardinality(E) : \E e \in E : Rank(e, E) = n
<1> DEFINE L(e) == {g \in E : g.rank <= e.rank}
           f == [e \in E |-> Rank(e, E)]
           N == Cardinality(E)
<1>1. N \in Nat /\ IsFiniteSet(1 .. N) /\ Cardinality(1 .. N) = N
  BY FS_CardinalityType, FS_Interval
<1>2. ASSUME NEW e \in E
      PROVE  /\ IsFiniteSet(L(e)) /\ e \in L(e)
             /\ Cardinality(L(e)) \in 1 .. N
  <2>1. L(e) \in SUBSET E /\ e \in L(e)
    BY DEF Ranked
  <2>2. IsFiniteSet(L(e)) /\ Cardinality(L(e)) <= N /\ Cardinality(L(e)) \in Nat
        /\ Cardinality(L(e)) # 0
    <3> HIDE DEF L
    <3> QED BY <2>1, FS_Subset, FS_CardinalityType, FS_EmptySet
  <2>3. QED
    BY <1>1, <2>1, <2>2
<1>3. f \in [E -> 1 .. N]
  BY <1>2 DEF Rank
<1>4. ASSUME NEW e \in E, NEW g \in E, e.rank < g.rank
      PROVE  f[e] # f[g]
  <2>1. L(e) \in SUBSET L(g) /\ g \in L(g) /\ g \notin L(e)
    BY <1>4 DEF Ranked
  <2>2. Cardinality(L(e)) # Cardinality(L(g))
    <3>1. IsFiniteSet(L(g))
      BY <1>2
    <3> HIDE DEF L
    <3> QED BY <2>1, <3>1, FS_Subset
  <2>3. QED
    BY <2>2 DEF Rank
<1>5. ASSUME NEW e \in E, NEW g \in E, f[e] = f[g]
      PROVE  e = g
  <2>1. e.rank \in Nat /\ g.rank \in Nat
    BY DEF Ranked
  <2>2. ~(e.rank < g.rank) /\ ~(g.rank < e.rank)
    BY <1>4, <1>5
  <2>3. e.rank = g.rank
    BY <2>1, <2>2
  <2>4. QED
    BY <2>3 DEF Ranked
<1>6. f \in Injection(E, 1 .. N)
  <2> HIDE DEF f, N
  <2> QED BY <1>3, <1>5 DEF Injection, IsInjective
<1>7. f \in Surjection(E, 1 .. N)
  <2> HIDE DEF f, N
  <2>1. Cardinality(E) = Cardinality(1 .. N)
    BY <1>1 DEF N
  <2> QED BY <1>1, <1>6, <2>1, FS_Injection
<1>8. QED
  BY <1>7 DEF Surjection

\* In an empty buffer the p-th place is the p-th hole.
LEMMA HoleOfEmpty ==
  ASSUME Emptied, NEW p \in 1 .. MaxReceipts
  PROVE  HoleNumber(p) = p
<1>1. {q \in 1 .. p : pending_receipt[q] = NoReceipt} = 1 .. p
  BY BoundAssumption DEF Emptied, Occupied
<1>2. p \in Int /\ p > 0
  BY BoundAssumption
<1>3. Cardinality(1 .. p) = p
  BY <1>2, FS_Interval
<1>4. QED
  BY <1>1, <1>3 DEF HoleNumber

\* Events that fit are all kept.
LEMMA MintHeld ==
  ASSUME TypeOK, Emptied, HasConfirm, NEW E, IsFiniteSet(E), Ranked(E),
         Cardinality(E) <= MaxReceipts, Mint(E)
  PROVE  Held' - Held = next_seq' - next_seq
<1> DEFINE N == Cardinality(E)
<1>1. N \in Nat /\ next_seq \in Nat /\ next_seq' = next_seq + N
  BY FS_CardinalityType DEF Mint, TypeOK
<1>2. pending_receipt' = Queued(E)
  BY DEF Mint
<1>3. ASSUME NEW p \in 1 .. MaxReceipts, p <= N
      PROVE  Queued(E)[p] # NoReceipt
  <2>1. p \in 1 .. N
    BY <1>1, <1>3, BoundAssumption
  <2>2. PICK e \in E : Rank(e, E) = p
    BY <2>1, RankOnto
  <2>3. HoleNumber(p) = p /\ pending_receipt[p] = NoReceipt
    BY HoleOfEmpty DEF Emptied, Occupied
  <2>4. Queued(E)[p].seq = next_seq + p - 1
    BY <2>2, <2>3 DEF Queued
  <2>5. Queued(E)[p].seq \in Nat
    BY <1>1, <2>1, <2>4
  <2>6. QED
    BY <2>5 DEF NoReceipt
<1>4. ASSUME NEW p \in 1 .. MaxReceipts, Queued(E)[p] # NoReceipt
      PROVE  p <= N
  <2>1. HoleNumber(p) = p /\ pending_receipt[p] = NoReceipt
    BY HoleOfEmpty DEF Emptied, Occupied
  <2>2. QED
    BY <1>1, <1>4, <2>1, QueuedAt
<1>5. DOMAIN pending_receipt = 1 .. MaxReceipts /\ DOMAIN Queued(E) = 1 .. MaxReceipts
  BY DEF TypeOK, Queued
<1>6. Held = 0
  <2>1. {p \in DOMAIN pending_receipt : pending_receipt[p] # NoReceipt} = {}
    BY <1>5 DEF Emptied, Occupied
  <2>2. QED
    BY <2>1, FS_EmptySet DEF Held
<1>7. Held' = N
  <2>1. {p \in DOMAIN Queued(E) : Queued(E)[p] # NoReceipt} = 1 .. N
    BY <1>1, <1>3, <1>4, <1>5, BoundAssumption
  <2>2. Cardinality(1 .. N) = N
    BY <1>1, FS_Interval
  <2>3. QED
    BY <1>2, <2>1, <2>2 DEF Held
<1>8. QED
  BY <1>1, <1>6, <1>7

\* The slots a tick or a reset may owe a re-lock for.
DeadManSlots == {i \in Slots : PolicyOf(i).kind = "DeadMan"}

\* Room for a fire of every slot and a re-lock of every dead-man slot at once.
RoomPerCall ==
  1 <= MaxReceipts /\ Len(SlotTable) + Cardinality(DeadManSlots) <= MaxReceipts

\* A set of events, each of a slot: its re-lock or its fire in the tick, or
\* what the call did to it later.
OfSlots(E, late) ==
  \A e \in E : \E i \in Slots :
    \/ e = Event(2 * i, RelockAction(SlotTable[i].action))
    \/ e = Event(2 * i + 1, SlotTable[i].action)
    \/ e = Later(i, late[i])

LEMMA RankTellsSlot ==
  ASSUME NEW n \in Nat, NEW i \in 1 .. n, NEW k \in 1 .. n, NEW r,
         r \in {2 * i, 2 * i + 1, 2 * (n + 1) + i},
         r \in {2 * k, 2 * k + 1, 2 * (n + 1) + k}
  PROVE  i = k
<1>1. i \in Int /\ k \in Int /\ 1 <= i /\ 1 <= k /\ i <= n /\ k <= n
  OBVIOUS
<1>2. CASE r = 2 * i
  BY <1>1, <1>2
<1>3. CASE r = 2 * i + 1
  BY <1>1, <1>3
<1>4. CASE r = 2 * (n + 1) + i
  BY <1>1, <1>4
<1>5. QED
  BY <1>2, <1>3, <1>4

LEMMA OfSlotsRanked ==
  ASSUME NEW E, NEW late, OfSlots(E, late)
  PROVE  Ranked(E)
<1>1. Len(SlotTable) \in Nat /\ \A i \in Slots : i \in Nat /\ i <= Len(SlotTable)
  BY SlotAssumption DEF Slots
<1> DEFINE At(e, i) ==
      \/ e = Event(2 * i, RelockAction(SlotTable[i].action))
      \/ e = Event(2 * i + 1, SlotTable[i].action)
      \/ e = Later(i, late[i])
<1>2. ASSUME NEW e, NEW i \in Slots, At(e, i)
      PROVE  e.rank \in Nat /\ e.rank \in {2 * i, 2 * i + 1, 2 * (Len(SlotTable) + 1) + i}
  BY <1>1, <1>2 DEF Event, Later
<1>3. ASSUME NEW e, NEW i \in Slots, At(e, i), NEW g, NEW k \in Slots, At(g, k),
             e.rank = g.rank
      PROVE  e = g
  <2>1. i = k
    <3>1. /\ e.rank \in {2 * i, 2 * i + 1, 2 * (Len(SlotTable) + 1) + i}
          /\ g.rank \in {2 * k, 2 * k + 1, 2 * (Len(SlotTable) + 1) + k}
      BY <1>2, <1>3
    <3>2. i \in 1 .. Len(SlotTable) /\ k \in 1 .. Len(SlotTable)
      BY DEF Slots
    <3> HIDE DEF At
    <3> QED BY <1>1, <1>3, <3>1, <3>2, RankTellsSlot
  <2>2. i \in Nat /\ i <= Len(SlotTable)
    BY <1>1
  <2>3. \/ e.rank = 2 * i /\ e = Event(2 * i, RelockAction(SlotTable[i].action))
        \/ e.rank = 2 * i + 1 /\ e = Event(2 * i + 1, SlotTable[i].action)
        \/ e.rank = 2 * (Len(SlotTable) + 1) + i /\ e = Later(i, late[i])
    BY <1>3 DEF Event, Later
  <2>4. \/ g.rank = 2 * i /\ g = Event(2 * i, RelockAction(SlotTable[i].action))
        \/ g.rank = 2 * i + 1 /\ g = Event(2 * i + 1, SlotTable[i].action)
        \/ g.rank = 2 * (Len(SlotTable) + 1) + i /\ g = Later(i, late[i])
    BY <1>3, <2>1 DEF Event, Later
  <2>5. 2 * i # 2 * i + 1 /\ 2 * i # 2 * (Len(SlotTable) + 1) + i
        /\ 2 * i + 1 # 2 * (Len(SlotTable) + 1) + i
    BY <1>1, <2>2
  <2>6. CASE e.rank = 2 * i
    BY <1>3, <2>3, <2>4, <2>5, <2>6
  <2>7. CASE e.rank = 2 * i + 1
    BY <1>3, <2>3, <2>4, <2>5, <2>7
  <2>8. CASE e.rank = 2 * (Len(SlotTable) + 1) + i
    BY <1>3, <2>3, <2>4, <2>5, <2>8
  <2>9. QED
    BY <2>3, <2>6, <2>7, <2>8
<1>4. \A e \in E : \E i \in Slots : At(e, i)
  BY DEF OfSlots
<1>5. QED
  <2> HIDE DEF At
  <2> QED BY <1>2, <1>3, <1>4 DEF Ranked

LEMMA ImageBound ==
  ASSUME NEW S, IsFiniteSet(S), NEW f
  PROVE  IsFiniteSet({f[x] : x \in S})
         /\ Cardinality({f[x] : x \in S}) <= Cardinality(S)
<1> DEFINE g == [x \in S |-> f[x]]
<1>1. g \in Surjection(S, {f[x] : x \in S})
  BY DEF Surjection
<1>2. QED
  BY <1>1, FS_Surjection

\* One event per dead-man slot and one per slot fit.
LEMMA EventsFit ==
  ASSUME RoomPerCall, NEW a, NEW b,
         NEW E \in SUBSET ({a[i] : i \in DeadManSlots} \cup {b[i] : i \in Slots})
  PROVE  IsFiniteSet(E) /\ Cardinality(E) <= MaxReceipts
<1> DEFINE A == {a[i] : i \in DeadManSlots}
           B == {b[i] : i \in Slots}
<1>1. IsFiniteSet(Slots) /\ Cardinality(Slots) = Len(SlotTable) /\ Len(SlotTable) \in Nat
  <2>1. Len(SlotTable) \in Nat
    BY SlotAssumption
  <2>2. IsFiniteSet(1 .. Len(SlotTable)) /\ Cardinality(1 .. Len(SlotTable)) = Len(SlotTable)
    <3>1. Cardinality(1 .. Len(SlotTable)) =
            IF 1 > Len(SlotTable) THEN 0 ELSE Len(SlotTable) - 1 + 1
      BY <2>1, FS_Interval
    <3>2. IsFiniteSet(1 .. Len(SlotTable))
      BY <2>1, FS_Interval
    <3>3. QED
      BY <2>1, <3>1, <3>2
  <2>3. QED
    BY <2>1, <2>2 DEF Slots
<1>2. IsFiniteSet(DeadManSlots) /\ Cardinality(DeadManSlots) \in Nat
  <2>1. DeadManSlots \in SUBSET Slots
    BY DEF DeadManSlots
  <2>2. QED
    BY <1>1, <2>1, FS_Subset, FS_CardinalityType
<1>3. IsFiniteSet(A) /\ Cardinality(A) <= Cardinality(DeadManSlots) /\ Cardinality(A) \in Nat
  BY <1>2, ImageBound, FS_CardinalityType
<1>4. IsFiniteSet(B) /\ Cardinality(B) <= Cardinality(Slots) /\ Cardinality(B) \in Nat
  BY <1>1, ImageBound, FS_CardinalityType
<1> HIDE DEF A, B
<1>5. IsFiniteSet(A \cup B)
      /\ Cardinality(A \cup B) = Cardinality(A) + Cardinality(B) - Cardinality(A \cap B)
  BY <1>3, <1>4, FS_Union
<1>6. Cardinality(A \cap B) \in Nat
  <2>1. A \cap B \in SUBSET A
    OBVIOUS
  <2>2. QED
    BY <1>3, <2>1, FS_Subset, FS_CardinalityType
<1>7. E \in SUBSET (A \cup B)
  BY DEF A, B
<1>8. IsFiniteSet(E) /\ Cardinality(E) <= Cardinality(A \cup B) /\ Cardinality(E) \in Nat
      /\ Cardinality(A \cup B) \in Nat
  BY <1>5, <1>7, FS_Subset, FS_CardinalityType
<1>9. QED
  BY <1>1, <1>2, <1>3, <1>4, <1>5, <1>6, <1>8, BoundAssumption DEF RoomPerCall

Fits(E) == IsFiniteSet(E) /\ Ranked(E) /\ Cardinality(E) <= MaxReceipts

CallEvents(L, late) == TickEvents \cup {Later(i, late[i]) : i \in L}

\* What a call does to a slot after its tick takes the place of an event the
\* tick did not have for it.
LEMMA CallFits ==
  ASSUME RoomPerCall, NEW L \in SUBSET Slots, NEW late,
         \A i \in L : \/ PolicyOf(i).kind = "DeadMan" /\ ~RelockDue(i)
                      \/ ~FireDue(i)
  PROVE  Fits(CallEvents(L, late))
<1> DEFINE E == CallEvents(L, late)
           rel(i) == Event(2 * i, RelockAction(SlotTable[i].action))
           fire(i) == Event(2 * i + 1, SlotTable[i].action)
           a == [i \in Slots |-> IF RelockDue(i) THEN rel(i) ELSE Later(i, late[i])]
           b == [i \in Slots |-> IF FireDue(i) THEN fire(i) ELSE Later(i, late[i])]
<1>1. ASSUME NEW e \in E
      PROVE  \E i \in Slots :
               \/ RelockDue(i) /\ e = rel(i)
               \/ FireDue(i) /\ e = fire(i)
               \/ i \in L /\ e = Later(i, late[i])
  BY DEF CallEvents, TickEvents
<1>2. Ranked(E)
  <2>1. OfSlots(E, late)
    BY <1>1 DEF OfSlots
  <2>2. QED
    BY <2>1, OfSlotsRanked
<1>3. ASSUME NEW e \in E
      PROVE  (\E i \in DeadManSlots : e = a[i]) \/ (\E i \in Slots : e = b[i])
  <2>1. PICK i \in Slots :
               \/ RelockDue(i) /\ e = rel(i)
               \/ FireDue(i) /\ e = fire(i)
               \/ i \in L /\ e = Later(i, late[i])
    BY <1>1
  <2> HIDE DEF E, rel, fire
  <2>2. CASE RelockDue(i) /\ e = rel(i)
    <3>1. i \in DeadManSlots /\ e = a[i]
      BY <2>2 DEF DeadManSlots, RelockDue
    <3>2. QED
      BY <3>1
  <2>3. CASE FireDue(i) /\ e = fire(i)
    <3>1. e = b[i]
      BY <2>3
    <3>2. QED
      BY <3>1
  <2>4. CASE i \in L /\ e = Later(i, late[i]) /\ ~FireDue(i)
    <3>1. e = b[i]
      BY <2>4
    <3>2. QED
      BY <3>1
  <2>5. CASE i \in L /\ e = Later(i, late[i]) /\ FireDue(i)
    <3>1. i \in DeadManSlots /\ ~RelockDue(i)
      BY <2>5 DEF DeadManSlots
    <3>2. e = a[i]
      BY <2>5, <3>1
    <3>3. QED
      BY <3>1, <3>2
  <2>6. QED
    BY <2>1, <2>2, <2>3, <2>4, <2>5
<1>4. E \in SUBSET ({a[i] : i \in DeadManSlots} \cup {b[i] : i \in Slots})
  <2> HIDE DEF E, a, b
  <2> QED BY <1>3
<1>5. IsFiniteSet(E) /\ Cardinality(E) <= MaxReceipts
  <2> HIDE DEF E, a, b
  <2> QED BY <1>4, EventsFit
<1>6. QED
  BY <1>2, <1>5 DEF Fits

LEMMA TickFits ==
  ASSUME RoomPerCall
  PROVE  Fits(TickEvents)
<1>1. Fits(CallEvents({}, <<>>))
  BY CallFits
<1>2. CallEvents({}, <<>>) = TickEvents
  BY DEF CallEvents
<1>3. QED
  BY <1>1, <1>2

LEMMA ResetFits ==
  ASSUME RoomPerCall, NEW R \in SUBSET Slots, TickAndReset(R)
  PROVE  \E E : Fits(E) /\ Mint(E)
<1> DEFINE owed == {i \in R : OwesRelock(i)}
           late == [i \in Slots |-> RelockAction(SlotTable[i].action)]
           E == TickEvents \cup {Later(i, RelockAction(SlotTable[i].action)) : i \in owed}
<1>1. Mint(E)
  BY DEF TickAndReset
<1>2. \A i \in owed : PolicyOf(i).kind = "DeadMan" /\ ~RelockDue(i)
  BY DEF OwesRelock, TickedState, RelockDue, Fresh
<1>3. owed \in SUBSET Slots
  OBVIOUS
<1>4. Fits(CallEvents(owed, late))
  <2> HIDE DEF owed, late
  <2> QED BY <1>2, <1>3, CallFits
<1>5. CallEvents(owed, late) = E
  BY DEF CallEvents
<1>6. QED
  BY <1>1, <1>4, <1>5

LEMMA SatisfiedFits ==
  ASSUME Inv, RoomPerCall, NEW j \in Slots, NEW kidx, NEW code, NEW shut,
         EnterSatisfied(j, kidx, code, shut)
  PROVE  \E E : Fits(E) /\ Mint(E)
<1>1. CASE Mint(TickEvents)
  BY <1>1, TickFits
<1>2. CASE SlotTable[j].veto_delay = 0 /\ Mint(TickEvents \cup {Later(j, SlotTable[j].action)})
  <2> DEFINE late == [i \in Slots |-> SlotTable[i].action]
  <2>1. ~FireDue(j)
    BY <1>2 DEF Inv, BudgetInv, FireDue
  <2>2. Fits(CallEvents({j}, late))
    <3> HIDE DEF late
    <3> QED BY <2>1, CallFits
  <2>3. CallEvents({j}, late) = TickEvents \cup {Later(j, SlotTable[j].action)}
    BY DEF CallEvents
  <2>4. QED
    BY <1>2, <2>2, <2>3
<1>3. QED
  BY <1>1, <1>2 DEF EnterSatisfied

\* Every entry mints events that fit an empty buffer.
LEMMA EnterFits ==
  ASSUME Inv, RoomPerCall, NEW code \in Codes, NEW shut, EnterCode(code, shut)
  PROVE  \E E : Fits(E) /\ Mint(E)
<1>1. CASE EnterVetoed(code)
  BY <1>1, TickFits DEF EnterVetoed
<1>2. CASE EnterInvalid
  <2>1. PICK R \in SUBSET Slots : TickAndReset(R)
    BY <1>2 DEF EnterInvalid
  <2>2. QED
    BY <2>1, ResetFits
<1>3. ASSUME NEW h \in Hits(code), EnterMatched(h[1], h[2], code, shut)
      PROVE  \E E : Fits(E) /\ Mint(E)
  <2>1. h[1] \in Slots
    BY DEF Hits
  <2>2. CASE EnterRefused(h[1], code, shut) \/ EnterNegative(h[1])
    <3>1. PICK R \in SUBSET Slots : TickAndReset(R)
      BY <2>1, <2>2 DEF EnterRefused, EnterNegative
    <3>2. QED
      BY <3>1, ResetFits
  <2>3. CASE EnterAdvanced(h[1], h[2], code, shut)
    BY <2>3, TickFits DEF EnterAdvanced
  <2>4. CASE EnterSatisfied(h[1], h[2], code, shut)
    BY <2>1, <2>4, SatisfiedFits
  <2>5. QED
    BY <1>3, <2>2, <2>3, <2>4 DEF EnterMatched
<1>4. QED
  BY <1>1, <1>2, <1>3 DEF EnterCode

LEMMA AttestFits ==
  ASSUME RoomPerCall, NEW a, Attest(a)
  PROVE  \E E : Fits(E) /\ Mint(E)
<1>1. IsFiniteSet({Event(0, a)}) /\ Cardinality({Event(0, a)}) = 1
  BY FS_Singleton
<1>2. Ranked({Event(0, a)})
  BY DEF Ranked, Event
<1>3. Fits({Event(0, a)})
  BY <1>1, <1>2 DEF Fits, RoomPerCall
<1>4. QED
  BY <1>3 DEF Attest

-------------------------------------------------------------------------------
(***************************************************************************)
(* The receipt buffer.                                                     *)
(***************************************************************************)

\* Events minted into an empty buffer lie there in their order.
LEMMA MintSorted ==
  ASSUME TypeOK, Emptied, NEW E, IsFiniteSet(E), Mint(E)
  PROVE  Sorted'
<1>1. CASE ~HasConfirm
  BY <1>1 DEF Mint, Emptied, Sorted, Occupied
<1>2. CASE HasConfirm
  <2>1. pending_receipt' = Queued(E) /\ next_seq \in Nat
    BY <1>2 DEF Mint, TypeOK
  <2>2. \A p \in 1 .. MaxReceipts : pending_receipt[p] = NoReceipt
    BY DEF Emptied, Occupied
  <2>3. ASSUME NEW p \in 1 .. MaxReceipts, Occupied(p)'
        PROVE  pending_receipt'[p].seq = next_seq + HoleNumber(p) - 1
               /\ HoleNumber(p) \in Nat
    BY <2>1, <2>2, <2>3, QueuedAt, HoleNumberType DEF Occupied
  <2>4. ASSUME NEW p \in 1 .. MaxReceipts, NEW q \in 1 .. MaxReceipts, p < q,
               Occupied(p)', Occupied(q)'
        PROVE  pending_receipt'[p].seq < pending_receipt'[q].seq
    BY <2>1, <2>2, <2>3, <2>4, HolesOrdered
  <2>5. QED
    BY <2>4 DEF Sorted
<1>3. QED
  BY <1>1, <1>2

\* Taking one leaves the others as they were.
LEMMA TakeSorted ==
  ASSUME TypeOK, Sorted, TakeReceipt
  PROVE  Sorted'
<1>1. PICK t \in 1 .. MaxReceipts :
        pending_receipt' = [pending_receipt EXCEPT ![t] = NoReceipt]
  BY DEF TakeReceipt
<1>2. ASSUME NEW p \in 1 .. MaxReceipts, Occupied(p)'
      PROVE  pending_receipt'[p] = pending_receipt[p] /\ Occupied(p)
  BY <1>1, <1>2 DEF TypeOK, Occupied
<1>3. QED
  BY <1>2 DEF Sorted

-------------------------------------------------------------------------------
(***************************************************************************)
(* The invariant.                                                          *)
(***************************************************************************)
LEMMA EInitInv == EInit => EInv
<1> SUFFICES ASSUME EInit PROVE EInv
  OBVIOUS
<1>1. Inv
  BY InitInv DEF EInit
<1>2. bolt \in [Slots -> Actions] /\ \A i \in Slots : bolt[i] # FireAction(i)
  BY ActionFacts DEF EInit
<1>3. \A i \in Slots : state[i].sustained = FALSE
  BY DEF EInit, Init, Fresh
<1>4. \A i \in Slots : ~RelockDue(i)
  BY <1>3 DEF RelockDue, Stale, Expired
<1>5. \A p \in 1 .. MaxReceipts : ~Occupied(p)
  BY DEF EInit, Init, Occupied
<1>6. \A i \in Slots : Agrees(i)
  BY <1>2, <1>3 DEF Agrees
<1>7. QED
  BY <1>1, <1>2, <1>4, <1>5, <1>6 DEF EInv, EInit, Init, Phases, Sorted, Emptied

\* A veto window never elapses on a slot that has none.
LEMMA TickedFireVeto ==
  ASSUME EInv, NEW i \in TickedFire
  PROVE  SlotTable[i].veto_delay > 0
<1>1. CASE i \in pending_fire
  BY <1>1 DEF EInv
<1>2. CASE i \in Slots /\ FireDue(i)
  BY <1>2 DEF EInv, Inv, BudgetInv, FireDue
<1>3. QED
  BY <1>1, <1>2 DEF TickedFire

LEMMA EnterFires ==
  ASSUME NEW code, NEW shut, EnterCode(code, shut)
  PROVE  pending_fire' = TickedFire /\ now' = now
BY DEF EnterCode, EnterVetoed, EnterInvalid, EnterMatched, EnterRefused,
       EnterAdvanced, EnterSatisfied, EnterNegative, TickAndReset

\* A slot that is not a dead-man slot owes no re-lock for being late.
LEMMA AnsweredNotDue ==
  ASSUME Settled, NEW i \in Slots, now' = now, Answered(i)
  PROVE  ~RelockDue(i)'
<1>1. PolicyOf(i) \in Policy /\ now \in Nat
  BY SlotFacts DEF Settled, Inv, TypeOK
<1>2. ~(PolicyOf(i).kind = "DeadMan" /\ Expired(PolicyOf(i), state[i], now))
  BY DEF Settled, RelockDue, Stale
<1>3. ~(PolicyOf(i).kind = "DeadMan" /\ Expired(PolicyOf(i), state'[i], now))
  BY <1>1, <1>2, FreshNotDue, LivelyNotDue DEF Answered, Untouched, Released, Sustained
<1>4. QED
  BY <1>3 DEF RelockDue, Stale, PolicyOf, Policies

\* The same when the slot is armed by its sustain and vetoed.
LEMMA EnterNotDue ==
  ASSUME Settled, NEW code \in Codes, NEW shut, EnterCode(code, shut), NEW i \in Slots
  PROVE  ~RelockDue(i)'
<1>1. now' = now /\ Inv
  BY EnterFires DEF Settled
<1>2. CASE PolicyOf(i).kind # "DeadMan"
  BY <1>2 DEF RelockDue, PolicyOf, Policies
<1>3. CASE PolicyOf(i).kind = "DeadMan" /\ state'[i] \in {Fresh, TickedState[i]}
  <2>1. PolicyOf(i) \in Policy
    BY SlotFacts
  <2>2. TickedState[i] = state[i]
    BY <1>3, SettledTick
  <2>3. ~Expired(PolicyOf(i), state[i], now)
    BY <1>3 DEF Settled, RelockDue, Stale
  <2>4. ~Expired(PolicyOf(i), state'[i], now)
    BY <1>3, <2>1, <2>2, <2>3, FreshNotDue
  <2>5. QED
    BY <1>1, <2>4 DEF RelockDue, Stale, PolicyOf, Policies
<1>4. CASE PolicyOf(i).kind = "DeadMan" /\ state'[i] \notin {Fresh, TickedState[i]}
  <2>1. TickedState \in [Slots -> SlotState]
    BY <1>1, TickedTypes DEF Inv
  <2>2. ~EnterVetoed(code)
    BY <1>4, <2>1 DEF EnterVetoed
  <2>3. ~EnterInvalid
    BY <1>4 DEF EnterInvalid, TickAndReset
  <2>4. PICK h \in Hits(code) : EnterMatched(h[1], h[2], code, shut)
    BY <2>2, <2>3 DEF EnterCode
  <2>5. h[1] \in Slots /\ h[2] \in Nat
    BY DEF Hits, MAX_QUORUM
  <2>6. ~EnterRefused(h[1], code, shut) /\ ~EnterNegative(h[1])
    BY <1>4 DEF EnterRefused, EnterNegative, TickAndReset
  <2>7. Answered(i)
    BY <1>4, <2>4, <2>5, <2>6, SettledAccepted DEF EnterMatched
  <2>8. QED
    BY <1>1, <2>7, AnsweredNotDue
<1>5. QED
  BY <1>2, <1>3, <1>4

LEMMA LockEnterInv ==
  ASSUME EInv, NEW code \in Codes, NEW shut, LockEnter(code, shut)
  PROVE  EInv'
<1>1. /\ phase = "idle" /\ phase' = "relocks" /\ EnterCode(code, shut)
      /\ bolt' = [i \in Slots |-> IF Fires(i) THEN FireAction(i) ELSE bolt[i]]
  BY DEF LockEnter, Fires
<1>2. Settled /\ Emptied
  BY <1>1 DEF EInv, Settled
<1>3. Inv'
  BY <1>1, <1>2, EnterCodeInv DEF Settled
<1>4. bolt' \in [Slots -> Actions]
  BY <1>1, ActionFacts DEF EInv
<1>5. \A i \in pending_fire' : SlotTable[i].veto_delay > 0
  BY <1>1, EnterFires, TickedFireVeto
<1>6. \A i \in Slots : ~RelockDue(i)'
  BY <1>1, <1>2, EnterNotDue
<1>7. ASSUME NEW i \in Slots, Bolted(i) PROVE Agrees(i)'
  <2>1. Answered(i)
    BY <1>1, <1>2, <1>7, SettledEnter
  <2>2. Agrees(i) /\ i \notin pending_relock
    BY <1>1, <1>7 DEF EInv
  <2>3. bolt'[i] = IF Fires(i) THEN FireAction(i) ELSE bolt[i]
    BY <1>1
  <2>4. (state[i].sustained <=> bolt[i] = FireAction(i))
    BY <2>2 DEF Agrees
  <2>5. CASE Untouched(i)
    BY <2>3, <2>4, <2>5 DEF Untouched, Agrees, FireAction
  <2>6. CASE Released(i)
    BY <2>3, <2>4, <2>6 DEF Released, Agrees, FireAction, Fresh
  <2>7. CASE Sustained(i)
    BY <1>7, <2>1, <2>3, <2>4, <2>7 DEF Sustained, Agrees, FireAction
  <2>8. QED
    BY <2>1, <2>5, <2>6, <2>7 DEF Answered
<1>8. Sorted'
  BY <1>1, <1>2, EnterMints, MintSorted DEF Settled, Inv
<1>9. QED
  BY <1>1, <1>3, <1>4, <1>5, <1>6, <1>7, <1>8
     DEF EInv, Phases, Bolted, PolicyOf, Policies

LEMMA TimeTickInv ==
  ASSUME EInv, TimeTick
  PROVE  EInv'
<1>1. phase = "tick" /\ phase' = "relocks" /\ Tick /\ bolt' = bolt
  BY DEF TimeTick
<1>2. pending_relock = {} /\ Emptied /\ Inv
  BY <1>1 DEF EInv
<1>3. Inv'
  BY <1>1, <1>2, TickInv
<1>4. /\ state' = TickedState /\ pending_relock' = TickedRelock
      /\ pending_fire' = TickedFire /\ now' = now
  BY <1>1 DEF Tick
<1>5. ASSUME NEW i \in Slots PROVE ~RelockDue(i)'
  <2>1. state'[i] = IF Stale(i) THEN Fresh ELSE state[i]
    BY <1>4 DEF TickedState
  <2>2. PolicyOf(i) \in Policy
    BY SlotFacts
  <2>3. ~(PolicyOf(i).kind = "DeadMan" /\ Expired(PolicyOf(i), state'[i], now))
    BY <2>1, <2>2, FreshNotDue DEF Stale
  <2>4. QED
    BY <1>4, <2>3 DEF RelockDue, Stale, PolicyOf, Policies
<1>6. ASSUME NEW i \in Slots, Bolted(i) PROVE Agrees(i)'
  <2>1. state[i].sustained <=> bolt[i] = FireAction(i)
    BY <1>2, <1>6 DEF EInv, Agrees
  <2>2. state'[i] = IF RelockDue(i) THEN Fresh ELSE state[i]
    BY <1>4, <1>6 DEF TickedState, RelockDue, Bolted
  <2>3. i \in pending_relock' <=> RelockDue(i)
    BY <1>2, <1>4 DEF TickedRelock
  <2>4. QED
    BY <1>1, <2>1, <2>2, <2>3 DEF Agrees, FireAction, Fresh
<1>7. Sorted'
  BY <1>1, <1>2, MintSorted, TickEventsType DEF Tick, Inv
<1>8. QED
  BY <1>1, <1>3, <1>4, <1>5, <1>6, <1>7, TickedFireVeto
     DEF EInv, Phases, Bolted, PolicyOf, Policies

LEMMA DrainRelocksInv ==
  ASSUME EInv, DrainRelocks
  PROVE  EInv'
<1>1. /\ phase = "relocks" /\ phase' = "fires" /\ pending_relock' = {}
      /\ bolt' = [i \in Slots |-> IF i \in pending_relock THEN CloseAction(i) ELSE bolt[i]]
      /\ UNCHANGED <<now, state, pending_fire, pending_receipt>>
  BY DEF DrainRelocks, TakeRelocks, vars
<1>2. Inv'
  BY NextInv DEF DrainRelocks, EInv, Next
<1>3. bolt' \in [Slots -> Actions]
  BY <1>1, ActionFacts DEF EInv
<1>4. ASSUME NEW i \in Slots, Bolted(i) PROVE Agrees(i)'
  <2>1. Agrees(i)
    BY <1>4 DEF EInv
  <2>2. bolt'[i] = IF i \in pending_relock THEN CloseAction(i) ELSE bolt[i]
    BY <1>1
  <2>3. QED
    BY <1>1, <2>1, <2>2, ActionFacts DEF Agrees, FireAction
<1>5. \A i \in Slots : ~RelockDue(i)'
  BY <1>1 DEF EInv, RelockDue, Stale, PolicyOf, Policies
<1>6. QED
  BY <1>1, <1>2, <1>3, <1>4, <1>5
     DEF EInv, Phases, Sorted, Occupied, Bolted, PolicyOf, Policies

LEMMA DrainFiresInv ==
  ASSUME EInv, DrainFires
  PROVE  EInv'
<1>1. /\ phase = "fires" /\ phase' = "receipts" /\ pending_fire' = {}
      /\ bolt' = [i \in Slots |-> IF i \in pending_fire THEN FireAction(i) ELSE bolt[i]]
      /\ UNCHANGED <<now, state, pending_relock, pending_receipt>>
  BY DEF DrainFires, TakeFires, vars
<1>2. Inv'
  BY NextInv DEF DrainFires, EInv, Next
<1>3. bolt' \in [Slots -> Actions]
  BY <1>1, ActionFacts DEF EInv
<1>4. ASSUME NEW i \in Slots, Bolted(i) PROVE Agrees(i)'
  <2>1. i \notin pending_fire
    BY <1>4 DEF EInv, Bolted
  <2>2. bolt'[i] = bolt[i] /\ Agrees(i)
    BY <1>1, <1>4, <2>1 DEF EInv
  <2>3. QED
    BY <1>1, <2>2 DEF Agrees, FireAction
<1>5. \A i \in Slots : ~RelockDue(i)'
  BY <1>1 DEF EInv, RelockDue, Stale, PolicyOf, Policies
<1>6. QED
  BY <1>1, <1>2, <1>3, <1>4, <1>5
     DEF EInv, Phases, Sorted, Occupied, Bolted, PolicyOf, Policies

LEMMA DrainReceiptsInv ==
  ASSUME EInv, DrainReceipts
  PROVE  EInv'
<1>1. /\ phase = "receipts" /\ bolt' = bolt
      /\ UNCHANGED <<now, state, pending_relock, pending_fire>>
  BY DEF DrainReceipts, TakeReceipt, vars
<1>2. Inv' /\ TypeOK /\ DOMAIN pending_receipt = 1 .. MaxReceipts
  BY NextInv DEF DrainReceipts, EInv, Next, Inv, TypeOK
<1>3. \A i \in Slots : ~RelockDue(i)' /\ (Bolted(i) => Agrees(i)')
  BY <1>1 DEF EInv, RelockDue, Stale, PolicyOf, Policies, Agrees, FireAction
<1>4. CASE phase' = "idle" /\ UNCHANGED vars /\ Emptied
  BY <1>1, <1>2, <1>3, <1>4
     DEF EInv, Phases, Sorted, Emptied, Occupied, Bolted, PolicyOf, Policies, vars
<1>5. CASE phase' = phase /\ TakeReceipt
  <2>1. Sorted'
    BY <1>2, <1>5, TakeSorted DEF EInv
  <2>2. QED
    BY <1>1, <1>2, <1>3, <1>5, <2>1 DEF EInv, Phases, Bolted, PolicyOf, Policies
<1>6. QED
  BY <1>2, <1>4, <1>5 DEF DrainReceipts, Emptied, Occupied

LEMMA LockAttestInv ==
  ASSUME EInv, NEW a \in {"Lock", "Unlock"}, LockAttest(a)
  PROVE  EInv'
<1>1. /\ phase = "idle" /\ phase' = "receipts" /\ bolt' = bolt
      /\ UNCHANGED <<now, state, pending_relock, pending_fire>>
  BY DEF LockAttest, Attest
<1>2. Inv'
  BY AttestInv DEF LockAttest, EInv
<1>3. \A i \in Slots : ~RelockDue(i)' /\ (Bolted(i) => Agrees(i)')
  BY <1>1 DEF EInv, RelockDue, Stale, PolicyOf, Policies, Agrees, FireAction
<1>4. Sorted'
  <2>1. IsFiniteSet({Event(0, a)})
    BY FS_Singleton
  <2>2. QED
    BY <1>1, <2>1, MintSorted DEF LockAttest, Attest, EInv, Inv
<1>5. QED
  BY <1>1, <1>2, <1>3, <1>4 DEF EInv, Phases, Bolted, PolicyOf, Policies

LEMMA TimeAdvanceInv ==
  ASSUME EInv, NEW d \in 1 .. MaxStep, TimeAdvance(d)
  PROVE  EInv'
<1>1. /\ phase = "idle" /\ phase' = "tick" /\ now' = now + d /\ outcome' = NoOutcome
      /\ UNCHANGED <<state, burned, lockout_until, pending_relock, armed_until,
                     pending_fire, fired_count, next_seq, pending_receipt, bolt>>
  BY DEF TimeAdvance
<1>2. TypeOK'
  BY <1>1, StepAssumption DEF EInv, Inv, TypeOK, NoOutcome, Outcome, OutcomeKinds
<1>3. Inv'
  BY <1>1, <1>2 DEF EInv, Inv, PolicyOf, Policies
<1>4. \A i \in Slots : Bolted(i) => Agrees(i)'
  BY <1>1 DEF EInv, Agrees, FireAction
<1>5. QED
  BY <1>1, <1>3, <1>4
     DEF EInv, Phases, Sorted, Emptied, Occupied, Bolted, PolicyOf, Policies

LEMMA ENextInv ==
  ASSUME EInv, [ENext]_evars
  PROVE  EInv'
<1>1. ASSUME NEW code \in Codes, NEW shut \in SUBSET GateKinds, LockEnter(code, shut)
      PROVE  EInv'
  BY <1>1, LockEnterInv
<1>2. ASSUME NEW d \in 1 .. MaxStep, TimeAdvance(d) PROVE EInv'
  BY <1>2, TimeAdvanceInv
<1>3. CASE TimeTick
  BY <1>3, TimeTickInv
<1>4. ASSUME NEW a \in {"Lock", "Unlock"}, LockAttest(a) PROVE EInv'
  BY <1>4, LockAttestInv
<1>5. CASE DrainRelocks
  BY <1>5, DrainRelocksInv
<1>6. CASE DrainFires
  BY <1>6, DrainFiresInv
<1>7. CASE DrainReceipts
  BY <1>7, DrainReceiptsInv
<1>8. CASE UNCHANGED evars
  <2>1. Inv'
    BY <1>8, NextInv DEF EInv, evars
  <2>2. \A i \in Slots : RelockDue(i)' = RelockDue(i) /\ (Agrees(i)' <=> Agrees(i))
    BY <1>8 DEF evars, vars, RelockDue, Stale, PolicyOf, Policies, Agrees, FireAction
  <2>3. QED
    BY <1>8, <2>1, <2>2
       DEF EInv, evars, vars, Bolted, PolicyOf, Policies, Emptied, Sorted, Occupied
<1>9. QED
  BY <1>1, <1>2, <1>3, <1>4, <1>5, <1>6, <1>7, <1>8 DEF ENext

-------------------------------------------------------------------------------
(***************************************************************************)
(* The theorems.                                                           *)
(***************************************************************************)
LEMMA EInvHolds == ESpec => []EInv
<1>1. EInit => EInv
  BY EInitInv
<1>2. EInv /\ [ENext]_evars => EInv'
  BY ENextInv
<1>3. QED
  BY <1>1, <1>2, PTL DEF ESpec

\* A caller that ticks whenever it reads the clock and drains in the code's
\* order never disagrees with the engine about a dead-man slot that opens at
\* once (take_relocks, engine.rs:267-271; drain_relocks, main.rs:846-859).
THEOREM BoltFollowsSustain ==
  ASSUME NoBudgetedSustain
  PROVE  ESpec => []SustainMatchesBolt
<1>1. EInv => SustainMatchesBolt
  BY DEF EInv, SustainMatchesBolt, NoBudgetedSustain, Bolted, Agrees
<1>2. QED
  BY <1>1, EInvHolds, PTL

\* The receipt a drain pops is the oldest one waiting, however many events one
\* call minted (take_receipt, engine.rs:186-193; drain_receipts, main.rs:863-882).
THEOREM DrainsOldestFirst == ESpec => DrainsInOrder
<1>1. ASSUME EInv, [ENext]_evars,
             NEW p \in DOMAIN pending_receipt,
             pending_receipt[p] # NoReceipt, pending_receipt'[p] = NoReceipt,
             NEW q \in DOMAIN pending_receipt, pending_receipt[q] # NoReceipt
      PROVE  pending_receipt[p].seq <= pending_receipt[q].seq
  <2>1. p \in 1 .. MaxReceipts /\ q \in 1 .. MaxReceipts /\ Occupied(p) /\ Occupied(q)
    BY <1>1 DEF EInv, Inv, TypeOK, Occupied
  <2>2. phase \notin {"idle", "tick"} /\ pending_receipt' # pending_receipt
    BY <1>1, <2>1 DEF EInv, Emptied
  <2>3. TakeReceipt
    BY <1>1, <2>2
       DEF ENext, LockEnter, TimeAdvance, TimeTick, LockAttest, DrainRelocks, DrainFires,
           DrainReceipts, TakeRelocks, TakeFires, evars, vars
  <2>4. PICK t \in 1 .. MaxReceipts :
          /\ \A j \in 1 .. (t - 1) : pending_receipt[j] = NoReceipt
          /\ pending_receipt' = [pending_receipt EXCEPT ![t] = NoReceipt]
    BY <2>3 DEF TakeReceipt
  <2>5. p = t
    BY <1>1, <2>1, <2>4
  <2>6. p <= q
    BY <1>1, <2>1, <2>4, <2>5, BoundAssumption
  <2>7. CASE p = q
    <3>1. pending_receipt[p].seq \in Nat
      BY <1>1, <2>1 DEF EInv, Inv, TypeOK, Occupied, Receipt
    <3>2. QED
      BY <2>7, <3>1
  <2>8. CASE p < q
    <3>1. pending_receipt[p].seq < pending_receipt[q].seq
      BY <1>1, <2>1, <2>8 DEF EInv, Sorted
    <3>2. pending_receipt[p].seq \in Nat /\ pending_receipt[q].seq \in Nat
      BY <1>1, <2>1 DEF EInv, Inv, TypeOK, Occupied, Receipt
    <3>3. QED
      BY <3>1, <3>2
  <2>9. QED
    BY <2>1, <2>6, <2>7, <2>8, BoundAssumption
<1>2. EInv /\ [ENext]_evars =>
        [\A p \in DOMAIN pending_receipt :
           pending_receipt[p] # NoReceipt /\ pending_receipt'[p] = NoReceipt =>
             \A q \in DOMAIN pending_receipt :
               pending_receipt[q] # NoReceipt =>
                 pending_receipt[p].seq <= pending_receipt[q].seq]_evars
  BY <1>1
<1>3. QED
  BY <1>2, EInvHolds, PTL DEF ESpec, DrainsInOrder

\* A caller that drains after every call loses no receipt, if the buffer has
\* room for a fire of every slot and a re-lock of every dead-man slot at once.
\* MAX_RECEIPTS is MAX_SLOTS + 1 (engine.rs:25-27): a full table with one
\* dead-man slot fits, and so does any table of four slots.
THEOREM NoReceiptLost ==
  ASSUME RoomPerCall
  PROVE  ESpec => ReceiptsKept
<1>1. ASSUME EInv, [ENext]_evars, next_seq' # next_seq
      PROVE  Held' - Held = next_seq' - next_seq
  <2>1. phase \in {"idle", "tick"} /\ \E E : Fits(E) /\ Mint(E)
    <3>1. ASSUME NEW code \in Codes, NEW shut \in SUBSET GateKinds, LockEnter(code, shut)
          PROVE  phase \in {"idle", "tick"} /\ \E E : Fits(E) /\ Mint(E)
      BY <1>1, <3>1, EnterFits DEF LockEnter, EInv
    <3>2. CASE TimeTick
      BY <3>2, TickFits DEF TimeTick, Tick
    <3>3. ASSUME NEW a \in {"Lock", "Unlock"}, LockAttest(a)
          PROVE  phase \in {"idle", "tick"} /\ \E E : Fits(E) /\ Mint(E)
      BY <3>3, AttestFits DEF LockAttest
    <3>4. QED
      BY <1>1, <3>1, <3>2, <3>3
         DEF ENext, TimeAdvance, DrainRelocks, TakeRelocks, DrainFires, TakeFires,
             DrainReceipts, TakeReceipt, evars, vars
  <2>2. PICK E : Fits(E) /\ Mint(E)
    BY <2>1
  <2>3. HasConfirm
    BY <1>1, <2>2 DEF Mint
  <2>4. TypeOK /\ Emptied
    BY <1>1, <2>1 DEF EInv, Inv
  <2>5. QED
    BY <2>2, <2>3, <2>4, MintHeld DEF Fits
<1>2. EInv /\ [ENext]_evars =>
        [next_seq' # next_seq => Held' - Held = next_seq' - next_seq]_evars
  BY <1>1
<1>3. QED
  BY <1>2, EInvHolds, PTL DEF ESpec, ReceiptsKept
===============================================================================
