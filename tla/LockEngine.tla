------------------------------ MODULE LockEngine ------------------------------
(***************************************************************************)
(* The lock-side validation engine, ephemerkey-core/src/engine.rs: slot    *)
(* table, per-slot runtime state, replay watermarks, decoy lockout, veto   *)
(* arming, usage budgets, DeadMan re-locks and the queue of event receipts.*)
(*                                                                         *)
(* One action per public method.  enter_code_with is one method with many  *)
(* outcomes: each outcome is an action of its own, and every one of them   *)
(* begins with the tick the method begins with.                            *)
(*                                                                         *)
(* Abstractions.                                                           *)
(*  - A code is the pair (key, counter) it was minted from; two different  *)
(*    pairs never render to the same digits.  NoCode stands for digits     *)
(*    that no key of the table produces at any counter searched.           *)
(*  - The environment is the set of gates that are shut at the call.       *)
(*  - A receipt keeps its event counter and its action.                    *)
(***************************************************************************)
EXTENDS SlotPolicy

CONSTANTS
  SlotTable,    \* sequence of provisioned slots, in priority order
  Decoy,        \* KeyDef.decoy: each key's poison twin, or NoKey
  GateKinds,    \* the gates a slot may list
  HasConfirm,   \* a confirm minter is configured (receipts: Some)
  MaxReceipts,  \* MAX_RECEIPTS
  FiredMax,     \* u16::MAX, where fired_count saturates
  StartTime,    \* bound: clock reading at power-up
  MaxTime,      \* bound: last clock reading explored
  MaxSeq,       \* bound: receipts an attest button press may reach
  ClockSteps    \* the clock may be set, backwards too

Slots == 1 .. Len(SlotTable)

Actions == {"Unlock", "Lock", "DuressUnlock"}

Negatives == [kind : {"Reset", "Lockout", "Silent"}, secs : Nat]

Slot ==
  [policy : Policy, gates : SUBSET GateKinds, action : Actions,
   reset_on_invalid : BOOLEAN, negative : Negatives,
   veto_delay : Nat, veto_key : Keys \cup {NoKey}, budget : Nat]

\* What the tables are taken to be (a candidate key exists for every leg, a
\* delay window is not inverted; the decoder checks neither) and the widths of the
\* fields.
SlotOK(s) ==
  /\ s.policy.keys # << >>
  /\ s.policy.kind = "Path" => s.policy.need <= Len(s.policy.keys)
  /\ s.policy.delay_min <= s.policy.delay_max
  /\ s.budget <= FiredMax

ASSUME SlotAssumption ==
  /\ SlotTable \in Seq(Slot)
  /\ \A i \in Slots : SlotOK(SlotTable[i])
ASSUME DecoyAssumption == Decoy \in [Keys -> Keys \cup {NoKey}]
ASSUME BoundAssumption ==
  /\ HasConfirm \in BOOLEAN /\ ClockSteps \in BOOLEAN
  /\ MaxReceipts \in Nat /\ FiredMax \in Nat
  /\ StartTime \in Nat /\ MaxTime \in Nat /\ MaxSeq \in Nat

MAX_QUORUM == 4

NotArmed == -1                       \* armed_until: None
NoReceipt == [seq |-> -1, action |-> "Lock"]
Receipt == [seq : Nat, action : Actions]

NoCode == [key |-> NoKey, counter |-> 0]

OutcomeKinds ==
  {"None", "Progress", "Fired", "Reset", "Replay", "Beat", "Negative",
   "LockedOut", "Gated", "Invalid", "Armed", "Vetoed", "Exhausted"}
Outcome == [kind : OutcomeKinds, slot : Nat]
NoOutcome == [kind |-> "None", slot |-> 0]

VARIABLES
  now,              \* unix time as the caller reads it
  state,            \* state[i]: SlotState of slot i
  burned,           \* highest accepted counter per slot
  lockout_until,    \* negative lockout per slot
  pending_relock,   \* slots whose re-lock the caller still owes
  armed_until,      \* armed veto slots and when they fire
  pending_fire,     \* slots whose veto window elapsed
  fired_count,      \* fires per slot
  next_seq,         \* Receipts.next_seq
  pending_receipt,  \* the receipt buffer
  outcome           \* what enter_code_with returned, in the step that called it

vars == <<now, state, burned, lockout_until, pending_relock, armed_until,
          pending_fire, fired_count, next_seq, pending_receipt, outcome>>

Init ==
  /\ now = StartTime
  /\ state = [i \in Slots |-> Fresh]
  /\ burned = [i \in Slots |-> 0]
  /\ lockout_until = [i \in Slots |-> 0]
  /\ pending_relock = {}
  /\ armed_until = [i \in Slots |-> NotArmed]
  /\ pending_fire = {}
  /\ fired_count = [i \in Slots |-> 0]
  /\ next_seq = 0
  /\ pending_receipt = [p \in 1 .. MaxReceipts |-> NoReceipt]
  /\ outcome = NoOutcome

-------------------------------------------------------------------------------
(***************************************************************************)
(* Receipts.  The events of one call are ranked in the order the code      *)
(* mints them; the k-th event of the call fills the k-th hole of the       *)
(* buffer, and an event that finds no hole is dropped with its counter     *)
(* already consumed (the debug_assert is compiled out).                    *)
(***************************************************************************)
Event(rank, action) == [rank |-> rank, action |-> action]

Rank(e, events) == Cardinality({f \in events : f.rank <= e.rank})

HoleNumber(p) == Cardinality({q \in 1 .. p : pending_receipt[q] = NoReceipt})

\* (mutant: every event of a call gets the counter of the first)
Queued_SameSeq(events) ==
  [p \in 1 .. MaxReceipts |->
     LET here == {e \in events : Rank(e, events) = HoleNumber(p)}
     IN  IF pending_receipt[p] = NoReceipt /\ here # {}
           THEN [seq |-> next_seq, action |-> (CHOOSE e \in here : TRUE).action]
           ELSE pending_receipt[p]]

\* (mutant: only the first event of a call is kept)
Queued_FirstOnly(events) ==
  [p \in 1 .. MaxReceipts |->
     IF pending_receipt[p] = NoReceipt /\ HoleNumber(p) = 1 /\ events # {}
       THEN [seq |-> next_seq, action |-> (CHOOSE e \in events : TRUE).action]
       ELSE pending_receipt[p]]

Queued(events) ==
  [p \in 1 .. MaxReceipts |->
     LET here == {e \in events : Rank(e, events) = HoleNumber(p)}
     IN  IF pending_receipt[p] = NoReceipt /\ here # {}
           THEN [seq    |-> next_seq + HoleNumber(p) - 1,
                 action |-> (CHOOSE e \in here : TRUE).action]
           ELSE pending_receipt[p]]

Mint(events) ==
  IF HasConfirm
    THEN /\ pending_receipt' = Queued(events)
         /\ next_seq' = next_seq + Cardinality(events)
    ELSE UNCHANGED <<pending_receipt, next_seq>>

RelockAction(a) == IF a = "Lock" THEN "Unlock" ELSE "Lock"

-------------------------------------------------------------------------------
(***************************************************************************)
(* tick: every slot in turn drops a stale round, then fires if its veto    *)
(* window has elapsed.  Slots do not interact, so the sweep is written as  *)
(* the state it leaves behind.                                             *)
(***************************************************************************)
Policies == [i \in Slots |-> SlotTable[i].policy]
PolicyOf(i) == Policies[i]

Stale(i) == Expired(PolicyOf(i), state[i], now)
RelockDue(i) == PolicyOf(i).kind = "DeadMan" /\ Stale(i)
\* (mutant: one second early)
FireDue_Early(i) == armed_until[i] # NotArmed /\ now + 1 >= armed_until[i]

FireDue(i) == armed_until[i] # NotArmed /\ now >= armed_until[i]

TickedState == [i \in Slots |-> IF Stale(i) THEN Fresh ELSE state[i]]
TickedArmed == [i \in Slots |-> IF FireDue(i) THEN NotArmed ELSE armed_until[i]]

\* (mutant: the counter does not saturate)
Saturated_Not(n) == n + 1

Saturated(n) == IF n < FiredMax THEN n + 1 ELSE n
TickedFired ==
  [i \in Slots |-> IF FireDue(i) THEN Saturated(fired_count[i]) ELSE fired_count[i]]

\* (mutant: what SlotState::tick returns is ignored)
TickedRelock_Lost == pending_relock

TickedRelock == pending_relock \cup {i \in Slots : RelockDue(i)}
TickedFire   == pending_fire \cup {i \in Slots : FireDue(i)}

TickEvents ==
  {Event(2 * i, RelockAction(SlotTable[i].action)) : i \in {j \in Slots : RelockDue(j)}}
  \cup {Event(2 * i + 1, SlotTable[i].action) : i \in {j \in Slots : FireDue(j)}}

Tick ==
  /\ state' = TickedState
  /\ armed_until' = TickedArmed
  /\ fired_count' = TickedFired
  /\ pending_relock' = TickedRelock
  /\ pending_fire' = TickedFire
  /\ Mint(TickEvents)
  /\ outcome' = NoOutcome
  /\ UNCHANGED <<now, burned, lockout_until>>

-------------------------------------------------------------------------------
(***************************************************************************)
(* Which slot an entered code belongs to.                                  *)
(***************************************************************************)
SatSub(a, b) == IF a >= b THEN a - b ELSE 0

\* (mutant: the search has no oldest counter)
MatchKey_AnyAge(key, code, delay) ==
  /\ key \in Keys
  /\ code.key = key
  /\ code.counter <= SatSub(now, delay.min) \div PERIOD_S

\* match_key: the code was minted from this key at a counter of the window.
MatchKey(key, code, delay) ==
  /\ key \in Keys
  /\ code.key = key
  /\ Between(code.counter, SatSub(now, delay.max) \div PERIOD_S,
                           SatSub(now, delay.min) \div PERIOD_S)

Instant == [min |-> 0, max |-> 2 * PERIOD_S]

\* Armed slots whose veto key minted the code.
VetoHits(code) ==
  {i \in Slots : /\ TickedArmed[i] # NotArmed
                 /\ MatchKey(SlotTable[i].veto_key, code, Instant)}

CandKey(i, kidx) == PolicyOf(i).keys[kidx]

RealHit(i, kidx, code) ==
  MatchKey(CandKey(i, kidx), code, DelayWindow(PolicyOf(i)))

DecoyHit(i, kidx, code) ==
  MatchKey(Decoy[CandKey(i, kidx)], code, DelayWindow(PolicyOf(i)))

Hits(code) ==
  {h \in Slots \X (1 .. MAX_QUORUM) :
     /\ h[2] \in Candidates(PolicyOf(h[1]), TickedState[h[1]])
     /\ RealHit(h[1], h[2], code) \/ DecoyHit(h[1], h[2], code)}

\* h is the first (slot, candidate) that the code matches.
ScanStopsAt(h, code) ==
  /\ h \in Hits(code)
  /\ \A g \in Hits(code) : h[1] < g[1] \/ (h[1] = g[1] /\ h[2] <= g[2])

LockedOut(i) == now < lockout_until[i]
GateShut(i, shut) == SlotTable[i].gates \cap shut # {}

Verdicts(i, kidx, code) ==
  OnCode(PolicyOf(i), TickedState[i], kidx, code.counter, now)

\* (mutant: off by one)
BudgetSpent_OffByOne(i) ==
  SlotTable[i].budget > 0 /\ TickedFired[i] > SlotTable[i].budget

BudgetSpent(i) == SlotTable[i].budget > 0 /\ TickedFired[i] >= SlotTable[i].budget

Report(kind, i) == outcome' = [kind |-> kind, slot |-> i]

-------------------------------------------------------------------------------
(***************************************************************************)
(* enter_code_with, one action per outcome.                                *)
(***************************************************************************)

\* Events minted after the tick's own, in slot order.
Later(i, action) == Event(2 * (Len(SlotTable) + 1) + i, action)

\* (mutant: a forced reset forgets the re-lock)
OwesRelock_Never(i) == FALSE

OwesRelock(i) == PolicyOf(i).kind = "DeadMan" /\ TickedState[i].sustained

\* The tick every call begins with, then reset_slot on each slot of R.
TickAndReset(R) ==
  LET owed == {i \in R : OwesRelock(i)}
  IN  /\ state' = [i \in Slots |-> IF i \in R THEN Fresh ELSE TickedState[i]]
      /\ pending_relock' = TickedRelock \cup owed
      /\ pending_fire' = TickedFire
      /\ armed_until' = TickedArmed
      /\ fired_count' = TickedFired
      /\ Mint(TickEvents \cup
              {Later(i, RelockAction(SlotTable[i].action)) : i \in owed})

\* An armed slot's veto key: the arming is cancelled and the round dropped.
EnterVetoed(code) ==
  \E i \in VetoHits(code) :
    /\ \A j \in VetoHits(code) : i <= j
    /\ state' = [TickedState EXCEPT ![i] = Fresh]
    /\ armed_until' = [TickedArmed EXCEPT ![i] = NotArmed]
    /\ fired_count' = TickedFired
    /\ pending_relock' = TickedRelock
    /\ pending_fire' = TickedFire
    /\ Mint(TickEvents)
    /\ Report("Vetoed", i)
    /\ UNCHANGED <<now, burned, lockout_until>>

\* A correct code that changes nothing beyond the tick: the slot is locked
\* out, a gate is shut, or the counter is already burned.
EnterRefused(i, code, shut) ==
  /\ \/ LockedOut(i) /\ Report("LockedOut", i)
     \/ ~LockedOut(i) /\ GateShut(i, shut) /\ Report("Gated", i)
     \/ /\ ~LockedOut(i) /\ ~GateShut(i, shut) /\ code.counter <= burned[i]
        /\ Report("Replay", i)
  /\ TickAndReset({})
  /\ UNCHANGED <<now, burned, lockout_until>>

\* (mutant: the replay watermark is not consulted)
Accepts_Replay(i, code, shut) == ~LockedOut(i) /\ ~GateShut(i, shut)

\* The slot is neither locked out nor gated, and the counter is not burned.
Accepts(i, code, shut) ==
  ~LockedOut(i) /\ ~GateShut(i, shut) /\ code.counter > burned[i]

VerdictOutcome(verdict) == IF verdict = "Ignored" THEN "Replay" ELSE verdict

\* The code is burned and moves the slot's round without completing it.
EnterAdvanced(i, kidx, code, shut) ==
  /\ Accepts(i, code, shut)
  /\ \E r \in Verdicts(i, kidx, code) :
       /\ r.verdict # "Fire"
       /\ state' = [TickedState EXCEPT ![i] = r.st]
       /\ Report(VerdictOutcome(r.verdict), i)
  /\ burned' = [burned EXCEPT ![i] = code.counter]
  /\ armed_until' = TickedArmed
  /\ fired_count' = TickedFired
  /\ pending_relock' = TickedRelock
  /\ pending_fire' = TickedFire
  /\ Mint(TickEvents)
  /\ UNCHANGED <<now, lockout_until>>

\* The code completes the slot's policy: the slot is spent, or arms its veto
\* window, or fires.
EnterSatisfied(i, kidx, code, shut) ==
  /\ Accepts(i, code, shut)
  /\ \E r \in Verdicts(i, kidx, code) :
       /\ r.verdict = "Fire"
       /\ state' = [TickedState EXCEPT ![i] = r.st]
  /\ burned' = [burned EXCEPT ![i] = code.counter]
  /\ \/ /\ BudgetSpent(i)
        /\ armed_until' = TickedArmed
        /\ fired_count' = TickedFired
        /\ Mint(TickEvents)
        /\ Report("Exhausted", i)
     \/ /\ ~BudgetSpent(i)
        /\ SlotTable[i].veto_delay > 0
        /\ armed_until' = [TickedArmed EXCEPT ![i] = now + SlotTable[i].veto_delay]
        /\ fired_count' = TickedFired
        /\ Mint(TickEvents)
        /\ Report("Armed", i)
     \/ /\ ~BudgetSpent(i)
        /\ SlotTable[i].veto_delay = 0
        /\ armed_until' = TickedArmed
        /\ fired_count' = [TickedFired EXCEPT ![i] = Saturated(@)]
        /\ Mint(TickEvents \cup {Later(i, SlotTable[i].action)})
        /\ Report("Fired", i)
  /\ pending_relock' = TickedRelock
  /\ pending_fire' = TickedFire
  /\ UNCHANGED <<now, lockout_until>>

\* A poison code: the decoy tripwire, whatever the gates say.
EnterNegative(i) ==
  /\ TickAndReset(IF SlotTable[i].negative.kind = "Silent" THEN {} ELSE {i})
  /\ lockout_until' =
       IF SlotTable[i].negative.kind = "Lockout"
         THEN [lockout_until EXCEPT ![i] = now + SlotTable[i].negative.secs]
         ELSE lockout_until
  /\ Report("Negative", i)
  /\ UNCHANGED <<now, burned>>

\* Matched nothing anywhere: every reset_on_invalid slot is reset.
EnterInvalid ==
  /\ TickAndReset({i \in Slots : SlotTable[i].reset_on_invalid})
  /\ Report("Invalid", 0)
  /\ UNCHANGED <<now, burned, lockout_until>>

EnterMatched(i, kidx, code, shut) ==
  IF RealHit(i, kidx, code)
    THEN \/ EnterRefused(i, code, shut)
         \/ EnterAdvanced(i, kidx, code, shut)
         \/ EnterSatisfied(i, kidx, code, shut)
    ELSE EnterNegative(i)

EnterCode(code, shut) ==
  IF VetoHits(code) # {} THEN EnterVetoed(code)
  ELSE IF Hits(code) = {} THEN EnterInvalid
  ELSE \E h \in Hits(code) :
         ScanStopsAt(h, code) /\ EnterMatched(h[1], h[2], code, shut)

-------------------------------------------------------------------------------
(***************************************************************************)
(* The caller: drains, the attest button, and the clock.                   *)
(***************************************************************************)
TakeRelocks ==
  /\ pending_relock # {}
  /\ pending_relock' = {}
  /\ outcome' = NoOutcome
  /\ UNCHANGED <<now, state, burned, lockout_until, armed_until, pending_fire,
                 fired_count, next_seq, pending_receipt>>

TakeFires ==
  /\ pending_fire # {}
  /\ pending_fire' = {}
  /\ outcome' = NoOutcome
  /\ UNCHANGED <<now, state, burned, lockout_until, pending_relock, armed_until,
                 fired_count, next_seq, pending_receipt>>

\* (mutant: pops the last occupied place)
TakeReceipt_Last ==
  /\ \E p \in 1 .. MaxReceipts :
       /\ pending_receipt[p] # NoReceipt
       /\ \A q \in (p + 1) .. MaxReceipts : pending_receipt[q] = NoReceipt
       /\ pending_receipt' = [pending_receipt EXCEPT ![p] = NoReceipt]
  /\ outcome' = NoOutcome
  /\ UNCHANGED <<now, state, burned, lockout_until, pending_relock, armed_until,
                 pending_fire, fired_count, next_seq>>

\* take_receipt pops the first occupied place of the buffer.
TakeReceipt ==
  /\ \E p \in 1 .. MaxReceipts :
       /\ pending_receipt[p] # NoReceipt
       /\ \A q \in 1 .. (p - 1) : pending_receipt[q] = NoReceipt
       /\ pending_receipt' = [pending_receipt EXCEPT ![p] = NoReceipt]
  /\ outcome' = NoOutcome
  /\ UNCHANGED <<now, state, burned, lockout_until, pending_relock, armed_until,
                 pending_fire, fired_count, next_seq>>

Attest(action) ==
  /\ HasConfirm /\ next_seq < MaxSeq
  /\ Mint({Event(0, action)})
  /\ outcome' = NoOutcome
  /\ UNCHANGED <<now, state, burned, lockout_until, pending_relock, armed_until,
                 pending_fire, fired_count>>

\* Time passes; the engine learns of it only when it is called.
PassTime ==
  /\ now < MaxTime
  /\ now' = now + 1
  /\ outcome' = NoOutcome
  /\ UNCHANGED <<state, burned, lockout_until, pending_relock, armed_until,
                 pending_fire, fired_count, next_seq, pending_receipt>>

\* The console's T line and the emulator's `time set`: the clock is simply set.
SetClock(t) ==
  /\ ClockSteps /\ t # now
  /\ now' = t
  /\ outcome' = NoOutcome
  /\ UNCHANGED <<state, burned, lockout_until, pending_relock, armed_until,
                 pending_fire, fired_count, next_seq, pending_receipt>>

\* Every code a generator can have shown by now, and noise.
Codes == [key : Keys, counter : 0 .. (now \div PERIOD_S)] \cup {NoCode}

Next ==
  \/ PassTime
  \/ \E t \in StartTime .. MaxTime : SetClock(t)
  \/ Tick
  \/ \E code \in Codes, shut \in SUBSET GateKinds : EnterCode(code, shut)
  \/ TakeRelocks
  \/ TakeFires
  \/ TakeReceipt
  \/ \E a \in {"Lock", "Unlock"} : Attest(a)

Spec == Init /\ [][Next]_vars

-------------------------------------------------------------------------------
(***************************************************************************)
(* Properties.                                                             *)
(***************************************************************************)

\* Every variable has the type of its field in LockEngine.
TypeOK ==
  /\ now \in Nat
  /\ state \in [Slots -> SlotState]
  /\ burned \in [Slots -> Nat]
  /\ lockout_until \in [Slots -> Nat]
  /\ pending_relock \subseteq Slots
  /\ armed_until \in [Slots -> Nat \cup {NotArmed}]
  /\ pending_fire \subseteq Slots
  /\ fired_count \in [Slots -> 0 .. FiredMax]
  /\ next_seq \in Nat
  /\ pending_receipt \in [1 .. MaxReceipts -> Receipt \cup {NoReceipt}]
  /\ outcome \in Outcome

\* A budgeted slot never acts more often than its budget, although a veto slot
\* is checked when it arms and acts only when a later tick finds its window
\* elapsed (Slot.budget; the check at engine.rs:358, the fire at engine.rs:255).
BudgetKept ==
  \A i \in Slots : SlotTable[i].budget > 0 => fired_count[i] <= SlotTable[i].budget

\* What the runtime state of a slot says about its round never contradicts the
\* replay watermark or the policy: an open round is shorter than the policy
\* asks for, its last counter is the one burned last, its drawn accept window
\* is not empty, and a quorum has counted each member it has seen exactly once.
RoundCoherent ==
  \A i \in Slots :
    LET p == PolicyOf(i)
        st == state[i]
    IN  /\ st.count > 0 => p.kind # "AlwaysValid" /\ st.last_counter = burned[i]
        /\ p.kind \in {"Sequence", "Path", "Quorum"} => st.count < p.need
        /\ p.kind = "Sequence" /\ st.count > 0 /\ p.gap_min <= p.gap_max =>
             /\ p.gap_min <= st.pace_lo
             /\ st.pace_lo <= st.pace_hi
             /\ st.pace_hi <= p.gap_max
        /\ p.kind = "Quorum" => Cardinality(st.seen) = st.count

\* A DeadMan slot without a veto window never stops being sustained without
\* owing its caller the re-lock, whichever path ended it: a missed beat, an
\* invalid code, or a poison code (take_relocks, engine.rs:267-271).
SustainEndsWithRelock ==
  [][\A i \in Slots :
       SlotTable[i].veto_delay = 0 /\ state[i].sustained /\ ~state'[i].sustained
         => i \in pending_relock']_vars

\* The receipts waiting in the buffer carry event counters of their own, below
\* the next one to be minted, even when one call minted several events or the
\* buffer overflowed in between (mint_receipt, engine.rs:171-181).
ReceiptsDistinct ==
  \A p, q \in 1 .. MaxReceipts :
    pending_receipt[p] # NoReceipt =>
      /\ pending_receipt[p].seq < next_seq
      /\ p # q /\ pending_receipt[q] # NoReceipt
           => pending_receipt[p].seq # pending_receipt[q].seq
===============================================================================
