------------------------------ MODULE LockEmulator ------------------------------
(***************************************************************************)
(* The engine under the caller ephemerkey-emu/src/main.rs writes for it: a *)
(* command either enters a code, advances time and ticks, presses the      *)
(* attest button, or sets the clock, and then drains re-locks, fires and   *)
(* receipts in that order.  bolt[i] is what the caller last actuated for  *)
(* slot i: its fire action, or the opposite.                               *)
(*                                                                         *)
(* The emulator runs one command to its end before the next, so a command  *)
(* is a run of phases: nothing else happens between them.                  *)
(***************************************************************************)
EXTENDS LockEngine

CONSTANT MaxStep   \* bound: longest `time +n`

ASSUME StepAssumption == MaxStep \in Nat

VARIABLES
  bolt,    \* bolt[i]: the last action actuated for slot i
  phase    \* what remains of the current command

evars == <<vars, bolt, phase>>

Phases == {"idle", "tick", "relocks", "fires", "receipts"}

FireAction(i) == SlotTable[i].action
CloseAction(i) == RelockAction(SlotTable[i].action)

EInit ==
  /\ Init
  /\ bolt = [i \in Slots |-> CloseAction(i)]
  /\ phase = "idle"

\* lock enter <code>
LockEnter(code, shut) ==
  /\ phase = "idle"
  /\ EnterCode(code, shut)
  /\ bolt' = [i \in Slots |->
                IF outcome' = [kind |-> "Fired", slot |-> i] THEN FireAction(i) ELSE bolt[i]]
  /\ phase' = "relocks"

\* time +n
TimeAdvance(d) ==
  /\ phase = "idle"
  /\ now + d <= MaxTime
  /\ now' = now + d
  /\ outcome' = NoOutcome
  /\ phase' = "tick"
  /\ UNCHANGED <<state, burned, lockout_until, pending_relock, armed_until,
                 pending_fire, fired_count, next_seq, pending_receipt, bolt>>

TimeTick ==
  /\ phase = "tick"
  /\ Tick
  /\ phase' = "relocks"
  /\ UNCHANGED bolt

\* time set <unix>: no tick follows.
TimeSet(t) ==
  /\ phase = "idle"
  /\ SetClock(t)
  /\ UNCHANGED <<bolt, phase>>

\* lock attest
LockAttest(action) ==
  /\ phase = "idle"
  /\ Attest(action)
  /\ phase' = "receipts"
  /\ UNCHANGED bolt

\* drain_relocks: re-locks first, then the veto windows that elapsed.
DrainRelocks ==
  /\ phase = "relocks"
  /\ IF pending_relock = {} THEN UNCHANGED vars ELSE TakeRelocks
  /\ bolt' = [i \in Slots |-> IF i \in pending_relock THEN CloseAction(i) ELSE bolt[i]]
  /\ phase' = "fires"

DrainFires ==
  /\ phase = "fires"
  /\ IF pending_fire = {} THEN UNCHANGED vars ELSE TakeFires
  /\ bolt' = [i \in Slots |-> IF i \in pending_fire THEN FireAction(i) ELSE bolt[i]]
  /\ phase' = "receipts"

\* drain_receipts: pops until the buffer is empty.
DrainReceipts ==
  /\ phase = "receipts"
  /\ IF \A p \in DOMAIN pending_receipt : pending_receipt[p] = NoReceipt
       THEN phase' = "idle" /\ UNCHANGED vars
       ELSE phase' = phase /\ TakeReceipt
  /\ UNCHANGED bolt

ENext ==
  \/ \E code \in Codes, shut \in SUBSET GateKinds : LockEnter(code, shut)
  \/ \E d \in 1 .. MaxStep : TimeAdvance(d)
  \/ TimeTick
  \/ \E a \in {"Lock", "Unlock"} : LockAttest(a)
  \/ DrainRelocks
  \/ DrainFires
  \/ DrainReceipts

ESpec == EInit /\ [][ENext]_evars

\* The same with the wall clock set by hand now and then.
ESetSpec ==
  EInit /\ [][ENext \/ \E t \in StartTime .. MaxTime : TimeSet(t)]_evars

-------------------------------------------------------------------------------
(***************************************************************************)
(* Properties.                                                             *)
(***************************************************************************)

\* Between commands the engine and its caller agree about every DeadMan slot
\* that fires at once: it is sustained exactly when its fire action was the last
\* thing actuated for it ("The engine's state and the physical lock must never
\* disagree about 'sustained'", engine.rs:267-271).
SustainMatchesBolt ==
  phase = "idle" =>
    \A i \in Slots : PolicyOf(i).kind = "DeadMan" /\ SlotTable[i].veto_delay = 0 =>
      (state[i].sustained <=> bolt[i] = FireAction(i))

\* A caller that drains after every call loses no receipt: each call leaves as
\* many more in the buffer as it minted ("at most one fire per enter_code, plus
\* up to MAX_SLOTS relocks per tick", engine.rs:25-27, asserted at
\* engine.rs:179).
Held == Cardinality({p \in DOMAIN pending_receipt : pending_receipt[p] # NoReceipt})

ReceiptsKept ==
  [][next_seq' # next_seq => Held' - Held = next_seq' - next_seq]_evars

\* Drained between commands, the receipts come out in the order their events
\* happened: each one taken is the oldest still waiting.
DrainsInOrder ==
  [][\A p \in DOMAIN pending_receipt :
       pending_receipt[p] # NoReceipt /\ pending_receipt'[p] = NoReceipt =>
         \A q \in DOMAIN pending_receipt :
           pending_receipt[q] # NoReceipt => pending_receipt[p].seq <= pending_receipt[q].seq]_evars
===============================================================================
