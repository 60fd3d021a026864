------------------------------- MODULE RevealGate -------------------------------
(***************************************************************************)
(* The generator's reveal scheduler (ephemerkey-core/src/reveal.rs): what  *)
(* the display may show, under the ritual's unlock and duress windows, the *)
(* show-once cadence of a key and its receipt chain, fed with the codes    *)
(* that a person carries back from a lock.                                 *)
(*                                                                         *)
(* A ritual is dialed only while the reveal window is shut, as the task    *)
(* that owns the buttons has it (GeneratorTask); a reveal                  *)
(* may be asked for at any time, as the emulator's commands allow.  Either *)
(* device may lose power and start again from its configuration.           *)
(*                                                                         *)
(* Abstractions.                                                           *)
(*  - The ritual engine is a LockEngine; here it may fire at any time.     *)
(*  - The clock is disciplined, and both devices read the same; it may be  *)
(*    corrected backwards.                                                 *)
(*  - The emission gate refuses a reveal without any change: a reveal that *)
(*    does not take place.                                                 *)
(*  - The emulator's unlock command dials in an open window too: not here. *)
(*  - The digits' order on the display and the countdowns are left out.    *)
(***************************************************************************)
EXTENDS Receipts, FiniteSets

CONSTANTS
  GenKeys,        \* GenKeys[k]: the configuration of key k
  Actions,        \* the actions of a lock
  ChainAction,    \* the action whose receipts feed a chain
  UnlockWindow,   \* unlock_window_s
  Word,           \* times wrap modulo Word
  MaxTime,        \* bound: clock readings
  MaxSeq          \* bound: receipts minted by one power-up of the lock

Keys == DOMAIN GenKeys
GenKey ==
  [once : {"Unlimited", "Refuse", "Decoy"}, gap_min_s : Nat, gated : BOOLEAN,
   decoy : BOOLEAN, chain : BOOLEAN, min_elapsed_s : Nat]

ASSUME RevealAssumption ==
  /\ \A k \in Keys : GenKeys[k] \in GenKey
  /\ ChainAction \in Actions
  /\ UnlockWindow \in Nat /\ MaxTime \in Nat \ {0} /\ MaxSeq \in Nat
  /\ Word \in Nat /\ Word > MaxTime + UnlockWindow

\* GenKeyState, with the expected counter of the chain's validator.
FreshKey == [last_real |-> 0, chain_fed_at |-> 0, chain_spent |-> FALSE, expected |-> 0]

NoShow == [key |-> "none", real |-> FALSE]
Never == 0 - UnlockWindow

VARIABLES
  now,
  next_seq,        \* of the lock's minter
  slips,           \* the codes the person holds
  key_state,       \* Generator.state
  unlocked_until,
  duress_until,
  shown,           \* the code on the display, just revealed
  last_unlock,     \* history: the last unlocking ritual since power-up
  last_duress,     \* history: the last duress ritual since power-up
  witnessed,       \* history: the codes a key's chain accepted since power-up
  sessions         \* history: the real codes a chained key showed since power-up

gen == <<key_state, unlocked_until, duress_until>>
history == <<last_unlock, last_duress, witnessed, sessions>>
rvars == <<now, next_seq, slips, gen, shown, history>>

RInit ==
  /\ now = 1
  /\ next_seq = 0
  /\ slips = {}
  /\ key_state = [k \in Keys |-> FreshKey]
  /\ unlocked_until = 0
  /\ duress_until = 0
  /\ shown = NoShow
  /\ last_unlock = Never
  /\ last_duress = Never
  /\ witnessed = [k \in Keys |-> {}]
  /\ sessions = [k \in Keys |-> 0]

-------------------------------------------------------------------------------
(***************************************************************************)
(* The lock and the clock.                                                 *)
(***************************************************************************)

\* An event, or the attest button: one receipt.
LockMints(action) ==
  /\ next_seq < MaxSeq
  /\ slips' = slips \cup {CarriedCode(action, next_seq, now)}
  /\ next_seq' = next_seq + 1
  /\ shown' = NoShow
  /\ UNCHANGED <<now, gen, history>>

\* The event counter is not kept.
LockRestarts ==
  /\ next_seq' = 0
  /\ shown' = NoShow
  /\ UNCHANGED <<now, slips, gen, history>>

\* Time passes, or the clock is corrected.
ClockReads(t) ==
  /\ now' = t
  /\ shown' = NoShow
  /\ UNCHANGED <<next_seq, slips, gen, history>>

-------------------------------------------------------------------------------
(***************************************************************************)
(* The ritual's windows.                                                   *)
(***************************************************************************)

is_unlocked == now < unlocked_until

\* apply_ritual_outcome, Fired(unlock)
OpenWindow ==
  /\ unlocked_until' = now + UnlockWindow
  /\ last_unlock' = now
  /\ shown' = NoShow
  /\ UNCHANGED <<now, next_seq, slips, key_state, duress_until, last_duress, witnessed, sessions>>

RitualUnlocks == ~is_unlocked /\ OpenWindow

\* (mutant: the reveal window stays as it was)
UnlockedInDuress_Same(until) == unlocked_until

\* set_duress: the device must look unlocked for as long.
UnlockedInDuress(until) == IF until > unlocked_until THEN until ELSE unlocked_until

\* apply_ritual_outcome, Fired(duress)
OpenUnderDuress ==
  /\ duress_until' = now + UnlockWindow
  /\ unlocked_until' = UnlockedInDuress(now + UnlockWindow)
  /\ last_duress' = now
  /\ shown' = NoShow
  /\ UNCHANGED <<now, next_seq, slips, key_state, last_unlock, witnessed, sessions>>

RitualUnderDuress == ~is_unlocked /\ OpenUnderDuress

-------------------------------------------------------------------------------
(***************************************************************************)
(* reveal() and feed_chain().                                              *)
(***************************************************************************)

InDuress == now < duress_until

\* (mutant: a duress window poisons nothing)
Poisoned_OnlyLocked(k) == GenKeys[k].gated /\ ~is_unlocked

\* (mutant: the ritual gate is forgotten)
Poisoned_OnlyDuress(k) == InDuress

\* The outermost gate: the decoy twin, or nothing, whatever the chain says.
Poisoned(k) == InDuress \/ (GenKeys[k].gated /\ ~is_unlocked)

\* A chain that was never fed lets the first session pass.
ChainReady(k) ==
  LET st == key_state[k]
  IN GenKeys[k].chain =>
       /\ ~st.chain_spent
       /\ st.chain_fed_at > 0 => now >= st.chain_fed_at + GenKeys[k].min_elapsed_s

\* The unsigned difference wraps if the clock was set back since.
RealDue(k) ==
  LET last == key_state[k].last_real
  IN \/ GenKeys[k].once = "Unlimited"
     \/ last = 0
     \/ (now - last) % Word >= GenKeys[k].gap_min_s

RevealTwin(k) ==
  /\ GenKeys[k].decoy
  /\ Poisoned(k) \/ (ChainReady(k) /\ ~RealDue(k) /\ GenKeys[k].once = "Decoy")
  /\ shown' = [key |-> k, real |-> FALSE]
  /\ UNCHANGED <<now, next_seq, slips, gen, history>>

RevealReal(k) ==
  /\ ~Poisoned(k) /\ ChainReady(k) /\ RealDue(k)
  /\ key_state' = [key_state EXCEPT ![k].last_real = now,
                                    ![k].chain_spent = GenKeys[k].chain]
  /\ shown' = [key |-> k, real |-> TRUE]
  /\ sessions' = [sessions EXCEPT ![k] = IF GenKeys[k].chain THEN @ + 1 ELSE @]
  /\ UNCHANGED <<now, next_seq, slips, unlocked_until, duress_until,
                 last_unlock, last_duress, witnessed>>

\* Locked, ChainRequired, ChainWait and RefusedUntil show nothing.
RevealRefused(k) ==
  /\ IF Poisoned(k) THEN ~GenKeys[k].decoy
     ELSE ~ChainReady(k) \/ (~RealDue(k) /\ ~(GenKeys[k].once = "Decoy" /\ GenKeys[k].decoy))
  /\ shown' = NoShow
  /\ UNCHANGED <<now, next_seq, slips, gen, history>>

\* A code from a slip; one that does not verify changes nothing.
FeedChain(k, code) ==
  /\ GenKeys[k].chain
  /\ CodeValid(key_state[k].expected, ChainAction, code, now)
  /\ key_state' = [key_state EXCEPT
                     ![k].chain_fed_at = now,
                     ![k].chain_spent = FALSE,
                     ![k].expected = ExpectedAfter(@, code)]
  /\ witnessed' = [witnessed EXCEPT ![k] = @ \cup {code}]
  /\ shown' = NoShow
  /\ UNCHANGED <<now, next_seq, slips, unlocked_until, duress_until,
                 last_unlock, last_duress, sessions>>

\* Nothing of the generator's state is kept.
GenRestarts ==
  /\ key_state' = [k \in Keys |-> FreshKey]
  /\ unlocked_until' = 0
  /\ duress_until' = 0
  /\ shown' = NoShow
  /\ last_unlock' = Never
  /\ last_duress' = Never
  /\ witnessed' = [k \in Keys |-> {}]
  /\ sessions' = [k \in Keys |-> 0]
  /\ UNCHANGED <<now, next_seq, slips>>

RNext ==
  \/ \E action \in Actions : LockMints(action)
  \/ LockRestarts
  \/ \E t \in 1 .. MaxTime : ClockReads(t)
  \/ RitualUnlocks
  \/ RitualUnderDuress
  \/ \E k \in Keys : RevealTwin(k) \/ RevealReal(k) \/ RevealRefused(k)
  \/ \E k \in Keys, code \in slips : FeedChain(k, code)
  \/ GenRestarts

RSpec == RInit /\ [][RNext]_rvars

-------------------------------------------------------------------------------
Code == [kind : {"seq", "time"}, action : Actions, counter : Nat]

\* The fields of GenKeyState and Generator, and the history.
RTypeOK ==
  /\ now \in 1 .. MaxTime
  /\ next_seq \in Nat
  /\ slips \subseteq Code
  /\ key_state \in [Keys -> [last_real : Nat, chain_fed_at : Nat,
                             chain_spent : BOOLEAN, expected : Nat]]
  /\ unlocked_until \in Nat
  /\ duress_until \in Nat
  /\ shown \in [key : Keys, real : BOOLEAN] \cup {NoShow}
  /\ last_unlock \in Nat \cup {Never}
  /\ last_duress \in Nat \cup {Never}
  /\ witnessed \in [Keys -> SUBSET Code]
  /\ sessions \in [Keys -> Nat]

(***************************************************************************)
(* Properties.                                                             *)
(***************************************************************************)

\* For the whole window of the last duress ritual no key shows a real code,
\* gated or not, wherever the clock is set ("every gated key mints poison until
\* this unix time ... so it wins", duress_until, reveal.rs:134-136).
DuressPoisons == shown.real => now >= last_duress + UnlockWindow

\* A gated key shows its real code only in the window of an unlocking ritual, and
\* a duress ritual never stands in for one ("reveals its REAL code only while now
\* < unlocked_until", reveal.rs:126-133).
GatedNeedsRitual ==
  shown.real /\ GenKeys[shown.key].gated =>
    last_unlock # Never /\ now < last_unlock + UnlockWindow

\* While a duress window poisons, the device looks unlocked ("the UI state is
\* itself indistinguishable", set_duress, reveal.rs:170-178).
DuressLooksUnlocked == InDuress => is_unlocked

\* Where receipts prove their sequence, every real code of a chained key after the
\* first of a power-up was paid for by a receipt of its own: none, replayed or
\* minted anew by a lock that lost its counter, pays twice ("refuses to mint this
\* key's codes until it has been fed the lock's receipt from the previous session",
\* ChainSpec, reveal.rs:47-51).
ChainWitnessed ==
  HasSeq =>
    \A k \in Keys : GenKeys[k].chain =>
      sessions[k] <= Cardinality(witnessed[k]) + 1
===============================================================================
