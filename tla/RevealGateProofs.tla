---------------------------- MODULE RevealGateProofs ----------------------------
(***************************************************************************)
(* The generator's windows and chains, for every table of keys, window,    *)
(* look-ahead and clock, and any number of restarts of either device.      *)
(***************************************************************************)
EXTENDS RevealGate, FiniteSetTheorems, TLAPS

LEMMA CarriedType ==
  ASSUME NEW action \in Actions, NEW seq \in Nat, NEW time \in 1 .. MaxTime
  PROVE  CarriedCode(action, seq, time) \in Code
<1>1. time \div PERIOD_S \in Nat
  BY ReceiptAssumption, RevealAssumption
<1>2. QED
  BY <1>1 DEF CarriedCode, SeqCode, TimeCode, Code

\* The reveals that show no real code, and the other steps that leave the
\* generator alone.
Idle ==
  /\ UNCHANGED <<gen, history>>
  /\ shown' \in [key : Keys, real : {FALSE}] \cup {NoShow}

LEMMA Steps ==
  ASSUME RTypeOK, RNext
  PROVE  \/ Idle /\ now' \in 1 .. MaxTime /\ next_seq' \in Nat /\ slips' \subseteq Code
         \/ RitualUnlocks \/ RitualUnderDuress \/ GenRestarts
         \/ \E k \in Keys : RevealReal(k)
         \/ \E k \in Keys, code \in slips : FeedChain(k, code)
<1>1. ASSUME NEW action \in Actions, LockMints(action)
      PROVE  Idle /\ now' \in 1 .. MaxTime /\ next_seq' \in Nat /\ slips' \subseteq Code
  BY <1>1, CarriedType DEF LockMints, Idle, RTypeOK
<1>2. CASE LockRestarts
  BY <1>2 DEF LockRestarts, Idle, RTypeOK
<1>3. ASSUME NEW t \in 1 .. MaxTime, ClockReads(t)
      PROVE  Idle /\ now' \in 1 .. MaxTime /\ next_seq' \in Nat /\ slips' \subseteq Code
  BY <1>3 DEF ClockReads, Idle, RTypeOK
<1>4. ASSUME NEW k \in Keys, RevealTwin(k) \/ RevealRefused(k)
      PROVE  Idle /\ now' \in 1 .. MaxTime /\ next_seq' \in Nat /\ slips' \subseteq Code
  <2>1. CASE RevealTwin(k)
    <3>1. [key |-> k, real |-> FALSE] \in [key : Keys, real : {FALSE}]
      OBVIOUS
    <3>2. QED
      BY <2>1, <3>1 DEF RevealTwin, Idle, RTypeOK
  <2>2. CASE RevealRefused(k)
    BY <2>2 DEF RevealRefused, Idle, RTypeOK
  <2>3. QED
    BY <1>4, <2>1, <2>2
<1>5. QED
  BY <1>1, <1>2, <1>3, <1>4 DEF RNext

-------------------------------------------------------------------------------
\* A key's record in GenKeyState.
KeyState == [last_real : Nat, chain_fed_at : Nat, chain_spent : BOOLEAN, expected : Nat]

LEMMA TypeInit == RInit => RTypeOK
BY RevealAssumption DEF RInit, RTypeOK, FreshKey

LEMMA TypeNext == RTypeOK /\ [RNext]_rvars => RTypeOK'
<1> SUFFICES ASSUME RTypeOK, [RNext]_rvars PROVE RTypeOK'
  OBVIOUS
<1> USE RevealAssumption
<1>1. CASE UNCHANGED rvars
  BY <1>1 DEF RTypeOK, rvars, gen, history
<1>2. CASE Idle /\ now' \in 1 .. MaxTime /\ next_seq' \in Nat /\ slips' \subseteq Code
  BY <1>2 DEF RTypeOK, Idle, gen, history
<1>3. CASE RitualUnlocks
  BY <1>3 DEF RTypeOK, RitualUnlocks, OpenWindow
<1>4. CASE RitualUnderDuress
  BY <1>4 DEF RTypeOK, RitualUnderDuress, OpenUnderDuress, UnlockedInDuress
<1>5. CASE GenRestarts
  BY <1>5 DEF RTypeOK, GenRestarts, FreshKey
<1>6. ASSUME NEW k \in Keys, RevealReal(k) PROVE RTypeOK'
  <2>1. GenKeys[k].chain \in BOOLEAN
    BY DEF GenKey
  <2>2. key_state' \in [Keys -> KeyState]
    <3> DEFINE st == [key_state[k] EXCEPT !.last_real = now,
                                          !.chain_spent = GenKeys[k].chain]
    <3>1. key_state \in [Keys -> KeyState] /\ now \in Nat
      BY DEF RTypeOK, KeyState
    <3>2. st \in KeyState
      BY <2>1, <3>1 DEF KeyState
    <3>3. key_state' = [key_state EXCEPT ![k] = st]
      BY <1>6 DEF RevealReal
    <3> HIDE DEF st
    <3>4. QED
      BY <3>1, <3>2, <3>3
  <2>3. sessions' \in [Keys -> Nat]
    BY <1>6, <2>1 DEF RTypeOK, RevealReal
  <2>4. QED
    BY <1>6, <2>2, <2>3 DEF RTypeOK, RevealReal, KeyState
<1>7. ASSUME NEW k \in Keys, NEW code \in slips, FeedChain(k, code) PROVE RTypeOK'
  <2>1. code \in Code /\ \A e \in Nat : ExpectedAfter(e, code) \in Nat
    BY DEF RTypeOK, Code, ExpectedAfter
  <2>2. key_state' \in [Keys -> KeyState]
    <3> DEFINE st == [key_state[k] EXCEPT !.chain_fed_at = now, !.chain_spent = FALSE,
                                          !.expected = ExpectedAfter(@, code)]
    <3>1. key_state \in [Keys -> KeyState] /\ now \in Nat
      BY DEF RTypeOK, KeyState
    <3>2. st \in KeyState
      BY <2>1, <3>1 DEF KeyState
    <3>3. key_state' = [key_state EXCEPT ![k] = st]
      BY <1>7 DEF FeedChain
    <3> HIDE DEF st
    <3>4. QED
      BY <3>1, <3>2, <3>3
  <2>3. witnessed' \in [Keys -> SUBSET Code]
    BY <1>7, <2>1 DEF RTypeOK, FeedChain
  <2>4. QED
    BY <1>7, <2>2, <2>3 DEF RTypeOK, FeedChain, KeyState
<1>8. QED
  BY <1>1, <1>2, <1>3, <1>4, <1>5, <1>6, <1>7, Steps

-------------------------------------------------------------------------------
(***************************************************************************)
(* The windows tell which ritual opened them: because none is dialed while *)
(* a window is open, the later ritual decides unlocked_until, wherever the *)
(* clock is set.                                                           *)
(***************************************************************************)
Windows ==
  /\ duress_until = last_duress + UnlockWindow
  /\ unlocked_until \in {last_unlock + UnlockWindow, duress_until}
  /\ duress_until <= unlocked_until

WInv == RTypeOK /\ Windows /\ DuressPoisons /\ GatedNeedsRitual

LEMMA WindowsInit == RInit => WInv
<1>1. RInit => Windows
  BY RevealAssumption DEF RInit, Windows, Never
<1>2. QED
  BY <1>1, TypeInit DEF RInit, WInv, NoShow, DuressPoisons, GatedNeedsRitual

LEMMA WindowsNext == WInv /\ [RNext]_rvars => WInv'
<1> SUFFICES ASSUME WInv, [RNext]_rvars PROVE WInv'
  OBVIOUS
<1> USE RevealAssumption
<1>1. RTypeOK /\ RTypeOK'
  BY TypeNext DEF WInv
<1>2. CASE UNCHANGED rvars
  BY <1>1, <1>2 DEF WInv, Windows, DuressPoisons, GatedNeedsRitual, rvars, gen, history
<1>3. ASSUME shown'.real = FALSE, Windows' PROVE WInv'
  BY <1>1, <1>3 DEF WInv, DuressPoisons, GatedNeedsRitual
<1>4. CASE Idle
  <2>1. shown' = NoShow => shown'.real = FALSE
    BY DEF NoShow
  <2>2. shown' \in [key : Keys, real : {FALSE}] => shown'.real = FALSE
    OBVIOUS
  <2>3. shown'.real = FALSE
    BY <1>4, <2>1, <2>2 DEF Idle
  <2>4. QED
    BY <1>3, <1>4, <2>3 DEF Idle, WInv, Windows, gen, history
<1>5. CASE RitualUnlocks
  <2>1. Windows'
    BY <1>1, <1>5 DEF RitualUnlocks, OpenWindow, WInv, Windows, RTypeOK, is_unlocked, Never
  <2>2. QED
    BY <1>3, <1>5, <2>1 DEF RitualUnlocks, OpenWindow, NoShow
<1>6. CASE RitualUnderDuress
  <2>1. Windows'
    BY <1>1, <1>6 DEF RitualUnderDuress, OpenUnderDuress, UnlockedInDuress, WInv, Windows, RTypeOK,
       is_unlocked, Never
  <2>2. QED
    BY <1>3, <1>6, <2>1 DEF RitualUnderDuress, OpenUnderDuress, NoShow
<1>7. CASE GenRestarts
  <2>1. Windows'
    BY <1>7 DEF GenRestarts, Windows, Never
  <2>2. QED
    BY <1>3, <1>7, <2>1 DEF GenRestarts, NoShow
<1>8. ASSUME NEW k \in Keys, RevealReal(k) PROVE WInv'
  <2>1. Windows'
    BY <1>8 DEF RevealReal, WInv, Windows
  <2>2. ~Poisoned(k) /\ shown' = [key |-> k, real |-> TRUE]
    BY <1>8 DEF RevealReal
  <2>3. now >= duress_until
    BY <1>1, <2>2 DEF Poisoned, InDuress, RTypeOK
  <2>4. DuressPoisons'
    BY <1>8, <2>3 DEF RevealReal, DuressPoisons, WInv, Windows
  <2>5. GatedNeedsRitual'
    <3>1. SUFFICES ASSUME GenKeys[k].gated
                   PROVE  last_unlock # Never /\ now < last_unlock + UnlockWindow
      BY <1>8, <2>2 DEF RevealReal, GatedNeedsRitual
    <3>2. now < unlocked_until
      BY <2>2, <3>1 DEF Poisoned, is_unlocked
    <3>3. now < last_unlock + UnlockWindow
      BY <1>1, <2>3, <3>2 DEF WInv, Windows, RTypeOK, Never
    <3>4. QED
      BY <1>1, <3>3 DEF RTypeOK, Never
  <2>6. QED
    BY <1>1, <2>1, <2>4, <2>5 DEF WInv
<1>9. ASSUME NEW k \in Keys, NEW code \in slips, FeedChain(k, code) PROVE WInv'
  <2>1. shown'.real = FALSE
    BY <1>9 DEF FeedChain, NoShow
  <2>2. QED
    BY <1>3, <1>9, <2>1 DEF FeedChain, WInv, Windows
<1>10. QED
  BY <1>1, <1>2, <1>4, <1>5, <1>6, <1>7, <1>8, <1>9, Steps

\* The fields keep their types.
THEOREM RevealTypeCorrect == RSpec => []RTypeOK
BY TypeInit, TypeNext, PTL DEF RSpec

\* No key shows a real code in the window of the last duress ritual
\* (reveal.rs:134-136).
THEOREM DuressWins == RSpec => []DuressPoisons
<1>1. WInv => DuressPoisons
  BY DEF WInv
<1>2. QED
  BY <1>1, WindowsInit, WindowsNext, PTL DEF RSpec

\* A gated key shows its real code only in the window of an unlocking ritual
\* (reveal.rs:126-133).
THEOREM GateHolds == RSpec => []GatedNeedsRitual
<1>1. WInv => GatedNeedsRitual
  BY DEF WInv
<1>2. QED
  BY <1>1, WindowsInit, WindowsNext, PTL DEF RSpec

\* A device that poisons looks unlocked (reveal.rs:170-178).
THEOREM DuressUnseen == RSpec => []DuressLooksUnlocked
<1>1. WInv => DuressLooksUnlocked
  BY RevealAssumption DEF WInv, Windows, RTypeOK, DuressLooksUnlocked, InDuress, is_unlocked
<1>2. QED
  BY <1>1, WindowsInit, WindowsNext, PTL DEF RSpec

-------------------------------------------------------------------------------
(***************************************************************************)
(* A chain's ledger: the codes it accepted are older than the counter it   *)
(* expects, and a key that may still reveal has a receipt left to pay with.*)
(***************************************************************************)
Ledger(k) ==
  /\ IsFiniteSet(witnessed[k])
  /\ \A code \in witnessed[k] : code.counter < key_state[k].expected
  /\ sessions[k] <= Cardinality(witnessed[k]) + 1
  /\ ~key_state[k].chain_spent => sessions[k] <= Cardinality(witnessed[k])

Ledgers == HasSeq => \A k \in Keys : GenKeys[k].chain => Ledger(k)

LInv == RTypeOK /\ Ledgers

LEMMA LedgersInit == RInit => LInv
<1> SUFFICES ASSUME RInit, NEW k \in Keys PROVE Ledger(k)
  BY TypeInit DEF LInv, Ledgers
<1>1. witnessed[k] = {} /\ sessions[k] = 0
  BY DEF RInit
<1>2. QED
  BY <1>1, FS_EmptySet DEF Ledger

\* A code that a chain accepts was never accepted before.
LEMMA NewWitness ==
  ASSUME LInv, HasSeq, NEW k \in Keys, NEW code \in slips, FeedChain(k, code)
  PROVE  /\ code.counter >= key_state[k].expected
         /\ code.counter \in Nat
         /\ key_state'[k].expected = code.counter + 1
         /\ ~key_state'[k].chain_spent
         /\ witnessed'[k] = witnessed[k] \cup {code}
<1>1. code \in Code
  BY DEF LInv, RTypeOK
<1>2. PICK seq \in key_state[k].expected .. key_state[k].expected + LookAhead - 1 :
        code = SeqCode(ChainAction, seq)
  BY DEF FeedChain, CodeValid, SeqMatches
<1>3. code.counter = seq
  BY <1>2 DEF SeqCode
<1>4. key_state[k].expected \in Nat
  BY DEF LInv, RTypeOK
<1>5. code.counter \in Nat /\ code.counter >= key_state[k].expected
  BY <1>2, <1>3, <1>4, ReceiptAssumption
<1>6. key_state'[k].expected = code.counter + 1 /\ ~key_state'[k].chain_spent
  BY DEF FeedChain, LInv, RTypeOK, ExpectedAfter
<1>7. witnessed'[k] = witnessed[k] \cup {code}
  BY DEF FeedChain, LInv, RTypeOK
<1>8. QED
  BY <1>5, <1>6, <1>7

LEMMA LedgersNext == LInv /\ [RNext]_rvars => LInv'
<1> SUFFICES ASSUME LInv, [RNext]_rvars PROVE LInv'
  OBVIOUS
<1>1. RTypeOK /\ RTypeOK'
  BY TypeNext DEF LInv
<1>2. SUFFICES ASSUME HasSeq, NEW k \in Keys, GenKeys[k].chain PROVE Ledger(k)'
  BY <1>1 DEF LInv, Ledgers, HasSeq
<1>3. Ledger(k)
  BY <1>2 DEF LInv, Ledgers
<1>4. Cardinality(witnessed[k]) \in Nat
  BY <1>3, FS_CardinalityType DEF Ledger
<1>5. ASSUME key_state'[k] = key_state[k], witnessed'[k] = witnessed[k],
             sessions'[k] = sessions[k]
      PROVE  Ledger(k)'
  BY <1>3, <1>5 DEF Ledger
<1>6. CASE UNCHANGED rvars \/ Idle \/ RitualUnlocks \/ RitualUnderDuress
  BY <1>5, <1>6 DEF rvars, gen, history, Idle, RitualUnlocks, OpenWindow,
     RitualUnderDuress, OpenUnderDuress
<1>7. CASE GenRestarts
  <2>1. witnessed'[k] = {} /\ sessions'[k] = 0
    BY <1>7 DEF GenRestarts
  <2>2. QED
    BY <2>1, FS_EmptySet DEF Ledger
<1>8. ASSUME NEW j \in Keys, RevealReal(j) PROVE Ledger(k)'
  <2>1. CASE j # k
    BY <1>1, <1>5, <1>8, <2>1 DEF RevealReal, RTypeOK
  <2>2. CASE j = k
    <3>1. ~key_state[k].chain_spent
      BY <1>2, <1>8, <2>2 DEF RevealReal, ChainReady
    <3>2. /\ sessions'[k] = sessions[k] + 1 /\ witnessed'[k] = witnessed[k]
          /\ key_state'[k].chain_spent /\ key_state'[k].expected = key_state[k].expected
      BY <1>1, <1>2, <1>8, <2>2 DEF RevealReal, RTypeOK
    <3>3. sessions[k] \in Nat
      BY <1>1 DEF RTypeOK
    <3>4. sessions'[k] <= Cardinality(witnessed'[k]) + 1
      BY <1>3, <1>4, <3>1, <3>2, <3>3 DEF Ledger
    <3>5. QED
      BY <1>3, <3>2, <3>4 DEF Ledger
  <2>3. QED
    BY <2>1, <2>2
<1>9. ASSUME NEW j \in Keys, NEW code \in slips, FeedChain(j, code) PROVE Ledger(k)'
  <2>1. CASE j # k
    BY <1>1, <1>5, <1>9, <2>1 DEF FeedChain, RTypeOK
  <2>2. CASE j = k
    <3>1. /\ code.counter >= key_state[k].expected /\ code.counter \in Nat
          /\ key_state'[k].expected = code.counter + 1 /\ ~key_state'[k].chain_spent
          /\ witnessed'[k] = witnessed[k] \cup {code}
      BY <1>2, <1>9, <2>2, NewWitness
    <3>2. key_state[k].expected \in Nat /\ sessions[k] \in Nat
          /\ \A c \in witnessed[k] : c.counter \in Nat
      BY <1>1 DEF RTypeOK, Code
    <3>3. code \notin witnessed[k]
      BY <1>3, <3>1, <3>2 DEF Ledger
    <3>4. IsFiniteSet(witnessed'[k])
          /\ Cardinality(witnessed'[k]) = Cardinality(witnessed[k]) + 1
      <4>1. IsFiniteSet(witnessed[k])
        BY <1>3 DEF Ledger
      <4>2. /\ IsFiniteSet(witnessed[k] \cup {code})
            /\ Cardinality(witnessed[k] \cup {code}) = Cardinality(witnessed[k]) + 1
        BY <3>3, <4>1, FS_AddElement
      <4>3. QED
        BY <3>1, <4>2
    <3>5. \A c \in witnessed'[k] : c.counter < key_state'[k].expected
      BY <1>3, <3>1, <3>2 DEF Ledger
    <3>6. sessions'[k] = sessions[k]
      BY <1>9 DEF FeedChain
    <3>7. QED
      BY <1>3, <1>4, <3>1, <3>2, <3>4, <3>5, <3>6 DEF Ledger
  <2>3. QED
    BY <2>1, <2>2
<1>10. QED
  BY <1>1, <1>6, <1>7, <1>8, <1>9, Steps

\* Every real code of a chained key after the first is paid for by a receipt of
\* its own (reveal.rs:47-51).
THEOREM ChainsPaid == RSpec => []ChainWitnessed
<1>1. LInv => ChainWitnessed
  BY DEF LInv, Ledgers, Ledger, ChainWitnessed
<1>2. QED
  BY <1>1, LedgersInit, LedgersNext, PTL DEF RSpec
===============================================================================
