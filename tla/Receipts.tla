-------------------------------- MODULE Receipts --------------------------------
(***************************************************************************)
(* Confirm receipts (ephemerkey-core/src/receipt.rs): what the lock mints  *)
(* on an event, and how the holder of the confirm secret checks the code   *)
(* that a person carried from the lock's display.                          *)
(*                                                                         *)
(* A code is what its HMAC binds: the kind of proof, the action and a      *)
(* counter.  Codes of different contents differ.                           *)
(***************************************************************************)
EXTENDS Integers

CONSTANTS
  Mode,        \* the receipt mode of the lock and of its validators
  PERIOD_S,    \* length of a time counter
  LookAhead,   \* missed events a validator searches past
  MaxAge       \* age of a time code that is still accepted

ASSUME ReceiptAssumption ==
  /\ Mode \in {"Sequence", "Time", "Both"}
  /\ PERIOD_S \in Nat \ {0} /\ LookAhead \in Nat /\ MaxAge \in Nat

HasSeq == Mode \in {"Sequence", "Both"}

SeqCode(action, seq) == [kind |-> "seq", action |-> action, counter |-> seq]
TimeCode(action, counter) == [kind |-> "time", action |-> action, counter |-> counter]

\* The code that a person carries from the lock: the proof of sequence if the
\* receipt has one.
CarriedCode(action, seq, time) ==
  IF HasSeq THEN SeqCode(action, seq) ELSE TimeCode(action, time \div PERIOD_S)

\* The event counters under which a validator that expects `expected` finds the
\* code.
SeqMatches(expected, action, code) ==
  {seq \in expected .. expected + LookAhead - 1 : code = SeqCode(action, seq)}

\* The time counters that check_time() searches at `now`.
TimeMatches(action, code, now) ==
  LET oldest == IF now > MaxAge THEN now - MaxAge ELSE 0
  IN {c \in oldest \div PERIOD_S .. (now + PERIOD_S) \div PERIOD_S :
        code = TimeCode(action, c)}

\* verify_code: does the validator accept, and what does it expect next?
CodeValid(expected, action, code, now) ==
  IF HasSeq THEN SeqMatches(expected, action, code) # {}
            ELSE TimeMatches(action, code, now) # {}

\* (mutant: the counter that was accepted may be used again)
ExpectedAfter_Same(expected, code) == IF HasSeq THEN code.counter ELSE expected

ExpectedAfter(expected, code) == IF HasSeq THEN code.counter + 1 ELSE expected
===============================================================================
