---------------------------- MODULE UnlockContract ----------------------------
(***************************************************************************)
(* What the lock engine promises, without policies, codes or slots' rounds *)
(* in it.  A slot acts only when it has been served by a round of codes    *)
(* newer than every round that served it before; within its budget; and,   *)
(* when it has a veto delay, only once that delay has passed since it was  *)
(* served and nobody stopped it.                                           *)
(***************************************************************************)
EXTENDS Integers

CONSTANTS
  Slots,      \* the slots
  Budget,     \* Budget[i]: acts allowed, 0 for any number
  VetoDelay,  \* VetoDelay[i]: warning before it acts, 0 for none
  Ceiling     \* where the count of acts stops counting

VARIABLES
  clock,     \* time
  served,    \* served[i]: newest code of the rounds that served slot i
  acts,      \* acts[i]: how often slot i has acted
  due        \* due[i]: when slot i will act, or Never

cvars == <<clock, served, acts, due>>

Never == -1

Init ==
  /\ clock \in Nat
  /\ served = [i \in Slots |-> 0]
  /\ acts = [i \in Slots |-> 0]
  /\ due = [i \in Slots |-> Never]

IsDue(i) == due[i] # Never /\ clock >= due[i]
OneMore(n) == IF n < Ceiling THEN n + 1 ELSE n

\* Every slot whose warning has run out acts.
ReleasedActs == [i \in Slots |-> IF IsDue(i) THEN OneMore(acts[i]) ELSE acts[i]]
ReleasedDue  == [i \in Slots |-> IF IsDue(i) THEN Never ELSE due[i]]

Elapse ==
  /\ clock' \in Nat
  /\ UNCHANGED <<served, acts, due>>

Release ==
  /\ acts' = ReleasedActs
  /\ due' = ReleasedDue
  /\ UNCHANGED <<clock, served>>

\* A round serves slot i: it acts, or gives its warning, or is spent.
Serve(i) ==
  /\ served' = [served EXCEPT ![i] = served'[i]]
  /\ served'[i] > served[i]
  /\ LET spent == Budget[i] > 0 /\ ReleasedActs[i] >= Budget[i]
     IN  \/ /\ spent
            /\ acts' = ReleasedActs
            /\ due' = ReleasedDue
         \/ /\ ~spent /\ VetoDelay[i] > 0
            /\ acts' = ReleasedActs
            /\ due' = [ReleasedDue EXCEPT ![i] = clock + VetoDelay[i]]
         \/ /\ ~spent /\ VetoDelay[i] = 0
            /\ acts' = [ReleasedActs EXCEPT ![i] = OneMore(@)]
            /\ due' = ReleasedDue
  /\ UNCHANGED clock

\* Somebody stops slot i during its warning.
Stop(i) ==
  /\ ReleasedDue[i] # Never
  /\ due' = [ReleasedDue EXCEPT ![i] = Never]
  /\ acts' = ReleasedActs
  /\ UNCHANGED <<clock, served>>

Next ==
  \/ Elapse
  \/ Release
  \/ \E i \in Slots : Serve(i) \/ Stop(i)

Spec == Init /\ [][Next]_cvars
===============================================================================
