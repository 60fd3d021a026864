----------------------------- MODULE GeneratorTask -----------------------------
(***************************************************************************)
(* The generator's button task (ephemerkey-rs/src/generator.rs) over the   *)
(* reveal gate, the GNSS emission gate (gate.rs) and the clock that a fix  *)
(* disciplines (clock.rs).                                                 *)
(*                                                                         *)
(* Every poll of the task is one action: it follows the reveal window in   *)
(* and out, reads the buttons, resolves taps, doubles and holds, and       *)
(* paints the screen.  Fixes and seconds fall between polls, and a poll    *)
(* may be late.  The clock reads 0 until the first valid fix.              *)
(*                                                                         *)
(* The digit being set is left out and a dialed code is its length; what   *)
(* the ritual makes of a code is any outcome.                              *)
(***************************************************************************)
EXTENDS RevealGate, Sequences

CONSTANTS
  KeyRing,        \* Generator.keys: the keys in order, "none" where there is none
  HOLD,           \* HOLD_MS, in units of time between polls
  DOUBLE,         \* DOUBLE_MS
  MAX_DIAL,       \* digits the dial takes
  RevealS,        \* seconds a revealed code stays on the screen
  Staleness,      \* STALENESS_S
  Epoch,          \* the earliest time a fix reports
  Rituals,        \* the values of has_ritual to consider
  MaxGap,         \* bound: units between two polls
  MaxCorrections  \* bound: fixes that set the clock to another time

ASSUME TaskAssumption ==
  /\ KeyRing \in Seq(Keys \cup {"none"}) /\ KeyRing # << >>
  /\ {HOLD, DOUBLE, MAX_DIAL, RevealS, Staleness, MaxGap} \subseteq Nat \ {0}
  /\ Epoch \in Nat /\ Epoch > UnlockWindow
  /\ Rituals \subseteq BOOLEAN

VARIABLES
  has_ritual,
  ui,       \* the task's locals, and the screen
  gate,     \* IN_FENCE and the age of the clock's last sync
  fix       \* history: the last fix received, and the clock corrections

gtvars == <<rvars, has_ritual, ui, gate, fix>>

None == -1

Older(age, limit) == IF age = None THEN None ELSE IF age < limit THEN age + 1 ELSE limit

\* Nothing the gate knows changes; a code was shown in an earlier poll.
Quiet == shown' = NoShow /\ UNCHANGED <<now, next_seq, slips, gen, history>>

TInit ==
  /\ has_ritual \in Rituals
  /\ now = 0 /\ next_seq = 0 /\ slips = {}
  /\ key_state = [k \in Keys |-> FreshKey]
  /\ unlocked_until = 0 /\ duress_until = 0
  /\ shown = NoShow
  /\ last_unlock = Never /\ last_duress = Never
  /\ witnessed = [k \in Keys |-> {}]
  /\ sessions = [k \in Keys |-> 0]
  /\ ui = [unlocked |-> ~has_ritual, dial |-> 0, sel |-> 1, c_prev |-> FALSE,
           press |-> None, fired |-> FALSE, tap |-> None, since |-> 0,
           hold |-> None, screen |-> "blank"]
  /\ gate = [in_fence |-> FALSE, sync |-> None]
  /\ fix = [inside |-> FALSE, age |-> None, corrections |-> 0]

-------------------------------------------------------------------------------
(***************************************************************************)
(* The emission gate.                                                      *)
(***************************************************************************)
\* (mutant: any sync will do)
IsFresh_Synced == gate.sync # None

\* is_fresh
IsFresh == gate.sync # None /\ gate.sync <= Staleness

may_emit == gate.in_fence /\ IsFresh

Corrects(valid, t) == valid /\ now # 0 /\ t # now

\* update_from_fix, and discipline_utc on a valid one.  A void fix shuts the gate.
Fix(valid, in_zone, t) ==
  /\ Corrects(valid, t) => fix.corrections < MaxCorrections
  /\ gate' = [in_fence |-> valid /\ in_zone, sync |-> IF valid THEN 0 ELSE gate.sync]
  /\ now' = IF valid THEN t ELSE now
  /\ fix' = [inside |-> valid /\ in_zone, age |-> 0,
             corrections |-> fix.corrections + IF Corrects(valid, t) THEN 1 ELSE 0]
  /\ shown' = NoShow
  /\ UNCHANGED <<next_seq, slips, gen, history, has_ritual, ui>>

\* The clock stops at MaxTime; ages saturate above every limit they are compared to.
Second ==
  /\ now' = IF now = 0 \/ now = MaxTime THEN now ELSE now + 1
  /\ gate' = [gate EXCEPT !.sync = Older(@, Staleness + 1)]
  /\ fix' = [fix EXCEPT !.age = Older(@, Staleness + 1)]
  /\ ui' = [ui EXCEPT !.hold = Older(@, RevealS)]
  /\ shown' = NoShow
  /\ UNCHANGED <<next_seq, slips, gen, history, has_ritual>>

\* A unit of the time gestures are measured in.
Elapse ==
  /\ ui.since < MaxGap
  /\ ui' = [ui EXCEPT !.since = @ + 1, !.press = Older(@, HOLD), !.tap = Older(@, DOUBLE)]
  /\ Quiet
  /\ UNCHANGED <<has_ritual, gate, fix>>

-------------------------------------------------------------------------------
(***************************************************************************)
(* The task.                                                               *)
(***************************************************************************)
\* (mutant: the ring has an end)
Turned_NoWrap(i, turn) ==
  CASE turn = "left" -> IF i = 1 THEN Len(KeyRing) ELSE i - 1
    [] turn = "right" -> i + 1
    [] turn = "none" -> i

Turned(i, turn) ==
  CASE turn = "left" -> IF i = 1 THEN Len(KeyRing) ELSE i - 1
    [] turn = "right" -> IF i = Len(KeyRing) THEN 1 ELSE i + 1
    [] turn = "none" -> i

\* (mutant: the window is followed in, not out)
Unlocked_Sticky == has_ritual => is_unlocked \/ ui.unlocked

\* (mutant: the mode does not follow the window)
Unlocked_Unsynced == ui.unlocked

\* Mode sync: a device with a ritual follows the window, any other stays unlocked.
Unlocked == has_ritual => is_unlocked

Selected(turn) ==
  IF ~Unlocked THEN ui.sel ELSE Turned(IF ui.unlocked THEN ui.sel ELSE 1, turn)

\* The center button: how long it has been held, and whether a hold was acted on.
Pressed(c) == IF c /\ ~ui.c_prev THEN 0 ELSE ui.press
FiredBefore(c) == IF c /\ ~ui.c_prev THEN FALSE ELSE ui.fired
Held(c) == c /\ ~FiredBefore(c) /\ Pressed(c) >= HOLD

\* A release that ends a short press: a second one within the window, or a first.
Tap(c) == ~c /\ ui.c_prev /\ ~ui.fired
Double(c) == Tap(c) /\ ui.tap # None /\ ui.tap < DOUBLE
Pending(c) == IF Double(c) THEN None ELSE IF Tap(c) THEN 0 ELSE ui.tap
Resolves(c) == Pending(c) # None /\ Pending(c) >= DOUBLE

Submits(c) == Held(c) /\ ~Unlocked /\ ui.dial > 0
Asks(c) == Resolves(c) /\ Unlocked

Dialed(c) ==
  LET held == IF Held(c) THEN 0 ELSE ui.dial
      back == IF Double(c) /\ held > 0 THEN held - 1 ELSE held
  IN  IF Unlocked THEN ui.dial
      ELSE IF Resolves(c) /\ back < MAX_DIAL THEN back + 1 ELSE back

\* submit(): any outcome of the ritual.  Those that open a window are left to the
\* time in which it can be seen to close.
SubmitCode ==
  \/ now + UnlockWindow < MaxTime /\ OpenWindow
  \/ now + UnlockWindow < MaxTime /\ OpenUnderDuress
  \/ Quiet

\* reveal(): refused without a fresh fix inside the fence and a disciplined clock.
RevealSelected(i) ==
  IF may_emit /\ now # 0 /\ KeyRing[i] # "none"
    THEN RevealTwin(KeyRing[i]) \/ RevealReal(KeyRing[i]) \/ RevealRefused(KeyRing[i])
    ELSE Quiet

\* (mutant: the held code is never taken down)
HoldOver_Never(age) == FALSE

\* The code just revealed, or the one held until its time is over.
HoldOver(age) == age >= RevealS

Holds ==
  CASE shown' # NoShow -> 0
    [] shown' = NoShow -> IF ui.hold # None /\ HoldOver(ui.hold) THEN None ELSE ui.hold

View(hold) ==
  CASE hold # None -> "reveal"
    [] hold = None /\ Unlocked -> IF may_emit THEN "unlocked" ELSE "searching"
    [] hold = None /\ ~Unlocked -> "dialing"

Poll(turn, c) ==
  /\ ui.since > 0
  /\ CASE Submits(c) -> SubmitCode
       [] ~Submits(c) /\ Asks(c) -> RevealSelected(Selected(turn))
       [] ~Submits(c) /\ ~Asks(c) -> Quiet
  /\ ui' = [unlocked |-> Unlocked, dial |-> Dialed(c), sel |-> Selected(turn),
            c_prev |-> c, press |-> IF c THEN Pressed(c) ELSE None,
            fired |-> FiredBefore(c) \/ Held(c),
            tap |-> IF Resolves(c) THEN None ELSE Pending(c), since |-> 0,
            hold |-> Holds, screen |-> View(Holds)]
  /\ UNCHANGED <<has_ritual, gate, fix>>

SomePoll == \E turn \in {"none", "left", "right"}, c \in BOOLEAN : Poll(turn, c)

TNext ==
  \/ SomePoll
  \/ Elapse
  \/ Second
  \/ \E valid, in_zone \in BOOLEAN, t \in Epoch .. MaxTime : Fix(valid, in_zone, t)

\* The executor runs the task and its timer; nobody need press, and no fix need come.
TFairness == WF_gtvars(SomePoll) /\ WF_gtvars(Elapse) /\ WF_gtvars(Second)

TSpec == TInit /\ [][TNext]_gtvars /\ TFairness

-------------------------------------------------------------------------------
(***************************************************************************)
(* Properties.                                                             *)
(***************************************************************************)
Age(limit) == {None} \cup 0 .. limit

TaskTypeOK ==
  /\ has_ritual \in BOOLEAN
  /\ ui \in [unlocked : BOOLEAN, dial : 0 .. MAX_DIAL, sel : DOMAIN KeyRing,
             c_prev : BOOLEAN, press : Age(HOLD), fired : BOOLEAN, tap : Age(DOUBLE),
             since : 0 .. MaxGap, hold : Age(RevealS),
             screen : {"blank", "reveal", "unlocked", "searching", "dialing"}]
  /\ gate \in [in_fence : BOOLEAN, sync : Age(Staleness + 1)]

\* A code is shown only on the strength of the last fix: valid, inside a fence, and
\* no older than the staleness limit, whatever void, outside or late fixes came
\* between ("a fresh in-fence fix", generator.rs:282; gate.rs:74-75).
EmitsOnFreshFix == shown # NoShow => fix.inside /\ fix.age <= Staleness

\* On a device with a ritual no key, gated or not, shows a code outside the window
\* of the last ritual ("the reveal window is authoritative", generator.rs:119).
EmitsInWindow ==
  shown # NoShow /\ has_ritual =>
    \E last \in {last_unlock, last_duress} : last # Never /\ now < last + UnlockWindow

\* Every step of the task is one the reveal gate allows: in particular a ritual is
\* only ever dialed in a shut window, which the gate's own promises need.
TaskKeepsGate == [][RNext]_rvars

\* A window closes by itself, and the code it showed leaves the screen, whatever
\* is pressed ("a ritual device follows it in and out of UNLOCKED",
\* generator.rs:119-120).
WindowCloses ==
  /\ has_ritual /\ ui.unlocked /\ now # 0 ~> ~ui.unlocked
  /\ ui.screen = "reveal" /\ ~ui.unlocked ~> ui.screen # "reveal" \/ ui.unlocked
===============================================================================
