----------------------------- MODULE MCLockBoard -----------------------------
(***************************************************************************)
(* Blobs and masters for the lock board.                                   *)
(***************************************************************************)
EXTENDS LockBoard

Step(act, eoff) == [act |-> act, timed |-> TRUE, eoff |-> eoff]
End == [act |-> {}, timed |-> FALSE, eoff |-> "none"]
Both(seq) == [boost |-> FALSE, strike |-> TRUE, unlock |-> seq, lock |-> seq]

\* An erased blob drives everything for as long as it can; the defaults move a
\* servo; `still` has no steps; `strike` is a 12 V strike that a servo follows,
\* both ending early on the door, against a boosted servo and a bare strike;
\* `pair` opens with a strike and closes with a servo.
Blobs ==
  [erased |-> [Both(<<Step({"servo", "sol"}, "absent"), Step({"servo", "sol"}, "absent")>>)
                 EXCEPT !.boost = TRUE],
   plain |-> Both(<<Step({"servo"}, "none"), End>>),
   still |-> Both(<<End, End>>),
   pair |->
     [Both(<<Step({"servo"}, "none"), End>>) EXCEPT !.unlock = <<Step({"sol"}, "none"), End>>],
   strike |->
     [boost |-> TRUE, strike |-> FALSE,
      unlock |-> <<Step({"sol"}, "present"), Step({"servo"}, "present")>>,
      lock |-> <<Step({"servo"}, "none"), [Step({"sol"}, "none") EXCEPT !.timed = FALSE]>>]]

\* Disturbed: a board with nothing to drive, a write that goes wrong.
\* Restarted: nonces and writes across resets; its mark soon carries over DwordBytes.
\* Driving: starts, stops and reconfigures a board in mid-cycle.
\* First: a board that was never configured, reset while it is.
Disturbed == [sent |-> {"unlock", "still"}, blob |-> "still",
              reads |-> 2, writes |-> 2, faults |-> 1, resets |-> 0, mark |-> 0]
Restarted == [sent |-> {"unlock"}, blob |-> "still",
              reads |-> 3, writes |-> 1, faults |-> 0, resets |-> 2, mark |-> 0]
Driving == [sent |-> {"unlock", "lock", "plain"}, blob |-> "strike",
            reads |-> 2, writes |-> 2, faults |-> 0, resets |-> 0, mark |-> 0]
First == [sent |-> {"lock", "abort", "strike"}, blob |-> "erased",
          reads |-> 2, writes |-> 2, faults |-> 0, resets |-> 1, mark |-> 0]
AllMasters == {Disturbed, Restarted, Driving, First}

\* A mark is two digits to base four: one stride of two carries.
DwordBytes == {4}

\* One that configures while a command is verified.
Hasty == [sent |-> {"unlock", "still"}, blob |-> "still",
          reads |-> 3, writes |-> 3, faults |-> 0, resets |-> 0, mark |-> 0]
JustHasty == {Hasty}

\* One that starts a board again after a reset.
Restarting == [sent |-> {"unlock", "lock"}, blob |-> "pair",
               reads |-> 2, writes |-> 2, faults |-> 0, resets |-> 1, mark |-> 0]
JustRestarting == {Restarting}
===============================================================================
