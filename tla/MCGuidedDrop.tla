---------------------------- MODULE MCGuidedDrop ----------------------------
(* A small guided drop for TLC.  Commands are in eighths of the authority,   *)
(* so that halving it twice stays exact.                                    *)
EXTENDS GuidedDrop

SmallLaw ==
  [gain |-> 2, finalGain |-> 1, deadband |-> 2, limit |-> 8, finalLimit |-> 4,
   slowLimit |-> 4, slew |-> 2, guard |-> 3, minAlt |-> 2, accept |-> 1]

SmallGuided ==
  [deployment |-> 1, navConfirm |-> 2, navLoss |-> 2, instability |-> 2,
   minAlt |-> 6, finalAlt |-> 3, finalRadius |-> 3, maxJump |-> 2, recovery |-> 2,
   hold |-> FALSE, holdTime |-> 1, holdLimit |-> 2, swings |-> 1, swingWindow |-> 2,
   law |-> SmallLaw]

\* The same with the optional course hold.
HoldGuided == [SmallGuided EXCEPT !.hold = TRUE]

Air(alt, error) ==
  [fresh |-> TRUE, gps |-> TRUE, rate |-> "calm", alt |-> alt, error |-> error,
   slow |-> FALSE]

NoFix(s) == [s EXCEPT !.gps = FALSE]
Spun(s)  == [s EXCEPT !.rate = "spin"]
Shaken(s) == [s EXCEPT !.rate = "rough"]
Slowed(s) == [s EXCEPT !.slow = TRUE]

\* Everything that can go wrong while the vehicle turns right.
Faults ==
  LET right == Air(8, 9)
  IN  { right, Air(5, 9), Air(1, 9), Shaken(right), Spun(right), NoFix(right),
        NoFix(Spun(right)), [right EXCEPT !.fresh = FALSE] }

\* Every turn, with the lapses that keep the limiter running.
Turns ==
  { Air(8, -9), Air(8, 0), Air(8, 9), Air(3, -9), Air(3, 9), Air(1, 0),
    Slowed(Air(8, -9)), Shaken(Air(8, 9)), Spun(Air(8, 0)), NoFix(Air(8, 0)) }

=============================================================================
