----------------------------- MODULE MCDropTest -----------------------------
(* A small drop test for TLC: a fall of ten units, in units of time that     *)
(* stand for the shortest confirmation time.                                *)
EXTENDS DropTest

SmallConfig ==
  [releaseSpeed |-> -1, releaseLoss |-> 2, releaseConfirm |-> 2, releaseAccel |-> 2,
   releaseTimeout |-> 3, canopyDelay |-> 1, canopyDelta |-> 2, canopyAccel |-> 3,
   stableWindow |-> 2, stableRange |-> 1, stableRate |-> 15, stableSpeed |-> 1,
   landSpeed |-> 0, landRate |-> 8, landGround |-> 1, landSpan |-> 0,
   landConfirm |-> 2, postLanding |-> 2, maxDuration |-> 10]

Air(alt, vs, accel, rate) ==
  [baro |-> TRUE, imu |-> TRUE, gps |-> TRUE, alt |-> alt, vs |-> vs,
   accel |-> accel, rate |-> rate, ground |-> 0]

Fall == { Air(6, 0, 0, 2),       \* held by the operator
          Air(6, 0, -2, 20),     \* let go
          Air(4, -3, 0, 20),     \* falling
          Air(3, -1, 3, 20),     \* the canopy loads
          Air(3, -3, 0, 4),      \* a fast and quiet descent
          Air(2, -1, 0, 4),      \* a steady one
          Air(1, 0, 0, 4),       \* hanging just above the ground
          Air(0, 0, 3, 4),       \* the bump of the touchdown
          Air(0, 0, 0, 4) }      \* at rest

Lost == { [Air(4, -3, 0, 20) EXCEPT !.baro = FALSE],
          [Air(2, -1, 3, 4) EXCEPT !.imu = FALSE],
          [Air(0, 0, 0, 4) EXCEPT !.ground = 5],
          [Air(0, 0, 0, 4) EXCEPT !.ground = 5, !.gps = FALSE] }

SmallSamples == Fall \cup Lost

\* Fewer of them, where a counterexample needs no more.
FewSamples == Fall
=============================================================================
