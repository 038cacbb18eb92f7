------------------------------- MODULE MCServo -------------------------------
(* Two servos for TLC, with commands in quarters of the travel: the second    *)
(* calibration is mirrored and narrow, the third one the dashboard accepts     *)
(* although its travel leaves the ends of the servo.                          *)
EXTENDS Servo

Cal(n, b, r) == [neutral |-> n, min |-> 4, max |-> 20, brake |-> b, reversed |-> r]

MCDefault == Cal(12, 8, FALSE)
MCCalibrations ==
  {<<Cal(9, 4, TRUE), Cal(12, 8, FALSE)>>, <<Cal(17, 8, FALSE), Cal(9, 4, FALSE)>>}
MCLimit == [bench |-> 4, flight |-> 2]
MCCommands == {<<0, 0>>, <<4, -1>>, <<-4, 4>>}
MCTicks == {1, 2}
=============================================================================
