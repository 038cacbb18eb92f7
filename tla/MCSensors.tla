------------------------------ MODULE MCSensors ------------------------------
(* Surroundings for TLC: in each one device is disturbed while the others    *)
(* are steady or silent, and in the last the GPS falls silent under a         *)
(* disturbed barometer.  Positions and altitudes 0 and 1 are one step apart,  *)
(* 3 is out of reach of both.                                               *)
EXTENDS Sensors

Fix(p, good) == [kind |-> "location", pos |-> p, good |-> good]
Talk(good)   == [kind |-> "sentence", pos |-> 0, good |-> good]
NoFix        == [kind |-> "none", pos |-> 0, good |-> FALSE]

Alt(a)     == [kind |-> "altitude", alt |-> a]
Bus(kind)  == [kind |-> kind, alt |-> 0]

Rotation(sane) == [kind |-> "rotation", sane |-> sane]
Report(sane)   == [kind |-> "other", sane |-> sane]
NoReport       == [kind |-> "none", sane |-> FALSE]

GpsFlight ==
  [imu |-> {NoReport}, baro |-> {Bus("none")},
   gps |-> {NoFix, Talk(TRUE), Talk(FALSE)} \cup {Fix(p, TRUE) : p \in {0, 1, 3}}]

BaroFlight ==
  [imu |-> {NoReport}, gps |-> {Talk(FALSE)},
   baro |-> {Bus(k) : k \in {"none", "error", "answered", "out of range"}}
              \cup {Alt(a) : a \in {0, 1, 3}}]

ImuFlight ==
  [imu |-> {NoReport, Report(TRUE), Report(FALSE), Rotation(TRUE), Rotation(FALSE)},
   baro |-> {Bus("none")}, gps |-> {NoFix}]

SilentFlight ==
  [imu |-> {NoReport}, baro |-> {Bus("error"), Bus("none"), Alt(0), Alt(1)}, gps |-> {NoFix}]

MCSurroundings == {GpsFlight, BaroFlight, ImuFlight, SilentFlight}
MCTicks == {1, 2}
=============================================================================
