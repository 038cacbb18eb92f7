------------------------------- MODULE Sensors -------------------------------
(***************************************************************************)
(* What the payload knows of the world: the drivers of IMU (sensors/imu.cpp,*)
(* "IM"), barometer (sensors/barometer.cpp, "BA") and GPS (sensors/gps.cpp, *)
(* "GP") with their plausibility checks (logic/data_quality.h) and the      *)
(* SensorManager (sensors/sensor_manager.cpp) that publishes their readings *)
(* with a validity each.                                                    *)
(*                                                                          *)
(* A unit of time is longer than the reading intervals of the drivers, so   *)
(* an update before its time is an update without a reading.  Altitudes and *)
(* positions are integers; a power cycle of the GPS blocks the loop.        *)
(***************************************************************************)
EXTENDS Ages

CONSTANTS
  SensorTimeout,          \* deadline of IMU and barometer readings
  Warmups,                \* conversions discarded after a barometer recovery
  FailureLimit, Cooldown, \* bus errors before, and time between, recoveries
  MaxStep,                \* largest plausible step of altitude or position
  FixCount,               \* plausible fixes before the GPS is trusted again
  NmeaTimeout, FixTimeout,\* how long a silent link, an old fix is still good
  SilenceGrace, RetryInterval, \* silence before, time between, power cycles
  PowerCycle,             \* how long a power cycle blocks the loop
  Ticks,                  \* the possible times between two updates
  Surroundings            \* what may be read: [imu, baro, gps : sets of readings]

\* What a driver finds when it is updated; "none" is an update without data.
ImuReading  == [kind : {"none", "rotation", "other"}, sane : BOOLEAN]
BaroReading == [kind : {"none", "error", "answered", "altitude", "out of range"}, alt : Int]
GpsReading  == [kind : {"none", "sentence", "location"}, pos : Int, good : BOOLEAN]

ASSUME SensorsAssumption ==
  /\ {SensorTimeout, Warmups, FailureLimit, Cooldown, FixCount, NmeaTimeout, FixTimeout,
      SilenceGrace, RetryInterval, PowerCycle} \subseteq Nat \ {0}
  /\ {SensorTimeout, NmeaTimeout} \subseteq 0 .. AgeCap - 1
  /\ {Cooldown, FixTimeout, SilenceGrace, RetryInterval, PowerCycle} \subseteq 0 .. AgeCap
  /\ MaxStep \in Nat /\ Ticks \subseteq Nat \ {0}
  /\ Surroundings \subseteq
       [imu : SUBSET ImuReading, baro : SUBSET BaroReading, gps : SUBSET GpsReading]

VARIABLES
  imu, baro, gps,  \* the drivers
  valid,           \* the validity of each reading in VehicleState
  here,            \* the surroundings of this flight
  got              \* history: what was read in the last update, and its parity,
                   \* without which an update that changes nothing would be no step

sensorVars == <<imu, baro, gps, valid, here, got>>

Distance(a, b) == IF a > b THEN a - b ELSE b - a

\* A plausible fault: any step is plausible.
AnyStep(baseline, x) == x \in Int

\* validateGPS, validateBaro: a step is only judged against a baseline.
Plausible(baseline, x) == \A b \in baseline : Distance(b, x) <= MaxStep

-----------------------------------------------------------------------------
(* IMU: rotation vectors and other reports come one by one; a report is sane *)
(* when the data as it then stands passes validateIMU.                      *)

NoImu == [rotated |-> FALSE, valid |-> FALSE, age |-> Unset]

ImuUpdated(i, reading) ==
  LET rotated == i.rotated \/ reading.kind = "rotation"
      ok == rotated /\ reading.sane
  IN  IF reading.kind = "none" THEN i
      ELSE [rotated |-> rotated, valid |-> ok, age |-> IF ok THEN 0 ELSE i.age]

-----------------------------------------------------------------------------
(* Barometer.  A bus error may be "answered": the device can be set up again.*)
(* "base" holds the last accepted altitude, if there is one.                *)

\* After the calibration on the ground, which clears the baseline.
NoBaro(warm) ==
  [valid |-> FALSE, alt |-> 0, base |-> {}, failures |-> 0, warm |-> warm,
   tried |-> AgeCap, age |-> Unset]

\* A plausible fault: an error makes the reading invalid.
ErrorInvalidates(b, reading) == [b EXCEPT !.valid = FALSE]

\* One error leaves the reading as it is; FailureLimit of them in a row make the
\* driver set the device up again, at most once in Cooldown.
BusError(b, reading) ==
  LET failures == IF b.failures < FailureLimit THEN b.failures + 1 ELSE b.failures
      tries == failures = FailureLimit /\ b.tried >= Cooldown
      recovers == tries /\ reading.kind = "answered"
  IN  [b EXCEPT !.failures = IF recovers THEN 0 ELSE failures,
                !.warm     = IF recovers THEN Warmups ELSE @,
                !.tried    = IF tries THEN 0 ELSE @]

\* A rejected altitude is replaced by the baseline, if there is one.
Conversion(b, reading) ==
  LET ok == reading.kind = "altitude" /\ Plausible(b.base, reading.alt)
      seen == [b EXCEPT !.failures = 0, !.alt = reading.alt]
  IN  IF b.warm > 0 THEN [seen EXCEPT !.warm = @ - 1, !.valid = FALSE]
      ELSE IF ok THEN [seen EXCEPT !.valid = TRUE, !.base = {reading.alt}, !.age = 0]
      ELSE [seen EXCEPT !.valid = FALSE,
                        !.alt = IF b.base = {} THEN @ ELSE CHOOSE a \in b.base : TRUE]

BaroUpdated(b, reading) ==
  CASE reading.kind = "none" -> b
    [] reading.kind \in {"error", "answered"} -> BusError(b, reading)
    [] OTHER -> Conversion(b, reading)

-----------------------------------------------------------------------------
(* GPS.  "heard" is the location the NMEA parser holds, "fix" its age (unset  *)
(* when it has none), "nmea" the age of the last sentence, "base" the last    *)
(* plausible position.                                                      *)

NoGps ==
  [valid |-> FALSE, streak |-> 0, pos |-> 0, base |-> {}, heard |-> 0, fix |-> Unset,
   nmea |-> Unset, startup |-> 0, attempt |-> 0]

\* gpsFixUsable
FixUsable(g) ==
  g.nmea \in 0 .. NmeaTimeout /\ g.fix \in 0 .. FixTimeout - 1

\* A plausible fault: a fix that has become too old stays valid.
OldFixStays(g) == g

InvalidateStaleFix(g) ==
  IF FixUsable(g) THEN g ELSE [g EXCEPT !.valid = FALSE, !.streak = 0]

\* A plausible fault: silence is only measured since the last sentence.
SilenceSinceSentence(g) ==
  g.nmea >= SilenceGrace /\ g.attempt >= RetryInterval

\* gpsSilentRecoveryDue
RecoveryDue(g) ==
  /\ (IF g.nmea # Unset THEN g.nmea ELSE g.startup) >= SilenceGrace
  /\ g.attempt >= RetryInterval

\* powerCycleModule and restartParser: the baseline survives.
PowerCycled(g) ==
  [g EXCEPT !.valid = FALSE, !.streak = 0, !.fix = Unset, !.nmea = Unset,
            !.startup = 0, !.attempt = PowerCycle]

\* valid_fix_streak_ saturates.
Lengthened(streak) == IF streak < FixCount THEN streak + 1 ELSE streak

\* A plausible fault: a sentence without a location ends the streak.
OnlyLocationsCount(g, reading) ==
  LET ok == reading.kind = "location" /\ reading.good /\ Plausible(g.base, reading.pos)
      streak == IF ok THEN Lengthened(g.streak) ELSE 0
  IN  [g EXCEPT !.nmea = 0, !.streak = streak, !.valid = streak = FixCount,
                !.fix   = IF reading.kind = "location" THEN 0 ELSE @,
                !.heard = IF reading.kind = "location" THEN reading.pos ELSE @,
                !.pos   = IF ok THEN reading.pos ELSE @,
                !.base  = IF ok THEN {reading.pos} ELSE @]

\* Any sentence makes the driver judge the location the parser holds.
Sentence(g, reading) ==
  LET h == [g EXCEPT !.nmea = 0,
                     !.fix   = IF reading.kind = "location" THEN 0 ELSE @,
                     !.heard = IF reading.kind = "location" THEN reading.pos ELSE @]
      plausible == h.fix \in 0 .. FixTimeout - 1 /\ reading.good /\ Plausible(g.base, h.heard)
      streak == Lengthened(g.streak)
  IN  IF plausible
      THEN [h EXCEPT !.pos = h.heard, !.base = {h.heard}, !.streak = streak,
                     !.valid = streak = FixCount]
      ELSE [h EXCEPT !.pos = IF g.base = {} THEN h.heard ELSE CHOOSE p \in g.base : TRUE,
                     !.streak = 0, !.valid = FALSE]

GpsUpdated(g, reading) ==
  IF reading.kind # "none" THEN Sentence(g, reading)
  ELSE LET h == InvalidateStaleFix(g)
       IN  IF RecoveryDue(h) THEN PowerCycled(h) ELSE h

-----------------------------------------------------------------------------
(* SensorManager.                                                           *)

ImuAged(i, dt)  == [i EXCEPT !.age = Later(@, dt)]
BaroAged(b, dt) == [b EXCEPT !.age = Later(@, dt), !.tried = Later(@, dt)]
GpsAged(g, dt)  ==
  [g EXCEPT !.fix = Later(@, dt), !.nmea = Later(@, dt),
            !.startup = Later(@, dt), !.attempt = Later(@, dt)]

\* checkSensorHealth
Fresh(age) == age \in 0 .. SensorTimeout

\* The deadline is checked with a clock read after the GPS was served.
Update(dt, imuReading, baroReading, gpsReading) ==
  LET cycles == gpsReading.kind = "none" /\ RecoveryDue(GpsAged(gps, dt))
      blocked == IF cycles THEN PowerCycle ELSE 0
  IN  /\ imu'  = ImuAged(ImuUpdated(ImuAged(imu, dt), imuReading), blocked)
      /\ baro' = BaroAged(BaroUpdated(BaroAged(baro, dt), baroReading), blocked)
      /\ gps'  = GpsUpdated(GpsAged(gps, dt), gpsReading)
      /\ valid' = [imu  |-> imu'.valid /\ Fresh(imu'.age),
                   baro |-> baro'.valid /\ Fresh(baro'.age),
                   gps  |-> gps'.valid]
      /\ got' = [baro |-> baroReading, gps |-> gpsReading, odd |-> ~got.odd]
      /\ UNCHANGED here

NothingRead ==
  [baro |-> [kind |-> "none", alt |-> 0],
   gps |-> [kind |-> "none", pos |-> 0, good |-> FALSE], odd |-> FALSE]

\* setup() begins the drivers and calibrates; with few conversions the warm-up
\* of the barometer is over by then.
SensorsInit ==
  /\ imu = NoImu
  /\ baro \in {NoBaro(warm) : warm \in {0, Warmups}}
  /\ gps = NoGps
  /\ valid = [imu |-> FALSE, baro |-> FALSE, gps |-> FALSE]
  /\ here \in Surroundings
  /\ got = NothingRead

SensorsNext ==
  \E dt \in Ticks, i \in here.imu, b \in here.baro, g \in here.gps : Update(dt, i, b, g)

SensorsSpec == SensorsInit /\ [][SensorsNext]_sensorVars
SensorsFairSpec == SensorsSpec /\ WF_sensorVars(SensorsNext)

-----------------------------------------------------------------------------
(* Properties.                                                              *)

\* Types of the drivers and of what the manager publishes.
SensorsTypeOK ==
  /\ imu \in [rotated : BOOLEAN, valid : BOOLEAN, age : Timer]
  /\ baro \in [valid : BOOLEAN, alt : Int, base : SUBSET Int, failures : 0 .. FailureLimit,
               warm : 0 .. Warmups, tried : Age, age : Timer]
  /\ gps \in [valid : BOOLEAN, streak : 0 .. FixCount, pos : Int, base : SUBSET Int,
              heard : Int, fix : Timer, nmea : Timer, startup : Age, attempt : Age]
  /\ valid \in [imu : BOOLEAN, baro : BOOLEAN, gps : BOOLEAN]
  /\ here \in Surroundings
  /\ got \in [baro : BaroReading, gps : GpsReading, odd : BOOLEAN]

\* A valid reading is one that was accepted, and not long ago: the published
\* altitude is the baseline and within the deadline, the position has the whole
\* streak of plausible fixes behind it on a link that still speaks ("Freshness is
\* authoritative", sensor_manager.cpp).
NoStaleReading ==
  /\ valid.imu => imu.rotated /\ imu.age \in 0 .. SensorTimeout
  /\ valid.baro => baro.base = {baro.alt} /\ baro.age \in 0 .. SensorTimeout
  /\ valid.gps => gps.base = {gps.pos} /\ gps.streak = FixCount /\ FixUsable(gps)

\* Whatever the drivers reject, retain and recover from, two readings that are
\* valid one after the other never lie further apart than is plausible.
ReadingsAreContinuous ==
  [][/\ valid.baro /\ valid'.baro => Distance(baro.alt, baro'.alt) <= MaxStep
     /\ valid.gps /\ valid'.gps => Distance(gps.pos, gps'.pos) <= MaxStep]_sensorVars

\* A valid altitude is withdrawn only for a cause: a conversion that was rejected
\* or belongs to a warm-up, or nothing accepted for longer than the deadline, the
\* time a power cycle of the GPS blocks the loop included.  Bus errors and the
\* recovery of the device alone do not flicker it (BA:94).
WithdrawnForCause ==
  [][valid.baro /\ ~valid'.baro =>
       \/ got'.baro.kind = "altitude" /\ (baro.warm > 0 \/ ~Plausible(baro.base, got'.baro.alt))
       \/ got'.baro.kind = "out of range"
       \/ \E dt \in Ticks :
            baro.age + dt + (IF gps'.startup = 0 THEN PowerCycle ELSE 0) > SensorTimeout]_sensorVars

\* A GPS that stays silent, from the start or after it has spoken, is power cycled
\* again and again, and a barometer whose bus fails while the device answers is
\* set up again and again.
SilenceIsEnded ==
  /\ <>[](got.gps.kind = "none") => []<>(gps.startup = 0)
  /\ <>[](got.baro.kind = "answered") => []<>(baro.failures = 0)

\* Readings that come back within reach of the baseline become valid and stay so,
\* however the outage before them went.
ReadingsReturn ==
  /\ <>[](/\ got.gps.kind # "none" /\ got.gps.good
          /\ gps.fix \in 0 .. FixTimeout - 1 /\ Plausible(gps.base, gps.heard)) => <>[]valid.gps
  /\ <>[](got.baro.kind = "altitude" /\ Plausible(baro.base, got.baro.alt)) => <>[]valid.baro

\* A temporary glitch of the GPS is recovered from (docs/TEST_PLAN.md:68): good
\* fixes at one place become a valid position.
GlitchIsRecovered ==
  \A p \in {g.pos : g \in UNION {s.gps : s \in Surroundings}} :
    <>[](got.gps = [kind |-> "location", pos |-> p, good |-> TRUE]) => <>valid.gps
=============================================================================
