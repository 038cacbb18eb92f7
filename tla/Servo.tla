-------------------------------- MODULE Servo --------------------------------
(***************************************************************************)
(* The two servos: control/servo_controller.cpp ("SC"), with the validity   *)
(* of a calibration (logic/servo_calibration_logic.h), as loop() drives it   *)
(* and as the payload's dashboard calibrates it (comms/wifi_manager.cpp,     *)
(* handleConfigPost).                                                       *)
(*                                                                          *)
(* An iteration of loop() forces neutral, or hands a command of the owner    *)
(* to the controller and updates it, or does both.  The dashboard calibrates *)
(* in the web server's task, between whose steps loop() goes on.  Pulses are *)
(* integers, in units in which every command is exact; commands count in     *)
(* parts of the full travel, after servo1_controls_left_brake_ has said      *)
(* which servo gets which brake.                                            *)
(***************************************************************************)
EXTENDS Ages

CONSTANTS
  Full,          \* parts of the full brake travel
  Limit,         \* the ceiling of each owner's commands
  SlewRate,      \* the largest change of a pulse per unit of time
  Refresh,       \* the least time between two updates
  Ticks,         \* the possible times between two iterations
  Commands,      \* the pairs of commands the owners ask for
  Calibrations,  \* what the dashboard may ask for: pairs of calibrations
  Default,       \* the compiled calibration of both servos
  Lowest, Highest, \* the pulses no servo is driven beyond
  MaxSaves       \* bound: calibrations in a behaviour

Servos == {1, 2}
Owner  == DOMAIN Limit
Calibration == [neutral : Int, min : Int, max : Int, brake : Int, reversed : BOOLEAN]

\* validServoCalibration
ValidCalibration(c) ==
  /\ Lowest <= c.min /\ c.min < c.neutral /\ c.neutral < c.max /\ c.max <= Highest
  /\ c.brake > 0 /\ c.brake <= c.max - c.neutral /\ c.brake <= c.neutral - c.min

\* What handleConfigPost guarantees: the ends stay, and neutral is held between them.
Accepted(c) ==
  c.min = Default.min /\ c.max = Default.max /\ c.neutral \in c.min .. c.max

ASSUME ServoAssumption ==
  /\ {Full, SlewRate, Refresh} \subseteq Nat \ {0} /\ Ticks \subseteq Nat \ {0}
  /\ Limit \in [Owner -> 0 .. Full] /\ Owner # {} /\ Commands \subseteq [Servos -> Int]
  /\ Lowest \in Int /\ Highest \in Int /\ MaxSaves \in Nat
  /\ Default \in Calibration /\ ValidCalibration(Default)
  /\ Calibrations \subseteq [Servos -> Calibration]
  /\ \A new \in Calibrations, s \in Servos : Accepted(new[s])
  /\ Refresh <= AgeCap /\ SlewRate * (AgeCap - Refresh) >= Highest - Lowest

VARIABLES
  servo,   \* left_us_ and left_us_target_ of each servo
  cal,     \* left_cal_, right_cal_
  nvs,     \* the persisted calibrations
  web,     \* the web server's task: how far it is with which calibrations
  since,   \* the time since last_update_ms_
  last,    \* history: what the last iteration did with the servos
  saves    \* bound

servoVars == <<servo, cal, nvs, web, since, last, saves>>

Clamped(x, low, high) == IF x < low THEN low ELSE IF x > high THEN high ELSE x

-----------------------------------------------------------------------------
(* The controller.                                                          *)

\* A plausible fault: the clamp at the calibrated ends is forgotten.
Unclamped(cmd, c) ==
  c.neutral + (IF c.reversed THEN -1 ELSE 1) * ((c.brake * cmd) \div Full)

\* commandToUs
CommandToUs(cmd, c) ==
  Clamped(c.neutral + (IF c.reversed THEN -1 ELSE 1) * ((c.brake * cmd) \div Full),
          c.min, c.max)

\* The pulses an owner's commands stand for, within its ceiling.
Asked(commands, owner) ==
  [s \in Servos |-> CommandToUs(Clamped(commands[s], -Limit[owner], Limit[owner]), cal[s])]

\* setServoCommandsWithLimit, setBenchServoCommands
Targeted(ss, commands, owner) ==
  [s \in Servos |-> [ss[s] EXCEPT !.target = Asked(commands, owner)[s]]]

\* Plausible faults: no slew limit; no last step to the target.
Jumped(us, target, dt) == target

HeldBack(us, target, dt) ==
  IF target - us > SlewRate * dt THEN us + SlewRate * dt
  ELSE IF us - target > SlewRate * dt THEN us - SlewRate * dt ELSE us

\* applySlewLimit
Slewed(us, target, dt) == us + Clamped(target - us, -(SlewRate * dt), SlewRate * dt)

\* ServoController::update, when it is due.
Updated(ss, dt) ==
  IF dt < Refresh THEN ss
  ELSE [s \in Servos |-> [ss[s] EXCEPT !.us = Slewed(ss[s].us, ss[s].target, dt)]]

\* emergencyNeutral
NeutralOf(cals) ==
  [s \in Servos |-> [us |-> cals[s].neutral, target |-> cals[s].neutral]]

-----------------------------------------------------------------------------
(* Persistence.  saveCalibration writes one key after the other.            *)

Keys == <<"neutral", "min", "max", "brake", "reversed">>

\* The store when power is lost after the first k writes.
Mixed(old, new, k) ==
  LET Position(s, f) == (s - 1) * 5 + (CHOOSE i \in 1 .. 5 : Keys[i] = f)
  IN  [s \in Servos |->
         [f \in DOMAIN Default |-> IF Position(s, f) <= k THEN new[s][f] ELSE old[s][f]]]

\* loadCalibration: a store that does not open, or one invalid calibration, gives up both.
Restored(store, opened) ==
  IF opened /\ \A s \in Servos : ValidCalibration(store[s])
  THEN store ELSE [s \in Servos |-> Default]

-----------------------------------------------------------------------------
(* Actions.                                                                 *)

\* History: the owner asks for what it asked for in the previous iteration.
Keeps(owner, commands) ==
  last.kind = "moved" /\ last.owner = owner /\ last.commands = commands

\* The arbitration chooses an owner that moves the servos.  With "forced" something
\* earlier in the iteration put them to neutral first: the end of a bench or a tilt
\* movement by its timeout, an interlock, an abort, or a command that was refused.
Move(dt, owner, commands, forced) ==
  LET before == IF forced THEN NeutralOf(cal) ELSE servo
      age == Later(since, dt)
  IN  /\ servo' = Updated(Targeted(before, commands, owner), age)
      /\ since' = IF age < Refresh THEN age ELSE 0
      /\ last' = [kind |-> IF forced THEN "forced" ELSE "moved",
                  owner |-> owner, commands |-> commands, dt |-> dt,
                  kept |-> IF Keeps(owner, commands) THEN Later(last.kept, dt) ELSE 0]
      /\ UNCHANGED <<cal, nvs, web, saves>>

\* Failsafe, landed, neutral lock, abort: the controller is not updated.
Neutral(dt) ==
  /\ servo' = NeutralOf(cal)
  /\ since' = Later(since, dt)
  /\ last' = [last EXCEPT !.kind = "neutral", !.kept = 0, !.dt = dt]
  /\ UNCHANGED <<cal, nvs, web, saves>>

\* handleConfigPost sets one calibration after the other: the pulses and the targets
\* stay where they are until loop() commands them anew.
Calibrated(s, new) ==
  /\ cal' = [cal EXCEPT ![s] = new[s]]
  /\ last' = [last EXCEPT !.kind = "calibrated", !.kept = 0]
  /\ UNCHANGED <<servo, nvs, since>>

CalibrateLeft(new) ==
  /\ web.step = "idle" /\ saves < MaxSaves /\ saves' = saves + 1
  /\ Calibrated(1, new)
  /\ web' = [step |-> "left", new |-> new]

CalibrateRight ==
  /\ web.step = "left"
  /\ Calibrated(2, web.new)
  /\ web' = [web EXCEPT !.step = "right"] /\ UNCHANGED saves

\* saveCalibration, whose result nobody looks at: the store may not open.
SaveCalibration(opened) ==
  /\ web.step = "right"
  /\ nvs' = IF opened THEN cal ELSE nvs
  /\ web' = [web EXCEPT !.step = "saved"]
  /\ UNCHANGED <<servo, cal, since, last, saves>>

\* The request ends with the new neutral.
NeutralFromWeb ==
  /\ web.step = "saved"
  /\ servo' = NeutralOf(cal)
  /\ last' = [last EXCEPT !.kind = "neutral", !.kept = 0]
  /\ web' = [web EXCEPT !.step = "idle"]
  /\ UNCHANGED <<cal, nvs, since, saves>>

\* A restart: begin restores the calibration before the servos are attached.
Booted(store, opened) ==
  /\ nvs' = store
  /\ cal' = Restored(store, opened)
  /\ servo' = NeutralOf(Restored(store, opened))
  /\ since' = 0
  /\ last' = [last EXCEPT !.kind = "boot", !.kept = 0]
  /\ web' = [web EXCEPT !.step = "idle"] /\ UNCHANGED saves

Restart == \E opened \in BOOLEAN : Booted(nvs, opened)

\* Power is lost between two keys of a save.
LosePowerWhileSaving(k) ==
  /\ web.step = "right"
  /\ Booted(Mixed(nvs, cal, k), TRUE)

ServoInit ==
  /\ cal = [s \in Servos |-> Default] /\ nvs = cal
  /\ web = [step |-> "idle", new |-> cal]
  /\ servo = NeutralOf(cal)
  /\ since = 0 /\ saves = 0
  /\ last = [kind |-> "boot", owner |-> CHOOSE o \in Owner : TRUE,
             commands |-> [s \in Servos |-> 0], dt |-> 0, kept |-> 0]

Iterate ==
  \E dt \in Ticks :
    \/ \E o \in Owner, c \in Commands, f \in BOOLEAN : Move(dt, o, c, f)
    \/ Neutral(dt)

ServoNext ==
  \/ Iterate
  \/ Restart
  \/ \E new \in Calibrations : CalibrateLeft(new)
  \/ CalibrateRight
  \/ \E opened \in BOOLEAN : SaveCalibration(opened)
  \/ NeutralFromWeb
  \/ \E k \in 0 .. 2 * 5 - 1 : LosePowerWhileSaving(k)

ServoSpec == ServoInit /\ [][ServoNext]_servoVars

-----------------------------------------------------------------------------
(* Properties.                                                              *)

\* Types of the controller and of its store.
ServoTypeOK ==
  /\ servo \in [Servos -> [us : Int, target : Int]]
  /\ cal \in [Servos -> Calibration] /\ nvs \in [Servos -> Calibration]
  /\ web \in [step : {"idle", "left", "right", "saved"}, new : [Servos -> Calibration]]
  /\ since \in Age /\ saves \in 0 .. MaxSaves
  /\ last \in [kind : {"boot", "neutral", "calibrated", "moved", "forced"}, owner : Owner,
               commands : [Servos -> Int], dt : Nat, kept : Age]

\* An update follows the previous one after less than Refresh and one iteration.
Gradual(us, next, dt) ==
  next - us \in -(SlewRate * (dt + Refresh)) .. SlewRate * (dt + Refresh)

\* No pulse leaves the calibrated ends of its servo or the hard ones, whoever
\* commanded it, although loop() goes on between the steps of a calibration, and
\* wherever a save was cut off: a linkage that is driven beyond its end breaks.
PulsesWithinEnds ==
  \A s \in Servos :
    /\ servo[s].us \in cal[s].min .. cal[s].max
    /\ servo[s].us \in Lowest .. Highest

\* Between two iterations that move the servos no pulse changes by more than the slew
\* rate allows in the time between them, for any two owners, a change of mind and a
\* late iteration.  The one jump there is goes to neutral: where something forces it
\* between the two (the timeouts of bench and tilt, an interlock, an abort, a refused
\* command), the owner's move is gradual from neutral and not from the last pulse.
MovesAreGradual ==
  [][UNCHANGED web /\ {last.kind, last'.kind} \subseteq {"moved", "forced"} =>
       \A s \in Servos :
         Gradual(IF last'.kind = "forced" THEN cal[s].neutral ELSE servo[s].us,
                 servo'[s].us, last'.dt)]_servoVars

\* An owner that keeps its command has it after the time the slew rate takes from end
\* to end, and one refresh: whatever the iterations last, however an update falls
\* between them and from wherever the previous owner left the servos.  The time counts
\* from the last neutral, also from one that a refused or an unrelated command forced
\* (main.cpp:1181, 1330, 1374), and from the last calibration.
CommandArrives ==
  last.kind = "moved" /\ SlewRate * (last.kept - Refresh) >= Highest - Lowest =>
    \A s \in Servos : servo[s].us = Asked(last.commands, last.owner)[s]

=============================================================================
