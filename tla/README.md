# PHOENIX RECOVERY in TLA+

TLA+ models, TLC runs and TLAPS proofs of the firmware under `src/firmware`, an
ESP32 payload that descends under a parafoil and steers it with two brakes, and
of the ground station that commands it over LoRa. Line references are to the
files of the repository; "SM" is `logic/state_machine.cpp`, "FC"
`logic/flight_coordinator.cpp`, "DC" `logic/drop_test_controller.cpp`, "FL"
`logging/flash_logger.cpp`, "GP" `sensors/gps.cpp`, "BA" `sensors/barometer.cpp`,
"SC" `control/servo_controller.cpp`, "MP" the payload's `main.cpp` and "MG" the
ground station's.

## 1. The system

`setup()` of `firmware/src/main.cpp` initialises the devices and, after a reset
that is neither a power-on nor an external reset, starts in the failsafe.
`loop()` then runs for ever on one core, without interrupts that touch the
control state; the payload's dashboard, where it is enabled, answers in a task of its
own. One iteration is, in this order:

1. `now = millis()`, sensors (`SensorManager::update` reads the clock again and
   stamps the sample);
2. LoRa commands (`updateLoRaRemoteControl` reads the clock a third time);
3. the drop-test recorder (`updateDropTestRecording`);
4. the flight coordinator (`FlightCoordinator::step`, with `now`);
5. tilt stabilizer, servo retract test, guided drop controller (with `now`);
6. arbitration: one of eight owners gets the two servos;
7. telemetry, logging, Wi-Fi.

The concurrency of the system is therefore, but for the dashboard's web server (see
`Servo`), not threads but (a) independent
state machines that share the servos, the log and the vehicle state within an
iteration, in an order that matters, (b) three clock readings per iteration,
(c) sensors that come and go at any time, (d) commands of a remote operator that
arrive at any time, are lost or repeated, and (e) resets and power losses.

The ground station is a second such loop: serial line and dashboard, the repeats
of a held command (`updateManualHold`, `updateTiltHold`) and the reception of
telemetry, which also drives the automatic CSV log. It talks to the payload over
one half-duplex radio channel: the payload listens except while it sends, and the
ground sends right after a frame it received. What is sent at the wrong moment is
lost, and a command that waits for the next frame blocks the ground's loop.

| component | state it keeps | operations | hard part | what makes it correct |
|---|---|---|---|---|
| Flight coordinator and state machine | flight state, latched failure, entry and condition instants, GPS-loss and launch-attempt timers | `step`, `reset`, `forceFailsafe` | sensor loss in any state, timers shared by states, order of failure and transition | phases in order; first failure latched and fail-neutral; brakes only in a healthy guided descent; log sealed once |
| Drop-test recorder | test state, milestones, windows and extremes | `arm`, `abort`, `step` | spurious candidates that are rejected and reopened, two clocks | milestones in order and backed by evidence; every recording ends and seals its log |
| Guided drop controller, arm gate | navigation candidate, loss and instability timers, GPS baseline, rate limiter | `step`, `reset`; `prepare`, `armNow` | GPS loss, jump, instability and authority at once | steers only after all gates; faults latch; command limited in size and slope |
| Payload loop | command timeouts, owners of the servos, neutral lock | 20 LoRa commands, arbitration | owners that expire or are interlocked in the iteration of a new command | at most one owner, in priority; nothing moves in flight that is meant for the bench |
| Tilt stabilizer, retract test, bench gate | armed and phase instants | arm, disarm, update | clock of the command against clock of the loop | bounded duration, neutral when interlocked |
| Servo controller | pulse, target and calibration of each servo, the stored calibrations | commands per owner, `update`, `emergencyNeutral`, load, save | owners that hand over, late iterations, a calibration from another task, a save cut off by a power loss | pulses within the ends and without jumps but to a forced neutral; commands arrive |
| Sensors | ages, validity, baselines, recovery streaks | `update` of manager and drivers | staleness, jumps, reinitialisation, a power cycle that blocks the loop | a valid reading is accepted, fresh and continuous; silence is ended; readings return |
| Flash logger | slots, open log, counts | `begin`, `startFlightLog`, `log`, `endFlightLog` | power loss, full storage, ignored write results, a mount that formats | what is recorded is never overwritten; each test has a log |
| Ground drop-log session and CSV log | session, open file | `observe`, start, append, close | frames lost and repeated, restarts of both sides, storage faults | every frame of a test is one row of its file |
| LoRa link and ground station | holds, repeats, waits, what each radio holds | send, poll, wait, repeat | half duplex, loss, what changes during a wait | each movement has an operator behind it; a recording stops the repeats; the ground never hangs |
| Watchdog, health monitor, failsafe class, ring buffer | enabled flag, counters | begin, feed, check, push | initialisation order | reports only; nothing in the control path reads them |

`PROJECT.json` lists every component with what is modelled of it, and under
`hazards` what in this code is hard to test, at its line.

## 2. Modules

| module | models | extends |
|---|---|---|
| `Ages` | stored `millis()` values as elapsed times | Integers |
| `FlightCoordinator` | FC and SM, the boot decision of `setup()`, the coordinator's part of `loop()` | `Ages` |
| `FlightPhases` | what the coordinator promises: an abstract flight | |
| `DropTest` | DC with `armDropTest`, `abortDropTest`, `updateDropTestRecording` | `Ages` |
| `DropStages` | what a drop test looks like to the rest of the payload | |
| `Steering` | `computeGuidance` with `RateLimiter` and `ReversalGuard` | `Ages` |
| `GuidedDrop` | `logic/guided_drop_controller.cpp` ("GC") in the loop | `Steering`, `DropStages` |
| `RemoteMoves` | what the payload promises to the other end of its radio link: commands, movements, timeouts | Integers |
| `Payload` | the whole of `loop()`: commands, bench controllers and their gate, arbitration | `DropStages`, `Ages`, instances of `FlightPhases` and `RemoteMoves` |
| `Sensors` | `SensorManager` with the drivers of IMU, barometer and GPS and `data_quality.h` | `Ages` |
| `Servo` | `ServoController`, its stored calibration, the dashboard's calibration | `Ages` |
| `FlashLog` | the payload's flash log, with every access able to fail | Integers |
| `DropLogSession` | `logic/drop_log_session.h` | Integers |
| `Records` | flash log and CSV mirror, the payload's tests and the frames between them | `FlashLog`, `DropLogSession` |
| `Link` | the ground station's commands and repeats, both radios, the payload's movements | `Ages`, instance of `RemoteMoves` |

`MCFlightCoordinator`, `MCDropTest`, `MCGuidedDrop`, `MCSensors`, `MCServo`,
`MCRecords` and `MCLink` give the constants their values for TLC; `Payload` is
checked directly, its constants are numbers. `FlightCoordinatorProofs`,
`DropTestProofs`, `GuidedDropProofs`, `PayloadProofs`, `SensorsProofs`,
`ServoProofs`, `LinkProofs` and `RecordsProofs` hold the theorems; each extends
its module and TLAPS.

### Conventions

*Time.* The code stores `millis()` values, with 0 for "not set", and compares
differences. A model stores the difference itself: `Unset`, or an age that
saturates at `AgeCap`. `AgeCapAssumption` demands that no compared duration
exceeds `AgeCap`, so saturation loses no comparison. What this abstracts away
is the wrap of `millis()` after 49.7 days (unsigned differences are immune to
it) and an instant that happens to be exactly 0. Where an instant may lie in
the *future* of the clock it is compared with, the age is negative and the wrap
of the unsigned difference is modelled (`DropTest!TimedOut`).

*Sensor samples.* A reading is a class per threshold the code compares it with
(`FlightCoordinator`) or a small integer (`DropTest`). `isfinite` tests are
merged into the validity flag of the reading's sensor. Samples are unrelated
from one iteration to the next, so every loss, return and spike is covered.

*Guarded code.* Operators take a controller record and return the record the
code leaves, in the order of the code; a variable holds one C++ object.
Operators marked "a plausible fault" are mutated forms of the operator below
them, used to show that each property can fail; no specification uses them.

### FlightCoordinator

`fc` is the `FlightCoordinator` object, `out` its last `CoordinatorOutput`.
`Step` is one call of `step` with its stages as operators: `Sensed` (failures
of airborne sensors with the fallbacks), `Tripped` (preflight tripwire),
`UpdateStateMachine`, `Latched` (what may follow a failure) and `Outputs`.
`Boot`/`Reboot` is the decision of `setup()` on the reset reason. History
variables record the evidence the properties are about.
Left out: the states `PRE_LAUNCH`, `ARMED` and `APOGEE_DETECT`, which nothing
enters; `launch_seen` and `apogee_seen`, which nothing reads; servo jitter,
whose input `main.cpp` never assigns. What `computeGuidance` commands is a
choice (`steers`): its value does not feed back into the coordinator.

### DropTest

`drop` is the `DropTestController` object with its output. An iteration of
`loop()` is `Iterate` (no command), `Arm` or `Abort`. `Arm` takes a `lead`, the
time from the stamp of the sample to the clock the command reads: the first
step of the new test sees an arm instant in its future.

`DropStages` is the abstract view of it: a test is idle, armed, released or
landed, and two observations are made between release and landing.
`DropTest!ImplementsStages` maps the nine states of the recorder to it (a
`LANDING_CANDIDATE` is still "released"; a rejected one therefore stutters). It says
nothing of the log: the history `seals` counts the outputs `publishDropTestOutput`
(`Published`) sealed the log for, and `EndSealsOnce` compares it with the tests that
ended.

### Steering and GuidedDrop

`Steering` is the law: demand (gain, deadband, authority), slew and reversal
guard over a record `law` that keeps what `RateLimiter` and `ReversalGuard`
keep. Commands, errors, heights and distances are integers; the configuration
of `MCGuidedDrop` counts commands in eighths of the authority, so that halving
it twice stays exact. Distance and heading error are inputs: the geometry on the
sphere is floating point.

`GuidedDrop` is the controller: `ctl` is the `GuidedDropController` object,
`out` its last output. `GuidedStep` is `step`, from the gates inwards
(`Spin`, `Navigate`, `Unguided`, `RunGuidance`). The recorder is its
environment, and appears as `DropStages`, which `DropTest` is proved to
implement; the sharing is assume-guarantee, not a copy of the recorder.
`since` is the time since `release_confirm_ms`. The recorder stamps it with the
clock of the sample, the controller compares it with the earlier clock of the
loop, so it may be negative (`Skews`), and the unsigned difference then counts
as "the deployment time is over" (`Deploying`). The model keeps that.

What is abstracted: the shipped configuration locks guided tests off
(`GUIDED_DROP_TEST_ENABLED` is false), the model is the unlocked build; the
authority is the one stage `armNow` is ever given; positions lie on a line with
the target at 0, which keeps jumps, final approach and the acceptance radius
apart; the target is valid and fixed, since arming demands it and `SET_TARGET`
is refused while recording. In the law the limits for missing sensors are left
out, as no caller computes a command without the sensors.

History (`seen`) records what the samples showed: how long navigation has been
good, how long no acceptable position was seen, how many plausible points
followed a jump, and the last turn.

### Payload

`Payload` composes the parts. An action is one iteration of `loop()` with one
command (or none: `Quiet`); `Polled` is what the timeouts do before the command,
`Continue` everything after it, in the order of the code: the recorder's step,
the coordinator's, tilt stabilizer (`TiltServiced`), retract test
(`RetractServiced`), guided drop, bench interlock (`BenchServiced`) and the
arbitration (`Owner`). `op` collects what the operator has set going (the
`lora_*` globals, the `TiltStabilizer` and the `ServoRetractTest`), `servos` who
had the servos in the last iteration and whether an interlocked retract test
forced them to neutral before the owner's command was written.

Coordinator and recorder are instances of their abstract specifications,
`FlightPhases` and `DropStages`, which `FlightCoordinator` and `DropTest` are
checked and proved to implement. A command reads the clock after
the sensors were read, up to `lead` after `loop()` did; ages count from the
clock of the iteration, so that an instant the command has just stored has the
age `-lead`, and `TiltServiced` and `RetractServiced` see the wrapped difference.
`RemoteMoves` is in turn what `Payload` looks like from the ground: whether it
records, whether it listens, which movement is going on and how long ago its last
command was. A step is an iteration; gates, phases, test controllers and recorder
are its choices (`accepts`, `ends`, `shut`). `ImplementsRemoteMoves` reads that state
off `op` and `stage` (`Underway`), with ages at the clock of the poll: `ahead` is a
history variable for how far that clock was ahead of the iteration's.
`booted` is there because the first iteration handles a command before the
coordinator's state was ever published.

Abstracted: how far an owner moves the servos (`Steering` and `Servo` have
that); sensors, attitude and servo health as choices, the servos attached; the
radio's poll interval and health as "no command"; `PING`, `SET_TARGET`, the log
commands and `START_NEUTRAL_DROP_TEST` as `Quiet`, since they change nothing of
this state; the verdict of the guided arm gate as a choice. The payload's Wi-Fi
servo test cannot run in the shipped configuration (`PAYLOAD_WIFI_ENABLED` is
false).

### Sensors

`imu`, `baro` and `gps` are the driver objects, `valid` is what `SensorManager`
publishes in `VehicleState`. An action is one `update`: what each device
delivers is a choice from `here`, the surroundings of the flight (a constant per
behaviour, so that a silent or a settled device can be spoken of). A unit of
time is longer than the reading intervals of the drivers; an update before its
time is one without a reading. `BaroUpdated` has the warm-up after a recovery,
the plausibility check against the last accepted altitude, the streak of bus
errors and the cooldown of the recovery; `GpsUpdated` the streak of plausible
fixes, the two deadlines of `invalidateStaleFix` and the power cycle, which
blocks the loop for `PowerCycle` while the ages of the other sensors run on.
Positions and altitudes are integers and a step is plausible up to `MaxStep`.
Left out: conversions, attitude, the derived quantities and `SIMULATION_MODE`.

### Servo

`servo` has the pulse and the target of each servo, `cal` the calibrations in
RAM, `nvs` what the store holds. An iteration is `Move` (an owner's commands,
clamped to the owner's ceiling, then `update`) or `Neutral` (the branches of the
arbitration that call `emergencyNeutral` and not `update`). `Move` with `forced` is
an iteration that calls `emergencyNeutral` before the arbitration lets an owner
move: a bench or a tilt movement that timed out (MP:1065, 1073), the interlocks of
bench and retract test (MP:644, 649), an abort (MP:985) and the refused, stopped or
unrelated commands of MP:1181, 1330, 1364 and 1374. The pulse then jumps to neutral
and moves on from there, which is what `MovesAreGradual` says. `since` is the time
since the last update: it grows through forced neutral, as in the code. The history
`last` has what the last iteration did, and for how long its command has been kept.

`CalibrateLeft`, `CalibrateRight`, `SaveCalibration` and `NeutralFromWeb` are the
steps of `handleConfigPost`. It runs in the task of the web server, so that `loop()`
may go on between any two of them, with one servo calibrated and the other not;
`web` is how far it is. A save whose store does not open is not noticed.
`Restart` is `begin`, and `LosePowerWhileSaving` leaves the first `k` of the ten
keys of `saveCalibration` written. A boot takes whatever the store holds if both
calibrations are valid: a mixture of two that happens to be valid, such as a new
neutral with the old direction, is restored like one that somebody set. No property
excludes that, since the code does not; `PulsesWithinEnds` includes such boots.
Pulses are integers in units in which each command is exact. Left out: the key
`S1_is_left` and the choice it stores, since commands are taken after that mapping;
and the interleaving of the two tasks within a step (`loop()` and the web task share
the calibrations and pulses without a lock, so that a torn copy is conceivable in
the code). In the shipped configuration the dashboard is off (`PAYLOAD_WIFI_ENABLED`
is false).

### FlashLog, DropLogSession, Records

`FlashLog` and `DropLogSession` are pure: operators over the record of a logger
and of a session. Every access to a storage has an outcome: it succeeds, is
refused, or writes less than asked for; `Records` chooses it, and `MaxTroubles`
bounds failures and restarts together (a boot that leaves its storage unmounted counts
as both). A test has an id, which the payload
counts from 1 after each boot, so that two tests may share it, and a run, a
history number that they do not. One frame is in the air at a time: a frame that
is not polled in time is lost, one that is polled twice is repeated.
`PollTelemetry` is `updateAutomaticDropLog` with everything it calls: the session's
decision, closing, opening and appending. Both sides mount with `SPIFFS.begin(true)`
(FL:20, MG:400), which formats a storage that does not mount and tries again: a
boot finds its storage as it was or empty, mounted or not, in all four combinations,
and a format takes every file of that side. `formats` counts them and has the last
run before the payload's. A frame's stamp stands for
`payload_time_ms` and `packet_sequence` together; that frames of different boots
differ in them is assumed. The records one handler writes together count as one
entry. `kept` and `faulty` are history: the frames of a test that were read by a
session without a fault since the ground's storage was last formatted, and whether
the current session has met one (its file did not open, or a row did not fit). A
fault ends with its session, so that a later test is not excused by an earlier one's.
One case is not another session: a payload that restarts and gives its id again
before the ground saw an end, since the code knows tests by their id alone. After
a fault the rows of that second test are lost with those of the first.

### Link

`payload` is the payload as `RemoteMoves` has it, and `PayloadPolls` one of its
steps (`Iterate`), with what its radio holds for a command; `PayloadRestarts` is
another. `late` is the time since the last one. So what `Link` takes for granted of
the payload is what `Payload` is proved to do, and not a second model of it: an
armed test ends a tilt test even when it is refused but leaves a manual brake to its
timeout, a movement on the bench may end with its gate at any time, and a restart
ends everything. `tested` is what `telemetryIntervalMs` needs besides.
`up` and `down` are what the two radios hold, `seen` what the ground knows
from telemetry, `hold` and `tilt` its two holds. `at` is the place in the ground's
loop and `sends` what its handler has yet to send: `AwaitSlot`, `SlotComes` and
`SlotFails` are `awaitPayloadReceiveSlot`, during which telemetry is polled but no
order is read and no repeat sent. A transmission overwrites what the payload has
not polled yet, or is lost; so may a frame be. Each order of the serial line or the
dashboard (`web`, where the two differ) is an action. Commands that only start a
movement on the payload that ends there by itself (`startneutral`,
`guidedprepare`, `retracttest`) are one, and so are those that move nothing.
Time passes in units of 500 ms; handlers take no time outside the wait. `Late`
bounds the time between two polls of the payload; nothing is assumed of it but that
there is such a bound.

## 3. Runs

| run | checks | result |
|---|---|---|
| `flight` | phases in order with the evidence of each, timeouts, fallbacks, brakes only in a healthy descent, `FlightPhases` is implemented, over whole flights with lost sensors, a pilot and a restart; timed waits end; evidence that held for its time, of a launch or of rest, is never left unheeded | hold |
| `drop_test` | milestones in order, each with its evidence, within the longest test; `DropStages` is implemented; each ended test sealed its log once; every recording ends | hold |
| `arm_times_out` | an accepted arm records (DROP_TEST_RECORDING.md:11) | violated: the unsigned difference of two clocks wraps |
| `guided_faults` | no steering before the gates, before a confirmed navigation or after a fault; a bounded time without an acceptable position; recovery after a jump | hold |
| `guided_turns` | with the course hold: the brakes move no faster than the slew rate and reverse only after the guard time, the hold ends in time | hold |
| `payload` | neutral servos in an inert recording; one movement of the operator at a time; none from the bench after the launch; none outlives its timeout; `RemoteMoves` is implemented | hold |
| `sensors` | a valid reading is accepted and fresh, continuous, withdrawn only for a cause; silent devices are set up again; good readings become valid and stay so | hold |
| `gps_locked_out` | a glitch of the GPS is recovered from (TEST_PLAN.md:68) | violated: a glitch that became the baseline rejects every later fix, also after the power cycle |
| `servo` | pulses within the ends, across owners, the steps of a calibration, cut-off saves and restarts; no jump between two moves but to a forced neutral; a kept command arrives in the time the slew rate needs from end to end | hold |
| `records` | no evidence is overwritten or lost but to a format at a boot; one row per frame; what a session without a fault received is kept; each test has a log; a log without counts has a cause | hold |
| `mirror_reopens` | the mirror closes at the end of a test (DROP_TEST_RECORDING.md:20) | violated: each later report of the end opens a file of one row |
| `link` | a movement is at most as old as its order, the waits, hold and timeout together; a recording stops the repeats; no handler sends for longer than two waits | hold |

More disagreements between code and documents were met while modelling. The
models have what the code does; no run states what the documents say.

*Flight and drop test*

- the launch vote may overtake the tripwire, so that a launch of an unready vehicle
  flies: the tripwire times its own confirmation from the moment readiness is lost
  (FC:148; FC:52 "enter fail-neutral instead of remaining stuck in SELF_TEST/PAD_SAFE");
- the failsafe is left for `LANDED` without the power cycle of
  SAFETY_STATE_MACHINE.md:41 (SM:43; `FlightPhases` allows it), and `SELF_TEST`
  has no exit to the failsafe and no timeout (SAFETY_STATE_MACHINE.md:31, SM:65);
- the release confirmation is timed from the IMU onset and not from the first
  falling sample (DROP_TEST_RESEARCH_TRACEABILITY.md:65, DC:91);
- the stable-descent window keeps its extremes until a sample is not quiet, so
  a steady descent after a faster quiet one is not reported (same file, :68,
  DC:140);
- a landing of the coordinator closes the log of a test that still records (MP:704;
  same file, :40 "local flash log open; servos neutral"; `Records!Land`);
- after a drop test no flight log is opened again (MP:344), and its
  neutral lock stays until the next guided test or a restart (MP:442).

*Guided drop*

- a spin returns before the GPS checks (GC:318), so navigation may be lost and come
  back within the confirmation unseen (GUIDED_DROP_RECOVERY_TEST.md:99 "must remain
  valid through the navigation confirmation interval");
- the first fix after a short GPS loss releases the brakes at once
  (same file, :105, GC:364); the limiter is not told of that nor of an idle phase, so
  that the steering comes back with about its old value at once
  (`config/guidance_config.h`:21 "max |Δcommand| per second"; `SteeringIsGradual` is
  about steering that goes on); recovery from a jump counts
  iterations, not fixes (same file, :161, GC:112); a command of exactly zero
  makes the reversal guard forget the last turn (AUTONOMOUS_FLIGHT.md:31,
  `logic/filters.h`:208).

*Bench and servos*

- a tilt test that is armed with the command's clock and stepped with the earlier
  clock of the loop expires at once (`logic/tilt_stabilizer.cpp`:72;
  IMU_BARO_GROUND_ROLL_STABILIZATION.md:81); the retract test skips its first phase
  the same way (`logic/servo_retract_test.cpp`:16);
- a retract test that was interlocked stays so and forces neutral in each iteration
  before the owner's command is written, in flight too, so that the servos stay
  within one slew step of neutral (MP:648; comments MP:400, 546);
- `ABORT_DROP_TEST` stops neither a tilt nor a retract test (MP:978;
  DROP_TEST_RECORDING.md:16 "commands neutral");
- the bench gate is open in a failsafe entered by the launch tripwire or after an
  unexplained reset, as `launch_ms` is 0 then (LAUNCH_AND_BENCH_RECOVERY_MODE.md:31,
  `logic/bench_servo_gate.h`:21);
- the branches that force neutral do not update the controller, and the first update
  after them takes the whole time as its step: the first move is not slewed
  (SC:107, MP:665; GROUND_TESTING.md:93 "Slew rate limiting prevents abrupt
  movements"; `MovesAreGradual` holds for one move after another);
- FIRMWARE_SUMMARY.md:94 has a slew rate of 400 µs/s, the code 800; the dashboard
  accepts calibrations that the next boot refuses for both servos, and a
  boot accepts a valid mixture of two that a cut-off save left (SC:331; see `Servo`);
- a bench or a tilt movement that times out snaps to neutral: `emergencyNeutral` is not
  slewed (MP:1065, 1073; GROUND_TESTING.md:93).

*Sensors*

- an altitude further than the limit from the last accepted one is rejected for
  ever, like a fix of the GPS: the baseline of the barometer does not age either;
- the conversions a warm-up discards still enter the moving mean of the altitude above
  ground (sensor_manager.cpp:208, BA:119); FIRMWARE_SUMMARY.md:129 has a deadline of 200 ms for the barometer, the code
  750; ARCHITECTURE.md:180 "no blocking waits", the power cycle of the GPS waits for
  650 ms.

*Records and link*

- a storage that does not mount at a boot is formatted, with every log of earlier
  flights or tests on it (FL:20, MG:400; DROP_TEST_RECORDING.md is silent on it, and
  FL:36 "must never cause the next file to overwrite a later retained run" is about
  the numbering); `EvidenceStays` exempts just that;
- a write to the log that is too short is counted like a full one, and not reported
  (FL:149 "must fail once"; `FlashLog!WriteEntry`);
- a payload that restarts during a test counts its ids from 1 again: the mirror
  goes on in the file of the earlier test of that id (`RowsAreOnce` is about
  ids, and holds);
- while a command waits for its slot the frame that ends the wait may report a
  recording; the movement still goes out, once (MG:437, DROP_TEST_RECORDING.md:24;
  `RecordingStopsMoves`). The payload refuses it then;
- the dashboard's servo, neutral and disable leave `bench_mode` on, so that a manual
  hold may be repeated as `BENCH_SERVO`; the serial line's `abortdrop` leaves the tilt
  hold repeating, its `armdrop` the manual one; at the idle rate of telemetry after a
  test the repeats come further apart than the bench timeout of the payload (MG:50);
- `DISABLE_REMOTE` ends the polling of commands until a restart, the abort of a running
  test included (MP:1379; `Link` has it as `enabled`).

*Bounds.* Durations are one to four units, with the order of the real ones, so
every timer can be unset, running, interrupted and expired. `LoopPeriods` and
`Ticks` `{1, 2}` let an iteration land on a deadline or jump over it. `MaxReboots = 1`
and `MaxTests = 2` allow state to survive from one life or test into the next,
which is all a second one could observe, as `Reset` and `Armed` write the whole
record. `AgeCap` is the longest duration compared. The sample sets are every
class that a guard of the code distinguishes, in the combinations that reach
it; `MCFlightCoordinator`, `MCDropTest` and
`MCGuidedDrop` list them. For the guided drop, `Positions` puts the target, the
final radius, a jump and a second jump within reach; `Faults` is everything that
can go wrong while turning one way, `Turns` every turn with the lapses that keep
the limiter running. `MaxGuidedTests = 1`: arming starts from `Fresh`, so a
second test could differ by the receiver's position alone. `LossBound` is the
loss time, the instability time before and after it, and one iteration for each.

For `payload` the timeouts are two or three units with the order of the real
ones, a tilt test can be refreshed beyond its duration, and `Leads` `{0, 1}`
lets the command's clock be equal to the iteration's or ahead of it. `AgeCap`
is past the longest bound `MovementsExpire` compares. `ahead` adds no case to the
other properties: it is a function of the last command's clock.

For `sensors` each deadline, streak and cooldown is two to four units and the
power cycle as long as two ticks, so that it can expire another sensor;
`MCSurroundings` disturbs one device at a time (all readings of it, the others
steady or silent), and in the last one the GPS is silent under a disturbed
barometer, the one pair that interacts: through the blocking. Altitudes and
positions 0 and 1 are plausible neighbours, 3 of neither. `servo` has calibrations
that are mirrored, narrow and beyond the ends, commands that reverse, and one
calibration per behaviour, with `loop()` and restarts between its steps and every prefix of a save; a command may cross the whole
travel, and `AgeCap` is the time that takes, with a refresh. `records` has three slots
for the logs of two boots and two tests, two entries and two rows, so that each of them runs out, two
tests, two troubles and three frames: a fault or a restart in each of two tests,
or two in one. `link` has two orders, one to move and one that meets it; a unit is
500 ms, so a frame, a repeat and the payload's poll are one unit each, the wait for
the slot is three of them and the timeouts one and two. The manual and the bench
hold have their real lengths; the tilt hold is shortened to the bench's, which is
four repeats. A movement can therefore be refreshed, expire between two
repeats, and outlast its hold.

*Fairness.* `FairSpec` assumes weak fairness of `Loop` alone: the Arduino core
calls `loop()` for ever and each call ends. `SensorsFairSpec`
says the same of the update. Nothing is assumed of the sensors or
of the operator; `ReadingsReturn` and `SilenceIsEnded` say what follows *if* the
readings stay good, the device stays silent. Where the code promises a time and not
just an end, the property is an invariant with the time in it, and needs no fairness
(`EvidenceIsHeeded`, `TimeoutsEnforced`, `CommandArrives`, `MovementsExpire`,
`SendsReturn`). In `Link` time waits for both loops instead (`Tick`): it does not pass
a poll of the payload that is overdue, a frame the wait has to see, or its end.

The deadlock check is off in `MCRecords`, whose bounds on frames and troubles end a
behaviour, and on everywhere else.

## 4. Proofs

All theorems hold for every value of the constants that the named assumptions of
their module allow (two need `LossAssumption` on top, see below); the samples, commands, readings and outcomes are arbitrary
sets of the right type. Each module proves an inductive invariant
(`Invariance`; `PayloadInvariant` and `Times` for the payload) and takes the
properties from it.

`FlightCoordinatorProofs` (from `TimesAssumption`, `AgeCapAssumption`,
`SamplesAssumption`, `AgeCapIsNat`) proves every safety property of `flight`,
a few the run does not check (types, the latched failure, the closing of the log), and that every behaviour implements
`FlightPhases`. Each helper has a lemma on its type. The invariant then
strengthens `TypeOK`: `PhasesInOrder` and `TimeoutsEnforced` are about values that
several stages of one step write one after the other, and none is preserved
without knowing which states a latched failure may leave the coordinator in, and
that the history of the evidence is at least as old as the condition timer. Each
stage therefore has a lemma on what it may change, and the step composes them.
`RecognitionHolds` (`EvidenceIsHeeded`) needs the converse, that the condition timer is
no younger than the evidence (`Heeded`): no branch of the step, no failure and no
fallback may restart the timer of a condition that holds on. A launch or a rest that
was seen for its confirmation time has then moved the state in that very step.

`DropTestProofs` (from `DropConfigAssumption`, `AgeCapIsNat`) proves `TypeOK`,
`MilestonesInOrder` (with it, that no recording is older than the longest test),
that the recorder implements `DropStages`, and `EndSealsOnce` (`SealedOnce`): each of the ways out of a recording, and none of the
steps before and after it, closes the log. The invariant
says in which of four shapes (idle, armed, released, ended) the record is, with
the milestones each shape claims and the state a landing candidate came from; a
rejected candidate needs the last. One lemma per transition of `step` says from
which shape to which it goes, and the refinement reads the stage off the shape.
`MilestonesHadEvidence` relates the windows of the controller to the runs of the
history: behind an open window that is within its range stands a run at least as long
and as wide (`Witnessed`); a window that is too wide has lost its run, but it only
grows until a sample that is not quiet closes it, and is never an observation.

`GuidedDropProofs` (from `GuidedAssumption`, `AgeCapIsNat`) proves the types,
`SteersOnlyAfterGates` and `FirstSteeringIsConfirmed`. The second needs that the
age of the navigation candidate of a test that has not steered never exceeds the
uninterrupted run of fixes in the history (`CandidateIsSeen`), although spins
leave the candidate alone. `SteersSlowly` (`SteeringIsGradual`) rests on
`Turning`: the sign the reversal guard remembers is the direction of the last
command that was not neutral, and the guard takes the turn to be no older than it
is; `LawStep` sums up what any branch of a step does to the law. That the slope is kept
rests on the same invariant: a turn the guard refuses runs the limiter twice in one
iteration, and the two runs together stay within one step only because the sign the
guard remembers is that of the limiter (`Guarded`). `JumpsRecover`
(`JumpNeedsRecovery`) needs that the count of plausible points is no larger than
what the samples showed since the jump (`Doubting`), and that no branch of the step
moves the position without them (`Position`). `LossEnds` and `HoldEnds`
(`LossIsBounded`, `CourseHoldIsBounded`) have an invariant of their own (`LossInv`):
the loss timer runs on through a spin and latches the fault in the first iteration
without one that finds the loss time over, and a spin that outlasts its own time
latches it at once, so the time without a position is bounded by the two timers
together (`Losing`). They are theorems of every configuration and timing that satisfies
`LossAssumption`: iterations have a longest time, the recorder's clock is ahead of
the loop's by no more than the navigation takes to be confirmed, and a course hold is
shorter than the loss time (1500 ms and 2000 ms in `config.h`; the instances that
are checked satisfy it too).

`PayloadProofs` (from `PayloadAssumption`, any timeouts, loop periods and leads;
`TicksAreBounded` and `AgeCapIsNat`) proves `PayloadTypeOK` and all
properties of `payload`. `OneMovement` is not inductive: `MANUAL_BRAKE` does not
end a bench command. It is exclusive with it only because a healthy glide was
launched, so that the gate is closed, and a closed gate has ended every bench
movement in an earlier iteration; `PayloadInv` says just that. Each command has a
lemma on the settings it leaves (`Ready`), `LoopHandles` reduces every command to
`Continue`, and `ContinueKeepsInv` and `ContinueOwns` are about the rest of the
iteration, once for all commands. `MovementsExpire` has an invariant of its own
(`TimesInv`): the time since the last grant is never more than a lead past the age
of the movement that stands behind the owner, and for the retract test never more
than the phases it has passed.

`ImplementsRemote` is the refinement of `RemoteMoves`. Its image of two movements that
are on together would be wrong, so it rests on `PayloadInv` again, with two
conjuncts more (`Heard`): no test records while a tilt test is requested (`Inert`;
arming ends it even when it is refused), and the clock of the poll is ahead by a
lead. `Effect` says once, for every command, what `Polled`
and the command do to the image; `EffectIsHeeded` adds the rest of the iteration. The
theorem is stated twice: `CommandsAreHeeded` says which command is which step of
`RemoteMoves`, with which gate for its choice.

`SensorsProofs` (from `SensorsAssumption`, `AgeCapIsNat`) proves the types,
`NoStaleReading`, `ReadingsAreContinuous` and `WithdrawnForCause`. What a driver
calls valid has exactly one baseline, the reading itself, and for the GPS the
whole streak behind it; a recovery clears the baseline only with the validity.

`ServoProofs` (from `ServoAssumption`, `AgeCapIsNat`) proves the types,
`PulsesWithinEnds`, `MovesAreGradual` and `CommandArrives`, for any
calibrations the dashboard lets through: those it sets keep the ends of the compiled
one and have their neutral between them (`Accepted`). The ends are therefore the same
in RAM, in the store and in every mixture of them (`EndsStay`, `RestoredIsAccepted`), so
that a pulse stays within them although its calibration changes under it. For the last, the way a servo has left and
what the slew rate grants for the time of the kept command that updates have used add
up to no more than the way from end to end (`UnderWay`); time an update has not used
yet is in `since`, which is why the bound has one `Refresh` on top.

`LinkProofs` (from `LinkAssumption`, `AgeCapIsNat`) proves the types,
`MovementsHaveAnOperator`, `RecordingStopsMoves` and `SendsReturn`. For
`RecordingStopsMoves`, a message that moves is only ever the last of its handler, and a handler that would send another looks at
the recording again.
`MovementsHaveAnOperator` (`OperatorMoves`) has the invariant `Watching`: how old the
order may be in the queue behind its STOP, in the wait for the slot, while its hold
lasts (age and what is left of the hold add up), in the payload's radio and as a
movement. With `ImplementsRemote` it is a statement about both programs: the payload's
steps in `Link` are those of `RemoteMoves` with `Delays` `0 .. Late`, and no lemma of
`LinkProofs` looks behind it. No recency is lost where a hold of the previous order is
still on while the new order waits, because it only counts again once the new hold has
begun. `SendsReturn` (`HandlersReturn`) bounds the time a handler sends by its wait and
one before it (`Sending`), and needs from `Watching` that no handler queues more than a
STOP and one message.

`RecordsProofs` (from `FlashLogAssumption`, `RecordsAssumption`) proves the types
and all properties of `records`. On the payload's side
`Keeps` says what an operation may do to the directory: only the open log changes,
no log changes its run, and what is open afterwards was open before or is new; it
is transitive, so a handler is the composition of its operations. On the ground's
side `ReceivedIsKept` is not inductive: a frame may be refused as a repetition
because the session has seen its stamp. `MirrorGood` adds that the frame in the
air, if the session remembers its stamp, was kept or the session met a fault, and that a session that wants rows and has no
open file has met a fault; that no stamp of the session is newer than the
frame in the air (`SessionGood`) makes a new frame new to it. `UnsealedForCause` is
about a count, and counting logs is not inductive either: an entry that failed has
had its trouble, although its log is given up only later, when the limit of entries
counts it and the file lacks it. `Cost` is therefore the number of logs given up
plus the entries the open log counts and does not hold; `CostsInv` says that it
never exceeds the troubles, and each operation of the log has a lemma on what it
adds (`EntryCosts`, `EndCosts`, `StartCosts`).

Model-checked only: liveness (`WaitsEnd`, `RecordingEnds`,
`SilenceIsEnded`, `ReadingsReturn`), because fairness and ENABLED are beyond the
prover. Every other property of a passing run is also a theorem.

## 5. Not modelled

- The ring buffer: every event is written to it and nobody reads it; the watchdog,
  whose `begin` calls `enable` before it counts as initialised, so that it is never
  enabled; the health monitor, which only reports; the failsafe class, which `main.cpp`
  does not instantiate; the state estimator, floating-point filtering without control
  state.
- The confirmation window of the guided arm gate: the shipped unlocks keep it shut,
  and what it grants is a choice in `Payload` and `Link`.
- The payload's Wi-Fi but for the calibration of the servos: it is disabled before
  the landing in the shipped configuration. Noticed and left aside: it goes on
  during a later armed test, its start may block the loop for seconds, and an access
  point that is found unhealthy gets a second server.
- The reading side of the flash log and `clearAll`, the file downloads, the pages and
  status texts, the choice of a home position on the ground.
- Arithmetic: attitude, filters, distances on the sphere, the conversions of the
  barometer, the control law of the tilt stabilizer, packet encodings and checksums
  (a corrupted packet counts as lost).
- The bench diagnostics and the host tools, separate programs without control.
