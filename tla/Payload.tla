------------------------------- MODULE Payload -------------------------------
(***************************************************************************)
(* The payload as a whole: loop() of main.cpp with the commands of the      *)
(* remote operator (updateLoRaRemoteControl), the two bench controllers     *)
(* (logic/tilt_stabilizer.cpp, logic/servo_retract_test.cpp), their gate    *)
(* (logic/bench_servo_gate.h) and the arbitration of the two servos.  The   *)
(* flight coordinator and the drop-test recorder appear by what they        *)
(* promise (FlightPhases, DropStages).                                      *)
(*                                                                          *)
(* Servos are attached (setup); how far an owner moves them is left to the  *)
(* modules of the owners.  A command is handled at a clock that is "lead"   *)
(* ahead of the clock of its iteration, because the sensors are read in     *)
(* between; ages are taken against the clock of the iteration, so that an   *)
(* instant the command has just stored may lie ahead of it.                 *)
(***************************************************************************)
EXTENDS DropStages, Ages

CONSTANTS
  ManualTimeout, BenchTimeout, TiltTimeout,   \* how long a command is good for
  TiltDuration,                \* how long a tilt test may last
  ExtendHold, RetractSettle,   \* the phases of the retract test
  Ticks,                       \* the possible times between two iterations
  Leads                        \* the possible times from loop() to a command

ASSUME PayloadAssumption ==
  /\ {ManualTimeout, BenchTimeout, TiltTimeout, TiltDuration, ExtendHold,
      RetractSettle} \subseteq Nat \ {0}
  /\ Ticks \subseteq Nat \ {0} /\ Leads \subseteq Nat
  /\ \A lead \in Leads :
       {ManualTimeout + lead, BenchTimeout + lead, TiltTimeout + lead} \subseteq 0 .. AgeCap

\* A command is handled before the next iteration begins.
ASSUME LeadsAreShort == \A lead \in Leads, t \in Ticks : lead <= t

ASSUME TicksAreBounded == \E late \in Ticks : \A t \in Ticks : t <= late

VARIABLES
  phase, faulted,   \* the flight, as FlightPhases has it
  booted,     \* loop() has published the flight state at least once
  launched,   \* launch_ms is set
  op,         \* what the operator has set going
  lock,       \* drop_test_neutral_lock
  guided,     \* guided_drop_requested
  log,        \* the flash log is open
  servos,     \* who had the servos, and whether they were forced to neutral as well
  told,       \* history: time since a movement was last asked for and granted
  ahead       \* history: the lead of the last command

payloadVars ==
  <<stageVars, phase, faulted, booted, launched, op, lock, guided, log, servos,
    told, ahead>>

\* The brakes of the coordinator are one owner of the servos here, and its log
\* is closed by the landing.
Flight == INSTANCE FlightPhases
            WITH braking <- FALSE, logOpen <- phase # "landed"

Phases == {"pad", "ascent", "deploying", "gliding", "failsafe", "landed"}

-----------------------------------------------------------------------------
(* What the operator has set going.                                         *)

Off         == [on |-> FALSE, age |-> 0]
Asked(lead) == [on |-> TRUE, age |-> -lead]
Movement    == {Off} \cup [on : {TRUE}, age : Int]

\* The retract test moves the servos in these phases, each with its successor
\* and its duration.
Moving       == {"EXTEND1", "RETRACT1", "EXTEND2", "RETRACT2"}
RetractPhase == Moving \cup {"IDLE", "COMPLETE", "INTERLOCKED"}
Successor ==
  [EXTEND1 |-> "RETRACT1", RETRACT1 |-> "EXTEND2", EXTEND2 |-> "RETRACT2",
   RETRACT2 |-> "COMPLETE"]
Duration(ph) == IF ph \in {"EXTEND1", "EXTEND2"} THEN ExtendHold ELSE RetractSettle

Operator ==
  [enabled : BOOLEAN,     \* lora_remote_runtime_enabled
   locked  : BOOLEAN,     \* lora_tilt_stabilizer_restart_locked
   manual  : Movement,    \* since MANUAL_BRAKE: lora_remote_manual_active
   bench   : Movement,    \* since BENCH_SERVO: lora_bench_servo_active
   request : Movement,    \* since START_TILT: lora_tilt_stabilizer_requested
   armed   : Movement,    \* since TiltStabilizer::arm
   retract : RetractPhase,
   since   : Int]         \* since the phase of the retract test began

NoOperator ==
  [enabled |-> TRUE, locked |-> FALSE, manual |-> Off, bench |-> Off,
   request |-> Off, armed |-> Off, retract |-> "IDLE", since |-> 0]

Grown(m, dt) == IF m.on THEN [m EXCEPT !.age = @ + dt] ELSE m

Aged(o, dt) ==
  [o EXCEPT !.manual = Grown(@, dt), !.bench = Grown(@, dt),
            !.request = Grown(@, dt), !.armed = Grown(@, dt),
            !.since = IF o.retract \in Moving THEN @ + dt ELSE 0]

\* A plausible fault: a movement is over only after its timeout.
OverLate(m, timeout, lead) == m.on /\ m.age + lead > timeout

\* Is a movement, at the command's clock, past its timeout?
Over(m, timeout, lead) == m.on /\ m.age + lead >= timeout

\* A plausible fault: the bench command does not expire.
ExpiredButBench(o, lead) ==
  LET stopped == Over(o.request, TiltTimeout, lead)
  IN  [o EXCEPT !.manual  = IF Over(@, ManualTimeout, lead) THEN Off ELSE @,
                !.request = IF stopped THEN Off ELSE @,
                !.armed   = IF stopped THEN Off ELSE @]

\* Movements end before a command is looked for, with or without a link.
Expired(o, lead) ==
  LET stopped == Over(o.request, TiltTimeout, lead)
  IN  [o EXCEPT !.manual  = IF Over(@, ManualTimeout, lead) THEN Off ELSE @,
                !.bench   = IF Over(@, BenchTimeout, lead) THEN Off ELSE @,
                !.request = IF stopped THEN Off ELSE @,
                !.armed   = IF stopped THEN Off ELSE @]

Polled(dt, lead) == Expired(Aged(op, dt), lead)

DirectStopped(o)  == [o EXCEPT !.manual = Off, !.bench = Off]
TiltStopped(o)    == [o EXCEPT !.request = Off, !.armed = Off]
RetractStopped(o) == [o EXCEPT !.retract = "IDLE", !.since = 0]
Unlocked(o)       == [o EXCEPT !.locked = FALSE]
TestsStopped(o)   == TiltStopped(RetractStopped(o))
Silenced(o)       == Unlocked(TestsStopped(DirectStopped(o)))

\* A plausible fault: a tilt test starts beside a bench command.
TiltStartedBeside(o, lead) ==
  [RetractStopped(o) EXCEPT !.request = Asked(lead),
                            !.armed = IF @.on THEN @ ELSE Asked(lead)]

\* A test that is armed already is refreshed, and keeps its beginning.
TiltStarted(o, lead) ==
  [RetractStopped(DirectStopped(o))
     EXCEPT !.request = Asked(lead), !.armed = IF @.on THEN @ ELSE Asked(lead)]

\* start(): a closed gate leaves the test interlocked.
RetractStarted(o, open, lead) ==
  [Unlocked(TiltStopped(DirectStopped(o)))
     EXCEPT !.retract = IF open THEN "EXTEND1" ELSE "INTERLOCKED",
            !.since   = IF open THEN -lead ELSE 0]

-----------------------------------------------------------------------------
(* The rest of an iteration: recorder, coordinator, bench controllers, and   *)
(* the arbitration.                                                          *)

\* Plausible faults: the gate forgets the recording, or the launch.
GateIgnoresRecording(recording, ph, flew) == ph \in {"pad", "failsafe"} /\ ~flew
GateIgnoresLaunch(recording, ph, flew) == ph \in {"pad", "failsafe"} /\ ~recording

\* benchServoTestAllowed; "armed" is the recording as well.  The failsafe is a
\* bench state, as long as no launch was detected.
GateOpen(recording, ph, flew) == ph \in {"pad", "failsafe"} /\ ~recording /\ ~flew

Gate == GateOpen(stage # "idle", phase, launched)

\* TiltStabilizer::update, and the lock loop() adds to an expired test.  The
\* unsigned age of an instant that lies ahead of the clock is enormous.
TiltServiced(o) ==
  IF ~o.armed.on THEN o
  ELSE IF ~o.request.on \/ o.request.age >= TiltTimeout THEN [o EXCEPT !.armed = Off]
  ELSE IF o.armed.age < 0 \/ o.armed.age >= TiltDuration
       THEN [TiltStopped(o) EXCEPT !.locked = TRUE] ELSE o

\* ServoRetractTest::step.
RetractServiced(o, open) ==
  IF o.retract \notin Moving THEN o
  ELSE IF ~open THEN [o EXCEPT !.retract = "INTERLOCKED", !.since = 0]
  ELSE IF o.since < 0 \/ o.since >= Duration(o.retract)
       THEN [o EXCEPT !.retract = Successor[@], !.since = 0] ELSE o

BenchServiced(o, open) == IF open THEN o ELSE [o EXCEPT !.bench = Off]

Serviced(o, open) == BenchServiced(RetractServiced(TiltServiced(o), open), open)

\* Who gets the servos.  steady: the sensors and the attitude allow the tilt
\* test to move; steers: the guided controller commands; able: the coordinator
\* lets a pilot steer.
Owner(o, open, neutral, steers, steady, able) ==
  IF o.bench.on /\ open THEN "bench"
  ELSE IF o.retract \in Moving /\ open THEN "retract"
  ELSE IF neutral THEN "neutral"
  ELSE IF steers THEN "guided"
  ELSE IF o.request.on THEN IF o.armed.on /\ open /\ steady THEN "tilt" ELSE "neutral"
  ELSE IF o.manual.on /\ able THEN "remote" ELSE "autonomous"

\* The coordinator takes a step of the flight, or none.
FlightStep ==
  /\ \/ UNCHANGED <<phase, faulted>>
     \/ \E ph \in Phases, f \in BOOLEAN :
          /\ phase' = ph /\ faulted' = f
          /\ Flight!Advance \/ Flight!Fault \/ Flight!Land
  /\ booted' = TRUE
  /\ launched' = (launched \/ phase' = "ascent")

Lands == phase # "landed" /\ phase' = "landed"

\* o, wants, open: the operator's settings, guided_drop_requested and the log
\* as the command leaves them; began: a test was armed in this iteration.  The
\* recorder has already taken its step: it may have ended what just began.
Continue(o, wants, open, began) ==
  LET recording == stage # "idle" \/ began
  IN  /\ FlightStep
      /\ guided' = (wants /\ stage' # "idle")
      /\ log' = (open /\ ~(recording /\ stage' = "idle") /\ ~Lands)
      /\ op' = Serviced(o, GateOpen(stage' # "idle", phase', launched'))
      /\ \E steers \in {FALSE, guided' /\ stage' = "released" /\ canopy' /\ stable'},
            steady \in {FALSE, phase' = "pad"},
            able \in {FALSE, phase' = "gliding" /\ ~faulted'} :
           /\ lock' = IF guided' THEN ~steers ELSE lock \/ recording
           /\ servos' = [owner  |-> Owner(op', GateOpen(stage' # "idle", phase', launched'),
                                          faulted' \/ phase' \in {"failsafe", "landed"} \/ lock',
                                          steers, steady, able),
                         forced |-> op'.retract = "INTERLOCKED"]

RecorderStep == ReleaseTest \/ Observe \/ EndTest \/ UNCHANGED stageVars

\* An iteration whose command leaves recorder and log alone.
Ordinary(o) ==
  RecorderStep /\ Continue(o, guided, log, FALSE)

Granted(dt, granted) == told' = IF granted THEN 0 ELSE Later(told, dt)

-----------------------------------------------------------------------------
(* One iteration of loop() for each command.                                 *)

\* No command, or one that sets nothing going: PING, SET_TARGET, the log
\* commands and the marker START_NEUTRAL_DROP_TEST.
Quiet(dt, lead) == Ordinary(Polled(dt, lead)) /\ Granted(dt, FALSE)

Neutral(dt, lead) == Ordinary(Silenced(Polled(dt, lead))) /\ Granted(dt, FALSE)

BenchServo(dt, lead) ==
  /\ Ordinary(IF Gate THEN [Silenced(Polled(dt, lead)) EXCEPT !.bench = Asked(lead)]
              ELSE [Polled(dt, lead) EXCEPT !.bench = Off])
  /\ Granted(dt, Gate)

\* MANUAL_BRAKE; sane: IMU or barometer valid, and not in the flare.
ManualBrake(dt, lead) ==
  \E sane \in BOOLEAN :
    LET safe == sane /\ phase = "gliding" /\ ~faulted /\ stage = "idle"
    IN  /\ Ordinary(IF safe THEN [TestsStopped(Polled(dt, lead)) EXCEPT !.manual = Asked(lead)]
                    ELSE [Polled(dt, lead) EXCEPT !.manual = Off])
        /\ Granted(dt, safe)

\* START_TILT_STABILIZER; sane: IMU and barometer valid and fresh.
StartTilt(dt, lead) ==
  \E sane \in BOOLEAN :
    LET safe == sane /\ ~op.locked /\ booted /\ phase = "pad" /\ Gate
    IN  /\ Ordinary(IF safe THEN TiltStarted(Polled(dt, lead), lead)
                    ELSE TiltStopped(Polled(dt, lead)))
        /\ Granted(dt, safe)

StopTilt(dt, lead) ==
  Ordinary(Unlocked(TiltStopped(Polled(dt, lead)))) /\ Granted(dt, FALSE)

StartRetract(dt, lead) ==
  Ordinary(RetractStarted(Polled(dt, lead), Gate, lead)) /\ Granted(dt, Gate)

Disable(dt, lead) ==
  Ordinary([Silenced(Polled(dt, lead)) EXCEPT !.enabled = FALSE]) /\ Granted(dt, FALSE)

\* PREPARE_GUIDED_DROP_TEST, CONFIRM_CANOPY_READY, and an arm request that is
\* refused stop the tests but not the rest.
StopTests(dt, lead) == Ordinary(TestsStopped(Polled(dt, lead))) /\ Granted(dt, FALSE)

\* What loop() last published lets a test be armed; the sensors, the battery
\* and the locks of a guided test are the environment's.
Armable == stage = "idle" /\ ~(booted /\ faulted)

\* ARM_DROP_TEST, or ARM_GUIDED_DROP_TEST, which needs an open log.  The test
\* has a log of its own, and the recorder may end it in the same iteration.
ArmDropTest(dt, lead) ==
  \E wants \in BOOLEAN :
    /\ Armable /\ (wants => log)
    /\ ArmTest \/ UNCHANGED stageVars
    /\ Continue(TestsStopped(Polled(dt, lead)), wants, TRUE, TRUE)
    /\ Granted(dt, FALSE)

\* The log is closed, but no other can be opened: the request is refused.
ArmWithoutLog(dt, lead) ==
  /\ Armable /\ UNCHANGED stageVars
  /\ Continue(TestsStopped(Polled(dt, lead)), FALSE, FALSE, FALSE)
  /\ Granted(dt, FALSE)

\* abortDropTest ends the recording, if there is one.
Abort(dt, lead) ==
  /\ \/ EndTest
     \/ stage = "idle" /\ UNCHANGED stageVars
  /\ Continue(DirectStopped(Polled(dt, lead)), FALSE, log, FALSE)
  /\ Granted(dt, FALSE)

Loop ==
  \E dt \in Ticks, lead \in Leads :
    /\ \/ Quiet(dt, lead)
       \/ /\ op.enabled
          /\ \/ Neutral(dt, lead) \/ BenchServo(dt, lead) \/ ManualBrake(dt, lead)
             \/ StartTilt(dt, lead) \/ StopTilt(dt, lead) \/ StartRetract(dt, lead)
             \/ StopTests(dt, lead) \/ ArmDropTest(dt, lead) \/ ArmWithoutLog(dt, lead)
             \/ Abort(dt, lead) \/ Disable(dt, lead)
    /\ ahead' = lead

\* setup(): everything but the flash is lost; the log may fail to open.
Boot(ph, f, l) ==
  /\ Flight!Start(ph, f, FALSE, TRUE)
  /\ l \in BOOLEAN

PayloadInit ==
  /\ StagesInit
  /\ phase \in Phases /\ faulted \in BOOLEAN /\ log \in BOOLEAN
  /\ Boot(phase, faulted, log)
  /\ booted = FALSE /\ launched = FALSE
  /\ op = NoOperator
  /\ lock = FALSE /\ guided = FALSE
  /\ servos = [owner |-> "neutral", forced |-> FALSE]
  /\ told = Unset /\ ahead = 0

Reboot ==
  /\ stage' = "idle" /\ canopy' = FALSE /\ stable' = FALSE
  /\ phase' \in Phases /\ faulted' \in BOOLEAN /\ log' \in BOOLEAN
  /\ Boot(phase', faulted', log')
  /\ booted' = FALSE /\ launched' = FALSE
  /\ op' = NoOperator
  /\ lock' = FALSE /\ guided' = FALSE
  /\ servos' = [owner |-> "neutral", forced |-> FALSE]
  /\ told' = Unset /\ ahead' = 0

PayloadNext == Loop \/ Reboot

PayloadSpec == PayloadInit /\ [][PayloadNext]_payloadVars
-----------------------------------------------------------------------------
(* Properties.                                                              *)

\* Every variable has its type; what is off has no age.
PayloadTypeOK ==
  /\ stage \in {"idle", "armed", "released", "landed"}
  /\ {canopy, stable, faulted, booted, launched, lock, guided, log} \subseteq BOOLEAN
  /\ phase \in Phases
  /\ op \in Operator
  /\ servos \in [owner : {"bench", "retract", "neutral", "guided", "tilt", "remote",
                          "autonomous"}, forced : BOOLEAN]
  /\ told \in Timer /\ ahead \in Leads \cup {0}

\* The servos stay neutral throughout a recording that is not a guided test,
\* whatever the operator had set going before or sends meanwhile, and in
\* whatever state the flight coordinator is.
InertTestIsNeutral == stage # "idle" /\ ~guided => servos.owner = "neutral"

\* At most one movement of the operator is going on: each command stops the
\* others, or they cannot have outlived the state it needs.
Exclusive(o) ==
  /\ o.manual.on => ~o.bench.on /\ ~o.request.on /\ o.retract \notin Moving
  /\ o.bench.on => ~o.request.on /\ o.retract \notin Moving
  /\ o.request.on => o.retract \notin Moving
  /\ o.request.on <=> o.armed.on

OneMovement == Exclusive(op)

\* No bench movement survives the iteration that detects the launch.
BenchEndsAtLaunch == launched => servos.owner \notin {"bench", "retract", "tilt"}

\* A movement needs an operator: none drives the servos longer than its
\* timeout after it was last granted, and the retract test not longer than its
\* four phases, each of which may end one iteration late.
MovementsExpire ==
  LET Within(timeout) == \E lead \in Leads : told - lead < timeout
      late == CHOOSE t \in Ticks : \A u \in Ticks : u <= t
  IN  /\ servos.owner = "bench"   => Within(BenchTimeout)
      /\ servos.owner = "remote"  => Within(ManualTimeout)
      /\ servos.owner = "tilt"    => Within(TiltTimeout) /\ ~op.locked
      /\ servos.owner = "retract" => Within(2 * (ExtendHold + RetractSettle) + 4 * (late - 1))

\* The payload as the other end of the radio link has to see it, at the clock of
\* the last poll.
Underway ==
  IF op.manual.on THEN [kind |-> "MANUAL_BRAKE", age |-> op.manual.age + ahead]
  ELSE IF op.bench.on THEN [kind |-> "BENCH_SERVO", age |-> op.bench.age + ahead]
  ELSE IF op.request.on THEN [kind |-> "START_TILT", age |-> op.request.age + ahead]
  ELSE [kind |-> "nothing", age |-> 0]

Remote == INSTANCE RemoteMoves
            WITH Timeout <- [MANUAL_BRAKE |-> ManualTimeout, BENCH_SERVO |-> BenchTimeout,
                             START_TILT |-> TiltTimeout],
                 Delays  <- {t + l - k : t \in Ticks, l \in Leads, k \in Leads \cup {0}},
                 payload <- [recording |-> stage # "idle", enabled |-> op.enabled,
                             move |-> Underway.kind, age |-> Underway.age]

\* To the operator the payload is one movement at a time with a timeout, and nothing
\* the gates, the flight, the tests or the recorder do makes it last longer or start
\* without a command.
ImplementsRemoteMoves == Remote!MovesSpec

=============================================================================
