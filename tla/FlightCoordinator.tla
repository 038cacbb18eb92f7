-------------------------- MODULE FlightCoordinator --------------------------
(***************************************************************************)
(* The flight controller of the payload: logic/flight_coordinator.cpp and   *)
(* the pure state machine it drives, logic/state_machine.cpp.  One Step is  *)
(* one call of FlightCoordinator::step from loop(): the failures of the     *)
(* airborne sensors are latched, the preflight launch tripwire runs, the    *)
(* state machine is updated, its result is latched, and the outputs are     *)
(* derived.  Sensor readings are abstracted to the thresholds the code      *)
(* compares them with; the instants the code stores (0 when unset) are      *)
(* abstracted to ages, the time elapsed since them.                         *)
(***************************************************************************)
EXTENDS Ages, FiniteSets

CONSTANTS
  LaunchConfirm,      \* launch_confirm_ms
  ApogeeConfirm,      \* apogee_confirmation_time_ms
  DeploymentWait,     \* deployment_wait_ms
  MinStabilization,   \* min_stabilization_time_ms
  MaxStabilization,   \* max_stabilization_time_ms
  LandedConfirm,      \* landed_confirm_ms
  GpsLossTimeout,     \* gps_loss_timeout_ms
  FlareEnabled,       \* both flare opt-ins of the build
  Samples,            \* the sensor samples the environment may present
  LoopPeriods,        \* the possible times between two calls of step
  MaxReboots          \* bound: restarts of the processor in a behaviour

-----------------------------------------------------------------------------
(* Sensor samples.  Each field is one comparison class of the reading.      *)

VerticalSpeeds == {"climb", "rise", "hover", "settle", "sink", "descend"}
Altitudes      == {"ground", "low", "mid", "high"}
Rates          == {"calm", "swing", "spin"}

Sample == [gps : BOOLEAN, imu : BOOLEAN, baro : BOOLEAN, servo : BOOLEAN,
           target : BOOLEAN, vs : VerticalSpeeds, alt : Altitudes,
           thrust : BOOLEAN, slow : BOOLEAN, near : BOOLEAN, rate : Rates,
           remote : BOOLEAN]

Falling(s)      == s.vs \in {"settle", "sink", "descend"}    \* vs < 0
Still(s)        == s.vs \in {"hover", "settle"}              \* |vs| < landed_vs
LaunchAlt(s)    == s.alt \in {"mid", "high"}                 \* > launch_alt_delta

ASSUME TimesAssumption ==
  /\ LaunchConfirm \in Nat \ {0} /\ ApogeeConfirm \in Nat \ {0}
  /\ DeploymentWait \in Nat \ {0}
  /\ MinStabilization \in Nat \ {0} /\ MaxStabilization \in Nat \ {0}
  /\ LandedConfirm \in Nat \ {0} /\ GpsLossTimeout \in Nat \ {0}
  /\ FlareEnabled \in BOOLEAN
  /\ LoopPeriods \subseteq Nat \ {0}
  /\ MaxReboots \in Nat

ASSUME AgeCapAssumption ==
  \A t \in {LaunchConfirm, ApogeeConfirm, DeploymentWait, MinStabilization,
            MaxStabilization, LandedConfirm, GpsLossTimeout} : t <= AgeCap

ASSUME SamplesAssumption == Samples \subseteq Sample

-----------------------------------------------------------------------------
(* States, failures and the coordinator object.                             *)

Preflight == {"BOOT", "SELF_TEST", "PAD_SAFE"}
Guided    == {"GUIDED_DESCENT", "FINAL_APPROACH"}
Airborne  == {"ASCENT", "APOGEE_CONFIRMED", "DEPLOYMENT_WAIT",
              "PARAFOIL_STABILIZATION", "FLARE"} \cup Guided
Descent   == Guided \cup {"FLARE", "FAILSAFE_DESCENT"}
FlightState == Preflight \cup Airborne \cup {"LANDED", "FAILSAFE_DESCENT"}

FailCode == {"NONE", "IMU", "BAROMETER", "GPS_TIMEOUT", "NAV_INVALID", "SERVO",
             "SENSOR_DATA", "STABILIZATION_TIMEOUT", "REBOOT_UNCERTAIN"}

Coordinator ==
  [state : FlightState, failure : FailCode,
   entry : Age,           \* since state_entry_ms
   condition : Timer,     \* since condition_since_ms
   gpsLoss : Timer,       \* since gps_loss_since_ms
   attempt : Timer,       \* since preflight_launch_attempt_since_ms_
   blocked : BOOLEAN,     \* preflight_launch_blocked_
   logClosed : BOOLEAN,   \* log_closed_
   stamped : SUBSET FlightState]  \* the states timestamps_ has an instant of

Reset ==
  [state |-> "BOOT", failure |-> "NONE", entry |-> 0, condition |-> Unset,
   gpsLoss |-> Unset, attempt |-> Unset, blocked |-> FALSE,
   logClosed |-> FALSE, stamped |-> {}]

\* A plausible fault: the entry of the state is stamped in every step.
ElapseNotInState(c, dt) ==
  [c EXCEPT !.condition = Later(@, dt), !.gpsLoss = Later(@, dt),
            !.attempt = Later(@, dt)]

Elapse(c, dt) ==
  [c EXCEPT !.entry = Later(@, dt), !.condition = Later(@, dt),
            !.gpsLoss = Later(@, dt), !.attempt = Later(@, dt)]

\* A plausible fault: the held timer survives the transition.
EnterKeepsTimer(c) == [c EXCEPT !.entry = 0]

\* StateMachineRuntime::enter
Enter(c) == [c EXCEPT !.entry = 0, !.condition = Unset]

\* A plausible fault: the state that is left gets the timestamp.
RecordTransitionLate(c, next) ==
  [c EXCEPT !.state = next, !.entry = 0, !.stamped = @ \cup ({c.state} \ Preflight)]

\* recordTransition: the preflight states have no timestamp of their own.
RecordTransition(c, next) ==
  [c EXCEPT !.state = next, !.entry = 0, !.stamped = @ \cup ({next} \ Preflight)]

\* The first failure wins; it takes the vehicle to FAILSAFE_DESCENT.
LatchFailure(c, f) ==
  IF f = "NONE" \/ c.failure # "NONE" THEN c
  ELSE IF c.state \in {"LANDED", "FAILSAFE_DESCENT"}
       THEN [c EXCEPT !.failure = f]
       ELSE RecordTransition(Enter([c EXCEPT !.failure = f]), "FAILSAFE_DESCENT")

-----------------------------------------------------------------------------
(* Stage 1: critical sensors once flight has begun.                         *)

GpsFallback(c, s)  == c.state \in Guided /\ ~s.gps
ImuFallback(c, s)  == c.state \in Guided /\ ~s.imu /\ s.gps /\ s.baro /\ s.servo
BaroFallback(c, s) == c.state \in Guided /\ ~s.baro /\ s.gps /\ s.imu /\ s.servo

\* A plausible fault: the barometer fallback is announced but not honoured.
AirborneFaultNoFallback(c, s) ==
  CASE c.state \notin Airborne -> "NONE"
    [] c.state \in Airborne /\ ~s.servo -> "SERVO"
    [] c.state \in Airborne /\ s.servo /\ ~s.baro -> "BAROMETER"
    [] OTHER -> "NONE"

AirborneFault(c, s) ==
  CASE c.state \notin Airborne             -> "NONE"
    [] c.state \in Airborne /\ ~s.servo    -> "SERVO"
    [] c.state \in Airborne /\ s.servo /\ ~s.imu /\ ~s.baro -> "SENSOR_DATA"
    [] c.state \in Airborne /\ s.servo /\ ~s.imu /\ s.baro  ->
         IF ImuFallback(c, s) THEN "NONE" ELSE "IMU"
    [] c.state \in Airborne /\ s.servo /\ s.imu /\ ~s.baro  ->
         IF BaroFallback(c, s) THEN "NONE" ELSE "BAROMETER"
    [] OTHER -> "NONE"

Sensed(c, s) == LatchFailure(c, AirborneFault(c, s))

-----------------------------------------------------------------------------
(* Stage 2: the preflight launch tripwire.                                  *)

ReadinessFailure(s) ==
  CASE ~s.servo                            -> "SERVO"
    [] s.servo /\ ~s.imu /\ ~s.baro        -> "SENSOR_DATA"
    [] s.servo /\ ~s.imu /\ s.baro         -> "IMU"
    [] s.servo /\ s.imu /\ ~s.baro         -> "BAROMETER"
    [] s.servo /\ s.imu /\ s.baro /\ ~s.gps -> "NAV_INVALID"
    [] OTHER                               -> "NONE"

LaunchAttempt(c, s) ==
  /\ c.state \in Preflight
  /\ \/ s.imu /\ s.thrust
     \/ s.baro /\ (s.vs = "climb" \/ LaunchAlt(s))

Tripped(c, s) ==
  IF LaunchAttempt(c, s) /\ ReadinessFailure(s) # "NONE"
  THEN LET a == [c EXCEPT !.attempt = Started(@)]
       IN  IF a.attempt >= LaunchConfirm
           THEN LatchFailure([a EXCEPT !.blocked = TRUE], ReadinessFailure(s))
           ELSE a
  ELSE [c EXCEPT !.attempt = Unset]

-----------------------------------------------------------------------------
(* Stage 3: updateStateMachine.  Its result is the runtime it leaves in the *)
(* coordinator (held timers, enter), the new state and the failure code.    *)

LandedWithBaro(s) ==
  s.baro /\ Still(s) /\ (s.gps => s.slow) /\ (s.imu => s.rate = "calm")

LandedWithoutBaro(s) == ~s.baro /\ s.gps /\ s.imu /\ s.slow /\ s.rate = "calm"

LaunchVotes(s) ==
  Cardinality({v \in {"accel", "speed", "altitude"} :
                 \/ v = "accel" /\ s.thrust
                 \/ v = "speed" /\ s.vs = "climb"
                 \/ v = "altitude" /\ LaunchAlt(s)})

\* The condition a state hands to held(), and how long it must hold.
Evidence(state, s) ==
  CASE state \in Descent ->
         \/ LandedWithBaro(s)
         \/ state = "FINAL_APPROACH" /\ LandedWithoutBaro(s)
    [] state = "PAD_SAFE" -> LaunchVotes(s) >= 2
    [] state = "ASCENT"   -> s.baro /\ s.alt # "ground" /\ Falling(s)
    [] state = "PARAFOIL_STABILIZATION" ->
         s.baro /\ s.vs = "descend" /\ s.imu /\ s.rate # "spin"
    [] OTHER -> FALSE

ConfirmTime(state) ==
  CASE state \in Descent -> LandedConfirm
    [] state = "PAD_SAFE" -> LaunchConfirm
    [] state = "ASCENT"   -> ApogeeConfirm
    [] OTHER              -> MinStabilization

\* A plausible fault: every sample restarts the timer.
HoldingRestarts(c, s) ==
  [c EXCEPT !.condition = IF Evidence(c.state, s) THEN 0 ELSE Unset]

\* held(): the timer after a sample, Unset again as soon as it fails.
Holding(c, s) ==
  [c EXCEPT !.condition = IF Evidence(c.state, s) THEN Started(@) ELSE Unset]

Confirmed(c) == c.condition >= ConfirmTime(c.state)

Result(c, next, fail) ==
  [core |-> IF next = c.state THEN c ELSE Enter(c), next |-> next, fail |-> fail]

GpsLossTimer(c, s) ==
  [c EXCEPT !.gpsLoss = IF s.gps THEN Unset
                        ELSE IF c.state \in Guided THEN Started(@) ELSE @]

\* The switch on the state, for a flight without a failure.
Progress(c, s) ==
  LET h    == Holding(c, s)
      Stay == Result(c, c.state, "NONE")
  IN CASE c.state = "BOOT" -> Result(c, "SELF_TEST", "NONE")
       [] c.state = "SELF_TEST" ->
            IF s.baro /\ s.imu THEN Result(c, "PAD_SAFE", "NONE") ELSE Stay
       [] c.state = "PAD_SAFE" ->
            Result(h, IF Confirmed(h) THEN "ASCENT" ELSE c.state, "NONE")
       [] c.state = "ASCENT" ->
            Result(h, IF Confirmed(h) THEN "APOGEE_CONFIRMED" ELSE c.state, "NONE")
       [] c.state = "APOGEE_CONFIRMED" -> Result(c, "DEPLOYMENT_WAIT", "NONE")
       [] c.state = "DEPLOYMENT_WAIT" ->
            IF c.entry >= DeploymentWait
            THEN Result(c, "PARAFOIL_STABILIZATION", "NONE") ELSE Stay
       [] c.state = "PARAFOIL_STABILIZATION" ->
            IF c.entry >= MaxStabilization
            THEN Result(c, "FAILSAFE_DESCENT", "STABILIZATION_TIMEOUT")
            ELSE Result(h, IF Confirmed(h) THEN "GUIDED_DESCENT" ELSE c.state, "NONE")
       [] c.state = "GUIDED_DESCENT" ->
            IF (s.baro /\ s.alt # "high") \/ (s.target /\ s.gps /\ s.near)
            THEN Result(c, "FINAL_APPROACH", "NONE") ELSE Stay
       [] c.state = "FINAL_APPROACH" ->
            IF FlareEnabled /\ s.baro /\ s.imu /\ s.alt = "ground"
            THEN Result(c, "FLARE", "NONE") ELSE Stay
       [] OTHER -> Stay

\* A plausible fault: the final approach forgets the GPS timeout.
UpdateNoTimeoutInApproach(c, s) ==
  LET h == IF c.state \in Descent THEN Holding(c, s) ELSE c
      g == GpsLossTimer(h, s)
  IN IF c.state \in Descent /\ Confirmed(h) THEN Result(h, "LANDED", c.failure)
     ELSE IF c.failure # "NONE" THEN Result(h, "FAILSAFE_DESCENT", c.failure)
     ELSE IF c.state = "GUIDED_DESCENT" /\ ~s.gps /\ g.gpsLoss >= GpsLossTimeout
          THEN Result(g, "FAILSAFE_DESCENT", "GPS_TIMEOUT")
     ELSE Progress(g, s)

UpdateStateMachine(c, s) ==
  LET h == IF c.state \in Descent THEN Holding(c, s) ELSE c
      g == GpsLossTimer(h, s)
  IN IF c.state \in Descent /\ Confirmed(h) THEN Result(h, "LANDED", c.failure)
     ELSE IF c.failure # "NONE" THEN Result(h, "FAILSAFE_DESCENT", c.failure)
     ELSE IF c.state \in Guided /\ ~s.gps /\ g.gpsLoss >= GpsLossTimeout
          THEN Result(g, "FAILSAFE_DESCENT", "GPS_TIMEOUT")
     ELSE Progress(g, s)

-----------------------------------------------------------------------------
(* Stage 4: latch the result.  A failure freezes the state except for the   *)
(* transition to LANDED.                                                    *)

Latched(r) ==
  LET c == LatchFailure(r.core, r.fail)
  IN  IF (c.failure = "NONE" \/ r.next = "LANDED") /\ r.next # c.state
      THEN RecordTransition(c, r.next) ELSE c

\* The coordinator that enters the state machine.
Guarded(c, s, dt) == Tripped(Sensed(Elapse(c, dt), s), s)

-----------------------------------------------------------------------------
(* Stage 5: outputs.  What computeGuidance commands is the choice "steers". *)

RemoteAllowed(c, s) ==
  c.state \in Guided /\ c.failure = "NONE" /\ s.servo /\ (s.imu \/ s.baro)

FailsafeActive(c) == c.failure # "NONE" \/ c.state = "FAILSAFE_DESCENT"

Mode(c, s) ==
  CASE RemoteAllowed(c, s) /\ s.remote -> "REMOTE_MANUAL"
    [] FailsafeActive(c) /\ c.state # "LANDED" -> "MODE_FAILSAFE"
    [] c.failure = "NONE" /\ c.state \in Guided /\ s.target
       /\ ~(RemoteAllowed(c, s) /\ s.remote) ->
         IF c.state = "FINAL_APPROACH" THEN "FINAL_APPROACH" ELSE "HEADING_TO_TARGET"
    [] c.failure = "NONE" /\ c.state = "FLARE" -> "FLARE"
    [] OTHER -> "MODE_DISABLED"

\* A plausible fault: the failsafe does not override the guidance law.
BrakesIgnoreFailsafe(c, s, steers) ==
  IF c.state = "LANDED" \/ Mode(c, s) = "MODE_DISABLED" THEN "neutral"
  ELSE IF RemoteAllowed(c, s) /\ s.remote THEN "remote"
  ELSE IF steers THEN "steer" ELSE "neutral"

Brakes(c, s, steers) ==
  IF FailsafeActive(c) \/ c.state = "LANDED" \/ Mode(c, s) = "MODE_DISABLED"
  THEN "neutral"
  ELSE IF RemoteAllowed(c, s) /\ s.remote THEN "remote"
  ELSE IF steers THEN "steer" ELSE "neutral"

\* The outputs of a step that started with c0, entered the state machine
\* with g and ended with c.
Outputs(c0, c, s, steers) ==
  [mode |-> Mode(c, s), brakes |-> Brakes(c, s, steers),
   ready |-> ReadinessFailure(s) = "NONE",
   fallback |-> {x \in {"gps", "imu", "baro"} :
                   \/ x = "gps" /\ GpsFallback(c0, s)
                   \/ x = "imu" /\ ImuFallback(c0, s)
                   \/ x = "baro" /\ BaroFallback(c0, s)},
   closeLog |-> c.state = "LANDED" /\ ~c.logClosed]

\* A plausible fault: the log is closed with the failsafe already.
CloseLogInFailsafe(c) ==
  IF c.state \in {"LANDED", "FAILSAFE_DESCENT"} THEN [c EXCEPT !.logClosed = TRUE] ELSE c

CloseLog(c) == IF c.state = "LANDED" THEN [c EXCEPT !.logClosed = TRUE] ELSE c

-----------------------------------------------------------------------------
(* The object over time.                                                    *)

VARIABLES
  fc,      \* the FlightCoordinator object of main.cpp
  out,     \* the CoordinatorOutput of its last step
  run,     \* history: how long the evidence of the current state has held
  boots    \* how often the processor has restarted

vars == <<fc, out, run, boots>>

NoOutput == [mode |-> "MODE_DISABLED", brakes |-> "neutral", ready |-> FALSE,
             fallback |-> {}, closeLog |-> FALSE]
NoRun    == [phase |-> "BOOT", age |-> Unset]

\* setup(): a watchdog, panic, brownout or unknown reset forces the failsafe.
Boot(uncertain) ==
  IF uncertain THEN LatchFailure(Reset, "REBOOT_UNCERTAIN") ELSE Reset

Init ==
  /\ \E uncertain \in BOOLEAN : fc = Boot(uncertain)
  /\ out = NoOutput
  /\ run = NoRun
  /\ boots = 0

\* The history variable measures the evidence by itself: it never looks at
\* the timers of the coordinator.
Observed(g, s, dt) ==
  [phase |-> g.state,
   age   |-> IF ~Evidence(g.state, s) THEN Unset
             ELSE IF run.phase = g.state /\ run.age # Unset
                  THEN Later(run.age, dt) ELSE 0]

Step(s, dt, steers) ==
  \E g \in {Guarded(fc, s, dt)} :
    \E c \in {Latched(UpdateStateMachine(g, s))} :
      /\ fc'  = CloseLog(c)
      /\ out' = Outputs(fc, c, s, steers)
      /\ run' = Observed(g, s, dt)
      /\ UNCHANGED boots

\* A reset of the processor loses everything the object holds.
Reboot(uncertain) ==
  /\ boots < MaxReboots
  /\ boots' = boots + 1
  /\ fc'  = Boot(uncertain)
  /\ out' = NoOutput
  /\ run' = NoRun

Loop == \E s \in Samples, dt \in LoopPeriods, steers \in BOOLEAN : Step(s, dt, steers)

Next == Loop \/ \E uncertain \in BOOLEAN : Reboot(uncertain)

Spec == Init /\ [][Next]_vars

\* loop() is called by the Arduino core for ever.
FairSpec == Spec /\ WF_vars(Loop)

-----------------------------------------------------------------------------
(* Properties.                                                              *)

Output == [mode : {"MODE_DISABLED", "MODE_FAILSAFE", "REMOTE_MANUAL", "FLARE",
                   "HEADING_TO_TARGET", "FINAL_APPROACH"},
           brakes : {"neutral", "remote", "steer"}, ready : BOOLEAN,
           fallback : SUBSET {"gps", "imu", "baro"}, closeLog : BOOLEAN]

\* Every variable has its type.
TypeOK ==
  /\ fc \in Coordinator
  /\ out \in Output
  /\ run \in [phase : FlightState, age : Timer]
  /\ boots \in 0 .. MaxReboots

\* A brake leaves neutral only in a healthy descent after deployment: never
\* during ascent and deployment wait, never with a latched failure, never
\* once landed, whatever the remote pilot or the guidance law asks for.
BrakesOnlyInHealthyDescent ==
  out.brakes # "neutral" => /\ fc.state \in Guided \cup {"FLARE"}
                            /\ fc.failure = "NONE"

\* The states a flight must have passed to be where it is.
Behind(state) ==
  CASE state = "ASCENT" -> {"ASCENT"}
    [] state = "APOGEE_CONFIRMED" -> {"ASCENT", "APOGEE_CONFIRMED"}
    [] state = "DEPLOYMENT_WAIT" -> {"ASCENT", "APOGEE_CONFIRMED", "DEPLOYMENT_WAIT"}
    [] state = "PARAFOIL_STABILIZATION" ->
         {"ASCENT", "APOGEE_CONFIRMED", "DEPLOYMENT_WAIT", "PARAFOIL_STABILIZATION"}
    [] state \in Guided \cup {"FLARE"} ->
         {"ASCENT", "APOGEE_CONFIRMED", "DEPLOYMENT_WAIT",
          "PARAFOIL_STABILIZATION", "GUIDED_DESCENT"}
    [] state = "FAILSAFE_DESCENT" -> {"FAILSAFE_DESCENT"}
    [] OTHER -> {}

\* A state of the flight is reached only through all the earlier ones: the
\* timestamps of the earlier phases are all there, so steering never starts
\* on a vehicle whose launch, apogee and deployment were not seen, and only a
\* guided or a failsafe descent lands.
PhasesInOrder ==
  /\ Behind(fc.state) \subseteq fc.stamped
  /\ fc.state \in Preflight => fc.stamped = {}
  /\ fc.state = "LANDED" => fc.stamped \cap {"GUIDED_DESCENT", "FAILSAFE_DESCENT"} # {}

\* A latched failure means the failsafe descent or, after it, the landing;
\* and the failsafe descent is never entered without a recorded cause.
FailureMeansFailsafe ==
  /\ fc.failure # "NONE" => fc.state \in {"FAILSAFE_DESCENT", "LANDED"}
  /\ fc.state = "FAILSAFE_DESCENT" => fc.failure # "NONE"

\* The first failure stays recorded and the state machine never flies again
\* after it, until the processor restarts.
FirstFailureStays ==
  [][boots' = boots /\ fc.failure # "NONE" =>
       /\ fc'.failure = fc.failure
       /\ fc'.state = fc.state \/ fc'.state = "LANDED"]_vars

\* Every confirmed transition (launch, apogee, canopy stable, landing) had its
\* own evidence uninterrupted for the confirmation time of that phase: no
\* time is borrowed from another phase or from before an interruption.
ConfirmedByEvidence ==
  [][boots' = boots /\ fc'.state # fc.state
     /\ fc'.state \in {"ASCENT", "APOGEE_CONFIRMED", "GUIDED_DESCENT", "LANDED"}
     => /\ run'.phase = fc.state \/ run'.phase = "FAILSAFE_DESCENT"
        /\ run'.age >= ConfirmTime(run'.phase)]_vars

\* Neither an outage of the GPS in guided flight nor a canopy that does not
\* settle lasts beyond its timeout without the failsafe, and the wait for the
\* deployment, which no sensor is asked about, ends on time.
TimeoutsEnforced ==
  /\ fc.state = "DEPLOYMENT_WAIT" => fc.entry < DeploymentWait
  /\ fc.state \in Guided => fc.gpsLoss < GpsLossTimeout
  /\ fc.state = "PARAFOIL_STABILIZATION" => fc.entry < MaxStabilization

\* A step that flies on a fallback (one of IMU and barometer lost in guided
\* flight, everything else healthy) latches no failure, whatever the timers.
FallbackAvertsFailure ==
  [][out'.fallback \cap {"imu", "baro"} # {} => fc'.failure = fc.failure]_vars

\* The flight log is told to close in exactly the step that lands, so once
\* per flight, on the nominal path and after a failure alike.
LogClosesAtLanding ==
  [][boots' = boots =>
       (out'.closeLog <=> fc.state # "LANDED" /\ fc'.state = "LANDED")]_<<fc, out>>

\* Liveness: the waits for deployment and for a stable canopy always end.
WaitsEnd ==
  fc.state \in {"APOGEE_CONFIRMED", "DEPLOYMENT_WAIT", "PARAFOIL_STABILIZATION"} ~>
  fc.state \notin {"APOGEE_CONFIRMED", "DEPLOYMENT_WAIT", "PARAFOIL_STABILIZATION"}

\* The other half of ConfirmedByEvidence: a phase whose evidence has held for the
\* confirmation time is over in that very step.  So a launch is never overlooked, and
\* a vehicle at rest is never left in a descent, after a failure neither: its log would
\* not be sealed.
EvidenceIsHeeded == run.phase = fc.state => run.age < ConfirmTime(fc.state)

-----------------------------------------------------------------------------
(* The flight as its operator sees it, without timers, sensors and modes.   *)

PhaseOf(state) ==
  CASE state \in Preflight -> "pad"
    [] state = "ASCENT" -> "ascent"
    [] state \in {"APOGEE_CONFIRMED", "DEPLOYMENT_WAIT",
                  "PARAFOIL_STABILIZATION"} -> "deploying"
    [] state \in Guided \cup {"FLARE"} -> "gliding"
    [] state = "LANDED" -> "landed"
    [] OTHER -> "failsafe"

Flight == INSTANCE FlightPhases
          WITH phase   <- PhaseOf(fc.state),
               faulted <- fc.failure # "NONE",
               braking <- out.brakes # "neutral",
               logOpen <- ~fc.logClosed

\* The coordinator implements the abstract flight: phases in order, a fault
\* that nothing but a restart clears, brakes in a healthy glide only, and a
\* log that the landing closes.
ImplementsFlight == Flight!Spec

=============================================================================
