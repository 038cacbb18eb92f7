------------------------------ MODULE DropTest ------------------------------
(***************************************************************************)
(* The drop-test recorder: logic/drop_test_controller.cpp, driven by        *)
(* armDropTest, abortDropTest and updateDropTestRecording of main.cpp.      *)
(* Readings are integers the code compares with the thresholds of Config;   *)
(* the isfinite tests are part of the validity of the reading's sensor.     *)
(*                                                                          *)
(* One iteration of loop() reads two clocks: the sample is stamped before   *)
(* the sensors are read (SensorManager::update), a command after it         *)
(* (updateLoRaRemoteControl).  A test armed by a command therefore begins   *)
(* up to "lead" milliseconds after the sample that its first step gets.     *)
(***************************************************************************)
EXTENDS Ages

CONSTANTS
  Config,        \* the DropTestConfig of the build
  DropSamples,   \* the sensor samples the environment may present
  Ticks,         \* the possible times between two iterations of loop()
  Leads,         \* the possible times from the sample to the command
  MaxTests       \* bound: tests armed in a behaviour

\* No confirmation is instantaneous (the DROP_TEST times of config.h).
DropTestConfig ==
  [releaseSpeed : Int, releaseLoss : Int, releaseConfirm : Nat \ {0}, releaseAccel : Int,
   releaseTimeout : Nat, canopyDelay : Nat \ {0}, canopyDelta : Int, canopyAccel : Int,
   stableWindow : Nat \ {0}, stableRange : Int, stableRate : Int, stableSpeed : Int,
   landSpeed : Int, landRate : Int, landGround : Int, landSpan : Int,
   landConfirm : Nat \ {0}, postLanding : Nat, maxDuration : Nat \ {0}]

\* |vs| and |accel| stay apart: the code takes the absolute value of both.
DropSample ==
  [baro : BOOLEAN, imu : BOOLEAN, gps : BOOLEAN, alt : Int, vs : Int,
   accel : Int, rate : Nat, ground : Nat]

ASSUME DropConfigAssumption ==
  /\ Config \in DropTestConfig
  /\ DropSamples \subseteq DropSample
  /\ Ticks \subseteq Nat \ {0} /\ Leads \subseteq Nat
  /\ MaxTests \in Nat
  /\ \A t \in {Config.releaseConfirm, Config.releaseTimeout, Config.canopyDelay,
               Config.stableWindow, Config.landConfirm, Config.postLanding} :
       t <= AgeCap

Abs(x)       == IF x < 0 THEN -x ELSE x
Lower(x, y)  == IF x < y THEN x ELSE y
Higher(x, y) == IF x > y THEN x ELSE y

-----------------------------------------------------------------------------
(* The controller object.                                                   *)

Idle        == {"IDLE", "TEST_COMPLETE", "TEST_ABORTED"}
PreRelease  == {"ARMED_RECORDING", "RELEASE_CANDIDATE"}
PostRelease == {"DROP_CONFIRMED", "CANOPY_EVENT_SUSPECTED",
                "STABLE_DESCENT_OBSERVED", "LANDING_CONFIRM"}
DropTestState == Idle \cup PreRelease \cup PostRelease \cup {"POST_LANDING"}

DropTestEvent == {"RELEASE_ONSET", "RELEASE_REJECTED", "RELEASE_CONFIRMED",
                  "CANOPY_SIGNATURE", "STABLE_DESCENT", "LANDING_CANDIDATE",
                  "LANDING_REJECTED", "LANDING_CONFIRMED", "COMPLETE",
                  "TIMEOUT", "ABORTED"}

DropTestController ==
  [state : DropTestState, events : SUBSET DropTestEvent,
   recording : BOOLEAN, closeLog : BOOLEAN,
   canopy : BOOLEAN, stable : BOOLEAN,   \* ..._observed
   armed : Int,          \* since armed_ms; negative when it lies ahead
   onset : Timer,        \* since release_candidate_since_ms_
   confirmed : Timer,    \* since release_confirm_ms
   window : Timer,       \* since stable_window_start_ms_
   landing : Timer,      \* since landing_candidate_since_ms_
   landed : Timer,       \* since landing_confirm_ms
   before : DropTestState,   \* pre_landing_state_
   armAlt : Int, fastest : Int, slowVs : Int, fastVs : Int, floor : Int, ceiling : Int]

NoTest ==
  [state |-> "IDLE", events |-> {}, recording |-> FALSE, closeLog |-> FALSE,
   canopy |-> FALSE, stable |-> FALSE, armed |-> 0, onset |-> Unset,
   confirmed |-> Unset, window |-> Unset, landing |-> Unset, landed |-> Unset,
   before |-> "DROP_CONFIRMED", armAlt |-> 0, fastest |-> 0, slowVs |-> 0,
   fastVs |-> 0, floor |-> 0, ceiling |-> 0]

\* arm: a new output and all timers cleared.  (The speed and altitude windows
\* and pre_landing_state_ keep old values, but are written before they are read.)
Armed(alt, lead) ==
  [NoTest EXCEPT !.state = "ARMED_RECORDING", !.recording = TRUE,
                 !.armed = -lead, !.armAlt = alt]

\* The end of a recording: the servos stay neutral and the log is closed.
Finish(d, state, events) ==
  [d EXCEPT !.state = state, !.recording = FALSE, !.closeLog = TRUE,
            !.events = events]

\* A plausible fault: an abort forgets the log.
AbortedUnsealed(d) ==
  IF d.recording
  THEN [d EXCEPT !.state = "TEST_ABORTED", !.recording = FALSE, !.events = {"ABORTED"}]
  ELSE d

Aborted(d) == IF d.recording THEN Finish(d, "TEST_ABORTED", {"ABORTED"}) ELSE d

\* A plausible fault: armed_ms is refreshed in every step.
AgedButArmed(d, dt) ==
  IF ~d.recording THEN d
  ELSE [d EXCEPT !.onset = Later(@, dt), !.confirmed = Later(@, dt),
                 !.window = Later(@, dt), !.landing = Later(@, dt),
                 !.landed = Later(@, dt)]

\* The instants of a recording grow older; nothing reads them without one.
Aged(d, dt) ==
  IF ~d.recording THEN d
  ELSE [d EXCEPT !.armed = @ + dt, !.onset = Later(@, dt),
                 !.confirmed = Later(@, dt), !.window = Later(@, dt),
                 !.landing = Later(@, dt), !.landed = Later(@, dt)]

\* uint32_t(now_ms - armed_ms) >= max_duration_ms: an instant ahead of the
\* sample makes the difference wrap to an enormous duration.
TimedOut(d) == d.armed < 0 \/ d.armed >= Config.maxDuration

Begin(d)       == [d EXCEPT !.events = {}, !.closeLog = FALSE]
Emit(d, event) == [d EXCEPT !.events = @ \cup {event}]

-----------------------------------------------------------------------------
(* Release: an IMU transient opens a candidate, the barometer confirms it.  *)

ImuRelease(s)     == s.imu /\ Abs(s.accel) >= Config.releaseAccel
BaroRelease(d, s) == /\ s.baro
                     /\ s.vs <= Config.releaseSpeed
                     /\ d.armAlt - s.alt >= Config.releaseLoss

\* The onset is forgotten once the drop is confirmed: nothing reads it again.
Onset(d, s) ==
  IF d.state = "ARMED_RECORDING" /\ ImuRelease(s)
  THEN Emit([d EXCEPT !.state = "RELEASE_CANDIDATE", !.onset = 0], "RELEASE_ONSET")
  ELSE d

ConfirmRelease(d, s) ==
  Emit([d EXCEPT !.state = "DROP_CONFIRMED", !.onset = Unset, !.confirmed = 0,
                 !.fastest = s.vs, !.window = 0, !.slowVs = s.vs, !.fastVs = s.vs],
       "RELEASE_CONFIRMED")

RejectRelease(d) ==
  Emit([d EXCEPT !.state = "ARMED_RECORDING", !.onset = Unset], "RELEASE_REJECTED")

\* As long as the barometer agrees, the candidate does not time out.
Candidate(d, s) ==
  IF d.state # "RELEASE_CANDIDATE" THEN d
  ELSE IF BaroRelease(d, s)
       THEN IF d.onset >= Config.releaseConfirm THEN ConfirmRelease(d, s) ELSE d
       ELSE IF d.onset >= Config.releaseTimeout THEN RejectRelease(d) ELSE d

Release(d, s) == Candidate(Onset(d, s), s)

-----------------------------------------------------------------------------
(* After the release: canopy, stable descent, landing, in this order.       *)

Fastest(d, s) == IF s.baro THEN [d EXCEPT !.fastest = Lower(@, s.vs)] ELSE d

Canopy(d, s) ==
  IF /\ ~d.canopy
     /\ d.confirmed >= Config.canopyDelay
     /\ \/ s.baro /\ s.vs - d.fastest >= Config.canopyDelta
        \/ s.imu /\ Abs(s.accel) >= Config.canopyAccel
  THEN Emit([d EXCEPT !.canopy = TRUE, !.state = "CANOPY_EVENT_SUSPECTED"],
            "CANOPY_SIGNATURE")
  ELSE d

StableSample(s) ==
  s.baro /\ s.imu /\ s.vs <= -Config.stableSpeed /\ s.rate <= Config.stableRate

StableWindow(d, s) ==
  IF d.window = Unset
  THEN [d EXCEPT !.window = 0, !.slowVs = s.vs, !.fastVs = s.vs]
  ELSE [d EXCEPT !.slowVs = Higher(@, s.vs), !.fastVs = Lower(@, s.vs)]

Observed(d) ==
  IF /\ ~d.stable
     /\ d.window >= Config.stableWindow
     /\ d.slowVs - d.fastVs <= Config.stableRange
  THEN Emit([d EXCEPT !.stable = TRUE, !.state = "STABLE_DESCENT_OBSERVED"],
            "STABLE_DESCENT")
  ELSE d

Stable(d, s) ==
  IF StableSample(s) THEN Observed(StableWindow(d, s)) ELSE [d EXCEPT !.window = Unset]

LandingSample(s) ==
  /\ s.baro /\ s.imu
  /\ Abs(s.vs) <= Config.landSpeed
  /\ s.rate <= Config.landRate
  /\ s.gps => s.ground <= Config.landGround

LandingWindow(d, s) ==
  IF d.landing = Unset
  THEN Emit([d EXCEPT !.landing = 0, !.before = d.state, !.state = "LANDING_CONFIRM",
                      !.floor = s.alt, !.ceiling = s.alt], "LANDING_CANDIDATE")
  ELSE [d EXCEPT !.floor = Lower(@, s.alt), !.ceiling = Higher(@, s.alt)]

ConfirmLanding(d) ==
  IF d.landing >= Config.landConfirm /\ d.ceiling - d.floor <= Config.landSpan
  THEN Emit([d EXCEPT !.landed = 0, !.state = "POST_LANDING"], "LANDING_CONFIRMED")
  ELSE d

\* Plausible faults: the state is not restored; the time is not cleared.
RejectLandingStays(d) ==
  IF d.landing = Unset THEN d
  ELSE Emit([d EXCEPT !.landing = Unset], "LANDING_REJECTED")
RejectLandingKeepsTime(d) ==
  IF d.landing = Unset THEN d
  ELSE Emit([d EXCEPT !.state = d.before], "LANDING_REJECTED")

RejectLanding(d) ==
  IF d.landing = Unset THEN d
  ELSE Emit([d EXCEPT !.landing = Unset, !.state = d.before], "LANDING_REJECTED")

Landing(d, s) ==
  IF LandingSample(s) THEN ConfirmLanding(LandingWindow(d, s)) ELSE RejectLanding(d)

\* A plausible fault: the descent is watched before the release, too.
DescendFromArming(d, s) ==
  IF d.landed = Unset THEN Landing(Stable(Canopy(Fastest(d, s), s), s), s) ELSE d

Descend(d, s) ==
  IF d.state \in PostRelease /\ d.landed = Unset
  THEN Landing(Stable(Canopy(Fastest(d, s), s), s), s) ELSE d

PostLanding(d) ==
  IF d.state = "POST_LANDING" /\ d.landed >= Config.postLanding
  THEN Finish(d, "TEST_COMPLETE", d.events \cup {"COMPLETE"}) ELSE d

Recorded(d, s) ==
  IF ~d.recording THEN Begin(d)
  ELSE IF TimedOut(d) THEN Finish(d, "TEST_COMPLETE", {"TIMEOUT", "COMPLETE"})
  ELSE PostLanding(Descend(IF d.state \in PreRelease THEN Release(Begin(d), s)
                           ELSE Begin(d), s))

-----------------------------------------------------------------------------
(* The recorder over time.                                                  *)

VARIABLES
  drop,    \* the DropTestController object of main.cpp
  seen,    \* history: what the samples of this test showed by themselves
  tests,   \* how many tests have been armed
  seals    \* history: how many published outputs sealed the log

dropVars == <<drop, seen, tests, seals>>

NoSpan  == [age |-> Unset, lo |-> 0, hi |-> 0]
Nothing == [jolt |-> Unset, fall |-> Unset, glide |-> NoSpan, rest |-> NoSpan]

\* The age and the extremes of an uninterrupted run of samples.
Span(run, ok, value, dt) ==
  IF ~ok THEN NoSpan
  ELSE IF run.age = Unset THEN [age |-> 0, lo |-> value, hi |-> value]
  ELSE [age |-> Later(run.age, dt), lo |-> Lower(run.lo, value),
        hi |-> Higher(run.hi, value)]

\* A span that starts afresh with the sample that would make it too wide.
Steady(run, ok, value, width, dt) ==
  LET r == Span(run, ok, value, dt)
  IN  IF r.hi - r.lo <= width THEN r ELSE Span(NoSpan, ok, value, dt)

\* The history after a sample that left the recorder at d.
Watched(was, d, s, dt) ==
  [jolt  |-> IF was.jolt # Unset THEN Later(was.jolt, dt)
             ELSE IF ImuRelease(s) THEN 0 ELSE Unset,
   fall  |-> IF ~BaroRelease(d, s) THEN Unset
             ELSE IF was.fall = Unset THEN 0 ELSE Later(was.fall, dt),
   glide |-> Steady(was.glide, d.confirmed # Unset /\ StableSample(s), s.vs,
                    Config.stableRange, dt),
   rest  |-> Span(was.rest, d.confirmed # Unset /\ LandingSample(s), s.alt, dt)]

Init ==
  /\ drop = NoTest
  /\ seen = Nothing
  /\ tests = 0 /\ seals = 0

\* updateDropTestRecording, called with what the command left.
Record(d, s) == IF d.recording THEN Recorded(d, s) ELSE d

\* publishDropTestOutput seals the log when the output says so.
Published(d) == seals' = seals + (IF d.closeLog THEN 1 ELSE 0)

\* An iteration without a command for the recorder: an output left over from an
\* ended test is not published again.
Iterate(s, dt) ==
  /\ drop' = Record(Aged(drop, dt), s)
  /\ seen' = IF drop.recording THEN Watched(seen, drop', s, dt) ELSE seen
  /\ IF drop.recording THEN Published(drop') ELSE UNCHANGED seals
  /\ UNCHANGED tests

\* An accepted armDropTest: a terminal state, IMU and barometer valid; the
\* other conditions (servos, battery, failure, log) are the environment's.
Arm(s, lead) ==
  /\ drop.state \in Idle
  /\ s.imu /\ s.baro
  /\ tests < MaxTests
  /\ tests' = tests + 1
  /\ drop' = Record(Armed(s.alt, lead), s)
  /\ seen' = Watched(Nothing, drop', s, 0)
  /\ Published(drop')

\* abortDropTest reaches the controller only while it records.
Abort(dt) ==
  /\ drop.recording
  /\ drop' = Aborted(Aged(drop, dt))
  /\ Published(drop')
  /\ UNCHANGED <<seen, tests>>

Loop ==
  \E s \in DropSamples, dt \in Ticks :
    Iterate(s, dt) \/ Abort(dt) \/ \E lead \in Leads : Arm(s, lead)

Next == Loop

Spec == Init /\ [][Next]_dropVars

\* loop() is called by the Arduino core for ever.
FairSpec == Spec /\ WF_dropVars(Loop)

-----------------------------------------------------------------------------
(* Properties.                                                              *)

\* Every variable has its type.
TypeOK ==
  /\ drop \in DropTestController
  /\ seen.jolt \in Timer /\ seen.fall \in Timer
  /\ {seen.glide, seen.rest} \subseteq [age : Timer, lo : Int, hi : Int]
  /\ tests \in 0 .. MaxTests /\ seals \in Nat

\* The milestones of a test come in order, and its state never claims more
\* than its milestones: canopy, stable descent and landing after a confirmed
\* release, the end of the recording after the landing, abort or timeout, and
\* before the longest test is over.
MilestonesInOrder ==
  /\ drop.state \in PreRelease => drop.confirmed = Unset
  /\ drop.canopy \/ drop.stable \/ drop.landed # Unset => drop.confirmed # Unset
  /\ drop.state \in PostRelease => drop.confirmed # Unset /\ drop.landed = Unset
  /\ drop.state = "CANOPY_EVENT_SUSPECTED" => drop.canopy
  /\ drop.state = "STABLE_DESCENT_OBSERVED" => drop.stable
  /\ drop.state = "LANDING_CONFIRM" => drop.landing # Unset
  /\ drop.state = "POST_LANDING" <=> drop.recording /\ drop.landed # Unset
  /\ drop.recording <=> drop.state \notin Idle
  /\ drop.recording => drop.armed \in 0 .. Config.maxDuration - 1

\* Every milestone has its own evidence: a release an IMU transient at least the
\* confirmation time ago and a falling barometer now; stable descent and landing
\* an uninterrupted run of quiet samples, long enough and within the range or the
\* span.  No part of an interrupted run, a rejected candidate or an earlier test
\* counts.
MilestonesHadEvidence ==
  [][/\ tests' = tests /\ drop.confirmed = Unset /\ drop'.confirmed # Unset =>
          seen'.jolt >= Config.releaseConfirm /\ seen'.fall # Unset
     /\ ~drop.stable /\ drop'.stable => seen'.glide.age >= Config.stableWindow
     /\ drop.landed = Unset /\ drop'.landed # Unset =>
          /\ seen'.rest.age >= Config.landConfirm
          /\ seen'.rest.hi - seen'.rest.lo <= Config.landSpan]_dropVars

\* Every test that ended sealed its log, once: the landing, the timeout, an abort and a
\* test that times out in the iteration that armed it each publish one closing output,
\* the arm publishes none, and what an ended test leaves behind is not published again.
\* A log that is sealed twice, or never, has lost its counts.
EndSealsOnce == tests = seals + (IF drop.recording THEN 1 ELSE 0)

\* The recorder shows the other components an orderly test: the stages follow
\* each other, and the observations are made in the air and kept.
Stage ==
  CASE ~drop.recording -> "idle"
    [] drop.recording /\ drop.state \in PreRelease -> "armed"
    [] drop.recording /\ drop.landed # Unset -> "landed"
    [] OTHER -> "released"

Stages == INSTANCE DropStages WITH stage <- Stage,
            canopy <- drop.recording /\ drop.canopy,
            stable <- drop.recording /\ drop.stable

ImplementsStages == Stages!StagesSpec

\* Liveness: no test records for ever, whatever the sensors show.
RecordingEnds == drop.recording ~> ~drop.recording

\* DROP_TEST_RECORDING.md: when an arm request is accepted, the payload
\* starts a fresh log and records.
AcceptedArmRecords == [][tests' # tests => drop'.recording]_dropVars
=============================================================================
