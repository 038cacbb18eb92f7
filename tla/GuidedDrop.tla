----------------------------- MODULE GuidedDrop -----------------------------
(***************************************************************************)
(* The return-to-target controller of an inert drop test:                   *)
(* logic/guided_drop_controller.cpp, as loop() steps it after the recorder  *)
(* while a guided test records.  The recorder appears by what it promises   *)
(* (DropStages); the target is valid and fixed while it records             *)
(* (armDropTest, SET_TARGET), and the authority of the arm gate is one      *)
(* value, the 20 percent stage armNow is given.                             *)
(***************************************************************************)
EXTENDS Steering, DropStages

CONSTANTS
  Guided,          \* the GuidedDropConfig of the build
  Flights,         \* the sensor samples the environment may present
  Positions,       \* where a GPS fix may be; the target is at 0
  Ticks,           \* the possible times between two iterations of loop()
  Skews,           \* by how much the recorder's clock may be ahead of loop()'s
  MaxGuidedTests   \* bound: guided tests in a behaviour

GuidedConfig ==
  [deployment : Nat, navConfirm : Nat, navLoss : Nat, instability : Nat,
   minAlt : Int, finalAlt : Int, finalRadius : Nat, maxJump : Nat,
   recovery : Nat, hold : BOOLEAN, holdTime : Nat, holdLimit : Nat,
   swings : Nat, swingWindow : Nat, law : SteeringConfig]

\* rate: calm up to the activation limit, rough up to the neutral limit.
Flight ==
  [fresh : BOOLEAN, gps : BOOLEAN, rate : {"calm", "rough", "spin"}, alt : Int,
   error : Int, slow : BOOLEAN]

ASSUME GuidedAssumption ==
  /\ Guided \in GuidedConfig
  /\ Flights \subseteq Flight
  /\ Positions \subseteq Int
  /\ Ticks \subseteq Nat \ {0} /\ Skews \subseteq Nat
  /\ MaxGuidedTests \in Nat
  /\ \A t \in {Guided.navConfirm, Guided.navLoss, Guided.instability,
               Guided.swingWindow + 1, Guided.law.guard} : t <= AgeCap
  /\ Guided.holdTime < AgeCap

-----------------------------------------------------------------------------
(* The controller object.                                                   *)

GuidedDropController ==
  [candidate : Timer,     \* since navigation_candidate_since_ms_; Unset: inactive
   loss : Timer,          \* since navigation_loss_since_ms_; Unset: inactive
   spinning : Timer,      \* since instability_since_ms_
   started : BOOLEAN, fault : BOOLEAN,
   accepted : SUBSET Int,   \* the last accepted position, if there is one
   suspect : BOOLEAN, recovered : Nat,
   swing : Timer, swings : Nat, side : -1 .. 1,   \* oscillation window
   law : SteeringLaw]

GuidedStatus ==
  {"WAITING_RELEASE", "DEPLOYMENT_NEUTRAL", "WAITING_STABLE_DESCENT",
   "WAITING_NAVIGATION", "WAITING_ALTITUDE", "GUIDANCE_ACTIVE",
   "FINAL_APPROACH", "FAULT_NEUTRAL", "LANDED", "GPS_SUSPECT", "GPS_COURSE_HOLD"}

GuidedOutput == [status : GuidedStatus, command : Int, active : BOOLEAN]

\* reset
Fresh ==
  [candidate |-> Unset, loss |-> Unset, spinning |-> Unset, started |-> FALSE,
   fault |-> FALSE, accepted |-> {}, suspect |-> FALSE, recovered |-> 0,
   swing |-> Unset, swings |-> 0, side |-> 0, law |-> Straight]

Older(c, dt) ==
  [c EXCEPT !.candidate = Later(@, dt), !.loss = Later(@, dt),
            !.spinning = Later(@, dt), !.swing = Later(@, dt),
            !.law = AgedLaw(@, dt)]

\* neutral: both brakes released at once; the rate limiter is not told.
Neutral(c, status) ==
  [ctl |-> c, out |-> [status |-> status, command |-> 0, active |-> FALSE]]

Faulted(c) == Neutral([c EXCEPT !.fault = TRUE], "FAULT_NEUTRAL")

Lost(c) == IF c.suspect THEN "GPS_SUSPECT" ELSE "WAITING_NAVIGATION"

\* unwindNavigationLoss: the brakes are slewed back to neutral.
Unwind(c, dt) ==
  LET l == Slewed(c.law, 0, Guided.law.slew * dt)
  IN  [ctl |-> [c EXCEPT !.law = l],
       out |-> [status |-> Lost(c), command |-> l.value, active |-> l.value # 0]]

-----------------------------------------------------------------------------
(* GPS quality and oscillation damping.                                     *)

Jumped(c, pos) == \E p \in c.accepted : Magnitude(pos - p) > Guided.maxJump

Recovering(c) == c.suspect /\ c.recovered + 1 < Guided.recovery

\* A plausible fault: a jump does not start the count again.
AcceptKeepsCount(c, s, pos) ==
  CASE ~s.gps -> c
    [] s.gps /\ Jumped(c, pos) -> [c EXCEPT !.suspect = TRUE]
    [] s.gps /\ ~Jumped(c, pos) /\ Recovering(c) -> [c EXCEPT !.recovered = @ + 1]
    [] OTHER -> [c EXCEPT !.suspect = FALSE, !.recovered = 0, !.accepted = {pos}]

\* acceptGpsPoint: what it leaves.
Accept(c, s, pos) ==
  CASE ~s.gps -> c
    [] s.gps /\ Jumped(c, pos) -> [c EXCEPT !.suspect = TRUE, !.recovered = 0]
    [] s.gps /\ ~Jumped(c, pos) /\ Recovering(c) -> [c EXCEPT !.recovered = @ + 1]
    [] OTHER -> [c EXCEPT !.suspect = FALSE, !.recovered = 0, !.accepted = {pos}]

Accepts(c, s, pos) == s.gps /\ ~Jumped(c, pos) /\ ~Recovering(c)

\* updateOscillationDamping
Watch(c, error) ==
  LET w == IF c.swing = Unset \/ c.swing > Guided.swingWindow
           THEN [c EXCEPT !.swing = 0, !.swings = 0, !.side = 0] ELSE c
      side == IF Magnitude(error) > Guided.law.deadband THEN Sign(error) ELSE 0
      opposed == side # 0 /\ w.side # 0 /\ side # w.side
  IN  [w EXCEPT !.swings = IF opposed /\ @ < Guided.swings THEN @ + 1 ELSE @,
                !.side = IF side # 0 THEN side ELSE @]

Damped(c) == c.swings >= Guided.swings

\* The configuration runGuidance hands to the law: capped by the authority,
\* halved while oscillating and again in rough air.  (The cap for unreachable
\* targets is the same authority, and never the smaller one.)
Trimmed(c, s, most) ==
  LET half == (IF Damped(c) THEN 2 ELSE 1) * (IF s.rate = "calm" THEN 1 ELSE 2)
      g    == Guided.law
  IN  [g EXCEPT !.limit = Smaller(@, most) \div half,
                !.finalLimit = Smaller(@, most) \div half,
                !.slowLimit = Smaller(@, most),
                !.deadband = IF Damped(c) THEN (3 * @) \div 2 ELSE @]

\* runGuidance
RunGuidance(was, s, distance, slow, final, most, status, dt) ==
  LET c == Watch(was, s.error)
      r == ComputeGuidance(c.law, Trimmed(c, s, most),
             [gps |-> TRUE, final |-> final, alt |-> s.alt, distance |-> distance,
              error |-> s.error, slow |-> slow], dt)
  IN  [ctl |-> [c EXCEPT !.law = r.law, !.started = TRUE],
       out |-> [status |-> status, command |-> r.command, active |-> r.active]]

-----------------------------------------------------------------------------
(* step, from the gates inwards.                                            *)

\* A plausible fault: the loss is stamped again in every iteration.
UnguidedRestarts(was, s, dt) ==
  LET c == [was EXCEPT !.loss = 0]
  IN  IF Guided.hold /\ c.accepted # {} /\ c.loss <= Guided.holdTime
      THEN RunGuidance(c, s, Magnitude(CHOOSE p \in c.accepted : TRUE), FALSE, FALSE,
                       Smaller(Guided.law.limit, Guided.holdLimit),
                       "GPS_COURSE_HOLD", dt)
      ELSE IF c.loss >= Guided.navLoss THEN Faulted(c) ELSE Unwind(c, dt)

\* Navigation is lost in guided flight: a bounded course hold where the build
\* enables it, then a slow unwinding, then the latched fault.
Unguided(was, s, dt) ==
  LET c == [was EXCEPT !.loss = Started(@)]
  IN  IF Guided.hold /\ c.accepted # {} /\ c.loss <= Guided.holdTime
      THEN RunGuidance(c, s, Magnitude(CHOOSE p \in c.accepted : TRUE), FALSE, FALSE,
                       Smaller(Guided.law.limit, Guided.holdLimit),
                       "GPS_COURSE_HOLD", dt)
      ELSE IF c.loss >= Guided.navLoss THEN Faulted(c) ELSE Unwind(c, dt)

FinalApproach(s, pos) ==
  s.alt <= Guided.finalAlt \/ Magnitude(pos) <= Guided.finalRadius

Steer(c, s, pos, dt) ==
  RunGuidance(c, s, Magnitude(pos), s.slow, FinalApproach(s, pos), Guided.law.limit,
              IF FinalApproach(s, pos) THEN "FINAL_APPROACH" ELSE "GUIDANCE_ACTIVE",
              dt)

\* A plausible fault: a lost position does not end the confirmation.
NavigateUnconfirmed(was, s, pos, dt) ==
  LET c == Accept(was, s, pos)
  IN  IF ~Accepts(was, s, pos)
      THEN IF c.started THEN Unguided(c, s, dt) ELSE Neutral(c, Lost(c))
      ELSE IF c.candidate = Unset \/ c.candidate < Guided.navConfirm
           THEN Neutral([c EXCEPT !.loss = Unset, !.candidate = Started(@)],
                        "WAITING_NAVIGATION")
           ELSE Steer([c EXCEPT !.loss = Unset], s, pos, dt)

Navigate(was, s, pos, dt) ==
  LET c == Accept(was, s, pos)
  IN  IF ~Accepts(was, s, pos)
      THEN LET l == [c EXCEPT !.candidate = Unset]
           IN  IF l.started THEN Unguided(l, s, dt) ELSE Neutral(l, Lost(l))
      ELSE IF c.candidate = Unset \/ c.candidate < Guided.navConfirm
           THEN Neutral([c EXCEPT !.loss = Unset, !.candidate = Started(@)],
                        "WAITING_NAVIGATION")
           ELSE Steer([c EXCEPT !.loss = Unset], s, pos, dt)

\* A plausible fault: a spin forgives the navigation loss.
SpinForgets(was, dt) ==
  LET c == [was EXCEPT !.spinning = Started(@), !.loss = Unset]
  IN  IF c.spinning >= Guided.instability THEN Faulted(c) ELSE Unwind(c, dt)

\* The instability branch: it returns before the GPS is looked at.
Spin(was, dt) ==
  LET c == [was EXCEPT !.spinning = Started(@)]
  IN  IF c.spinning >= Guided.instability THEN Faulted(c) ELSE Unwind(c, dt)

Waiting(c) == [c EXCEPT !.candidate = Unset, !.loss = Unset]

\* uint32_t(now - release_confirm_ms) < deployment_neutral_ms; a release
\* stamped ahead of the loop's clock makes the difference wrap.
Deploying(since) == since \in 0 .. Guided.deployment - 1

\* A plausible fault: the observations of the recorder are not waited for.
DescendedAtOnce(c, s, seenBoth) == c.started \/ s.rate = "calm"

Descended(c, s, seenBoth) == seenBoth /\ (c.started \/ s.rate = "calm")

\* step, for a requested guided test that records; st and both are what the
\* recorder published in this iteration.
GuidedStep(c, st, both, since, s, pos, dt) ==
  IF st = "landed" THEN Neutral(c, "LANDED")
  ELSE IF c.fault \/ ~s.fresh THEN Faulted(c)
  ELSE IF st # "released" THEN Neutral(Waiting(c), "WAITING_RELEASE")
  ELSE IF Deploying(since) THEN Neutral(Waiting(c), "DEPLOYMENT_NEUTRAL")
  ELSE IF ~Descended(c, s, both)
       THEN Neutral([c EXCEPT !.candidate = Unset], "WAITING_STABLE_DESCENT")
  ELSE IF ~c.started /\ s.alt < Guided.minAlt
       THEN Neutral([c EXCEPT !.candidate = Unset], "WAITING_ALTITUDE")
  ELSE IF s.rate = "spin" THEN Spin(c, dt)
  ELSE Navigate([c EXCEPT !.spinning = Unset], s, pos, dt)

-----------------------------------------------------------------------------
(* A guided test over time.                                                 *)

VARIABLES
  since,     \* since release_confirm_ms; may be negative in its iteration
  ctl,       \* the GuidedDropController object of main.cpp
  out,       \* what its last step returned
  fix,       \* the position the receiver reports
  seen,      \* history: what the samples of this test showed
  guidedTests

guidedVars == <<stage, canopy, stable, since, ctl, out, fix, seen, guidedTests>>

\* Bound: no history is longer than what the properties compare it with.
LongestTick == CHOOSE t \in Ticks : \A u \in Ticks : u <= t
LossBound == Guided.navLoss + 2 * Guided.instability + 2 * LongestTick

Run(age, ok, dt, bound) ==
  IF ~ok THEN Unset ELSE IF age = Unset THEN 0 ELSE Smaller(age + dt, bound)

Unseen == [nav |-> Unset, lost |-> Unset, plausible |-> 0,
           dir |-> 0, turn |-> Unset, tick |-> 0]

Saw(h, was, now, o, s, dt) ==
  LET away == Sign(o.command) # 0 /\ Sign(o.command) # h.dir
      navigated == o.status \notin {"LANDED", "FAULT_NEUTRAL", "WAITING_RELEASE",
        "DEPLOYMENT_NEUTRAL", "WAITING_STABLE_DESCENT", "WAITING_ALTITUDE"}
      doubted == was.suspect /\ s.gps /\ navigated /\ s.rate # "spin"
  IN  [nav |-> Run(h.nav, s.gps /\ stage' = "released", dt, Guided.navConfirm),
       lost |-> Run(h.lost, ~Accepts(was, s, fix') /\ now.started /\ stage' = "released",
                   dt, LossBound),
       plausible |-> IF doubted /\ ~Jumped(was, fix')
                     THEN Smaller(h.plausible + 1, Guided.recovery) ELSE
                     IF doubted \/ ~was.suspect THEN 0 ELSE h.plausible,
       dir |-> IF Sign(o.command) = 0 THEN h.dir ELSE Sign(o.command),
       turn |-> IF away THEN 0 ELSE Run(h.turn, h.turn # Unset, dt, Guided.law.guard),
       tick |-> dt]

GuidedInit ==
  /\ StagesInit
  /\ since = 0
  /\ ctl = Fresh
  /\ out = Neutral(Fresh, "WAITING_RELEASE").out
  /\ fix \in Positions
  /\ seen = Unseen
  /\ guidedTests = 0

\* The receiver has a new fix, or repeats the last one.
Locate == fix' \in Positions

Stepped(c, s, dt, h) ==
  \E r \in {GuidedStep(Older(c, dt), stage', canopy' /\ stable', since', s, fix', dt)} :
    /\ ctl' = r.ctl
    /\ out' = r.out
    /\ seen' = Saw(h, c, r.ctl, r.out, s, dt)

\* An accepted ARM_GUIDED_DROP_TEST with the rest of its iteration.
ArmGuided(s, dt) ==
  /\ s.gps /\ s.fresh
  /\ guidedTests < MaxGuidedTests
  /\ guidedTests' = guidedTests + 1
  /\ ArmTest
  /\ since' = 0
  /\ Locate
  /\ Stepped(Fresh, s, dt, Unseen)

\* An iteration while the test records.
Fly(s, dt) ==
  /\ stage # "idle"
  /\ \/ ReleaseTest /\ \E skew \in Skews : since' = -skew
     \/ /\ Observe \/ UNCHANGED stageVars
        /\ since' = IF stage = "released" THEN Smaller(since + dt, Guided.deployment)
                    ELSE since
  /\ Locate
  /\ Stepped(ctl, s, dt, seen)
  /\ UNCHANGED guidedTests

\* The recording ends (publishDropTestOutput): the request is withdrawn and
\* the controller reset before its step, which is neutral.
EndGuided ==
  /\ EndTest
  /\ ctl' = Fresh
  /\ out' = Neutral(Fresh, "WAITING_RELEASE").out
  /\ since' = 0
  /\ seen' = Unseen
  /\ UNCHANGED <<fix, guidedTests>>

\* Iterations between two tests.
Rest == stage = "idle" /\ UNCHANGED guidedVars

GuidedNext ==
  \/ \E s \in Flights, dt \in Ticks : ArmGuided(s, dt) \/ Fly(s, dt)
  \/ EndGuided
  \/ Rest

GuidedSpec == GuidedInit /\ [][GuidedNext]_guidedVars

-----------------------------------------------------------------------------
(* Properties.                                                              *)

\* Every variable has its type, the limiter stays within the authority, and
\* the command is the limiter's or neutral.
GuidedTypeOK ==
  /\ ctl \in GuidedDropController
  /\ out \in GuidedOutput
  /\ ctl.law.value \in -Guided.law.limit .. Guided.law.limit
  /\ out.command \in {0, ctl.law.value}

\* No brake is pulled before the release is confirmed and canopy and stable
\* descent have been observed, after the landing, or once a fault is latched.
SteersOnlyAfterGates ==
  out.command # 0 => stage = "released" /\ canopy /\ stable /\ ctl.started /\ ~ctl.fault

\* The first steering of a test follows an uninterrupted confirmation of the
\* navigation.
FirstSteeringIsConfirmed ==
  [][~ctl.started /\ ctl'.started => seen'.nav >= Guided.navConfirm]_guidedVars

\* Without an acceptable position, be the fix lost or too far away, the brakes
\* are neutral for good after the loss and instability times at the latest,
\* however the two interrupt each other.
LossIsBounded == seen.lost >= LossBound => ctl.fault

\* The accepted position never jumps, and after a jump as many plausible
\* points as configured are needed before one is accepted.
JumpNeedsRecovery ==
  [][guidedTests' = guidedTests =>
       /\ \A p \in ctl.accepted, q \in ctl'.accepted : Magnitude(q - p) <= Guided.maxJump
       /\ stage' # "idle" /\ ctl.suspect /\ ~ctl'.suspect => seen'.plausible >= Guided.recovery]_guidedVars

\* A canopy must not be yanked about.  As long as the controller steers, the brakes
\* move no faster than the slew rate, through turns, refused turns and the unwinding
\* of a loss; and left and right never follow each other directly before the guard
\* time, whatever released the brakes in between.
SteeringIsGradual ==
  [][/\ out.active /\ out'.active =>
          Magnitude(out'.command - out.command) <= Guided.law.slew * seen'.tick
     /\ Sign(out.command) * Sign(out'.command) = -1 =>
          seen.turn + seen'.tick >= Guided.law.guard]_guidedVars

\* Where the build enables the course hold: it ends in time.
CourseHoldIsBounded ==
  out.status = "GPS_COURSE_HOLD" =>
    ctl.loss <= Guided.holdTime /\ seen.lost <= Guided.holdTime + Guided.instability + LongestTick

=============================================================================
