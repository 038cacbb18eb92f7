---------------------- MODULE FlightCoordinatorProofs ----------------------
(***************************************************************************)
(* Theorems about FlightCoordinator, for every confirmation time, timeout,  *)
(* loop period and set of sensor samples.  A step is a pipeline of stages   *)
(* over the coordinator record, so there is one lemma per stage: each       *)
(* preserves Sound, what is true of the record between any two stages.      *)
(***************************************************************************)
EXTENDS FlightCoordinator, TLAPS

\* The states that confirm something with held().
Held == Descent \cup {"PAD_SAFE", "ASCENT", "PARAFOIL_STABILIZATION"}

\* What holds of the coordinator record at every point of a step.
Sound(c) ==
  /\ c \in Coordinator
  /\ c.failure # "NONE" => c.state \in {"FAILSAFE_DESCENT", "LANDED"}
  /\ c.state = "FAILSAFE_DESCENT" => c.failure # "NONE"
  /\ Behind(c.state) \subseteq c.stamped
  /\ c.state \in Preflight => c.stamped = {}
  /\ c.state = "LANDED" =>
       c.stamped \cap {"GUIDED_DESCENT", "FAILSAFE_DESCENT"} # {}
  /\ c.state \notin Descent \cup {"LANDED"} => c.gpsLoss = Unset
  /\ c.logClosed => c.state = "LANDED"
  /\ c.state \notin Held => c.condition = Unset

\* What a stage before the state machine may do to the record c: nothing to
\* state and held timer, or the failsafe of a vehicle that had no failure.
Kept(c, d) ==
  /\ d.logClosed = c.logClosed
  /\ c.failure # "NONE" => d.failure = c.failure /\ d.state = c.state
  /\ \/ d.state = c.state /\ d.condition = c.condition
     \/ /\ d.state = "FAILSAFE_DESCENT" /\ d.condition = Unset
        /\ c.state \notin {"FAILSAFE_DESCENT", "LANDED"}

-----------------------------------------------------------------------------
(* Ages.                                                                    *)

\* An age that grows stays an age, and a timer keeps being unset or set.
LEMMA LaterType ==
  ASSUME NEW age \in Timer, NEW dt \in LoopPeriods
  PROVE  /\ Later(age, dt) \in Timer
         /\ age \in Age => Later(age, dt) \in Age
         /\ Later(age, dt) = Unset <=> age = Unset
  BY TimesAssumption, AgeCapIsNat, AgeCapAssumption DEF Later, Timer, Age, Unset

\* A condition that has just been seen to hold has a timer.
LEMMA StartedType == ASSUME NEW age \in Timer PROVE Started(age) \in Age
  BY AgeCapIsNat, AgeCapAssumption DEF Started, Timer, Age, Unset

\* Time passing changes nothing of the coordinator but its ages.
LEMMA ElapseSound ==
  ASSUME NEW c, Sound(c), NEW dt \in LoopPeriods
  PROVE  /\ Sound(Elapse(c, dt))
         /\ Elapse(c, dt).state = c.state
         /\ Elapse(c, dt).failure = c.failure
         /\ Elapse(c, dt).stamped = c.stamped
         /\ Elapse(c, dt).logClosed = c.logClosed
         /\ Elapse(c, dt).condition = Later(c.condition, dt)
  <1> DEFINE e == Elapse(c, dt)
  <1>1. c \in Coordinator
    BY DEF Sound
  <1>2. /\ Later(c.entry, dt) \in Age /\ Later(c.condition, dt) \in Timer
        /\ Later(c.gpsLoss, dt) \in Timer /\ Later(c.attempt, dt) \in Timer
        /\ c.gpsLoss = Unset => Later(c.gpsLoss, dt) = Unset
        /\ c.condition = Unset => Later(c.condition, dt) = Unset
    BY <1>1, LaterType DEF Coordinator, Timer
  <1>3. /\ e \in Coordinator
        /\ e.state = c.state /\ e.failure = c.failure /\ e.stamped = c.stamped
        /\ e.logClosed = c.logClosed /\ e.condition = Later(c.condition, dt)
        /\ e.gpsLoss = Later(c.gpsLoss, dt)
    BY <1>1, <1>2 DEF Elapse, Coordinator
  <1> QED BY <1>2, <1>3 DEF Sound

-----------------------------------------------------------------------------
(* Stages.                                                                  *)

\* Recording a transition sets the state, its instant and its timestamp.
LEMMA RecordTransitionType ==
  ASSUME NEW c \in Coordinator, NEW next \in FlightState
  PROVE  LET r == RecordTransition(c, next)
         IN  /\ r \in Coordinator
             /\ r.state = next /\ r.failure = c.failure
             /\ r.entry = 0 /\ r.condition = c.condition /\ r.gpsLoss = c.gpsLoss
             /\ r.stamped = c.stamped \cup ({next} \ Preflight)
             /\ r.logClosed = c.logClosed
  <1>1. 0 \in Age /\ c.stamped \cup ({next} \ Preflight) \in SUBSET FlightState
    BY AgeCapIsNat, AgeCapAssumption DEF Age, Coordinator
  <1> QED BY <1>1 DEF RecordTransition, Coordinator

\* Latching a failure keeps the record sound: either nothing changes, or a
\* vehicle without a failure goes to the failsafe with its timers cleared.
LEMMA LatchFailureSound ==
  ASSUME NEW c, Sound(c), NEW f \in FailCode
  PROVE  /\ Sound(LatchFailure(c, f))
         /\ Kept(c, LatchFailure(c, f))
         /\ f = "NONE" \/ c.failure # "NONE" => LatchFailure(c, f) = c
         /\ f # "NONE" => LatchFailure(c, f).failure # "NONE"
  <1> DEFINE l == LatchFailure(c, f)
  <1>1. c \in Coordinator /\ 0 \in Age /\ Unset \in Timer
    BY AgeCapIsNat, AgeCapAssumption DEF Sound, Age, Timer
  <1>2. CASE f = "NONE" \/ c.failure # "NONE"
    BY <1>2 DEF LatchFailure, Kept
  <1>3. CASE f # "NONE" /\ c.failure = "NONE" /\ c.state \in {"LANDED", "FAILSAFE_DESCENT"}
    <2>1. l = [c EXCEPT !.failure = f]
      BY <1>3 DEF LatchFailure
    <2>2. QED BY <1>1, <1>3, <2>1 DEF Sound, Kept, Coordinator
  <1>4. CASE f # "NONE" /\ c.failure = "NONE" /\ c.state \notin {"LANDED", "FAILSAFE_DESCENT"}
    <2>1. l = RecordTransition(Enter([c EXCEPT !.failure = f]), "FAILSAFE_DESCENT")
      BY <1>4 DEF LatchFailure
    <2>2. l = [c EXCEPT !.failure = f, !.condition = Unset, !.entry = 0,
                        !.state = "FAILSAFE_DESCENT",
                        !.stamped = @ \cup {"FAILSAFE_DESCENT"}]
      BY <1>1, <2>1 DEF RecordTransition, Enter, Coordinator, Preflight
    <2>3. "FAILSAFE_DESCENT" \in FlightState
      BY DEF FlightState
    <2>4. /\ l \in Coordinator /\ l.failure = f /\ l.state = "FAILSAFE_DESCENT"
          /\ l.condition = Unset /\ l.logClosed = c.logClosed
          /\ "FAILSAFE_DESCENT" \in l.stamped
      BY <1>1, <2>2, <2>3 DEF Coordinator
    <2>5. c.logClosed = FALSE
      BY <1>1, <1>4 DEF Sound, Coordinator
    <2>6. Behind(l.state) \subseteq l.stamped
      BY <2>4 DEF Behind, Guided
    <2> QED BY <1>4, <2>4, <2>5, <2>6 DEF Sound, Kept, Descent, Preflight, Held
  <1> QED BY <1>2, <1>3, <1>4

\* Passing two stages that keep the record keeps it.
LEMMA KeptTransitive ==
  ASSUME NEW c, NEW d, NEW e, Kept(c, d), Kept(d, e) PROVE Kept(c, e)
  BY DEF Kept

\* The checks of the airborne sensors keep the record sound.
LEMMA SensedSound ==
  ASSUME NEW c, Sound(c), NEW s \in Samples
  PROVE  /\ Sound(Sensed(c, s)) /\ Kept(c, Sensed(c, s))
         /\ AirborneFault(c, s) = "NONE" => Sensed(c, s) = c
  <1>1. AirborneFault(c, s) \in FailCode
    BY DEF AirborneFault, FailCode
  <1> QED BY <1>1, LatchFailureSound DEF Sensed

\* So does the preflight launch tripwire.
LEMMA TrippedSound ==
  ASSUME NEW c, Sound(c), NEW s \in Samples
  PROVE  /\ Sound(Tripped(c, s)) /\ Kept(c, Tripped(c, s))
         /\ c.state \notin Preflight =>
              /\ Tripped(c, s).failure = c.failure
              /\ Tripped(c, s).state = c.state
  <1> DEFINE a == [c EXCEPT !.attempt = Started(@)]
             b == [a EXCEPT !.blocked = TRUE]
             f == ReadinessFailure(s)
  <1>1. c \in Coordinator /\ Started(c.attempt) \in Age
    BY StartedType DEF Sound, Coordinator
  <1>2. f \in FailCode
    BY DEF ReadinessFailure, FailCode
  <1>3. Sound(a) /\ Kept(c, a)
    BY <1>1 DEF Sound, Kept, Coordinator, Timer
  <1>4. Sound(b) /\ Kept(c, b)
    <2>1. a \in Coordinator
      BY <1>3 DEF Sound
    <2>2. Sound(b) /\ Kept(a, b)
      BY <1>3, <2>1 DEF Sound, Kept, Coordinator
    <2> QED BY <1>3, <2>2, KeptTransitive
  <1>5. CASE ~(LaunchAttempt(c, s) /\ f # "NONE")
    <2>1. Tripped(c, s) = [c EXCEPT !.attempt = Unset]
      BY <1>5 DEF Tripped
    <2> QED BY <1>1, <2>1 DEF Sound, Kept, Coordinator, Timer
  <1>6. CASE LaunchAttempt(c, s) /\ f # "NONE"
    <2>1. Tripped(c, s) = IF a.attempt >= LaunchConfirm THEN LatchFailure(b, f) ELSE a
      BY <1>6 DEF Tripped
    <2>2. Sound(LatchFailure(b, f)) /\ Kept(c, LatchFailure(b, f))
      BY <1>2, <1>4, LatchFailureSound, KeptTransitive
    <2>3. c.state \in Preflight
      BY <1>6 DEF LaunchAttempt
    <2> QED BY <1>3, <2>1, <2>2, <2>3
  <1> QED BY <1>5, <1>6

\* Hence the record that enters the state machine is sound.
LEMMA GuardedSound ==
  ASSUME NEW c, Sound(c), NEW s \in Samples, NEW dt \in LoopPeriods
  PROVE  /\ Sound(Guarded(c, s, dt))
         /\ Kept(Elapse(c, dt), Guarded(c, s, dt))
  BY ElapseSound, SensedSound, TrippedSound, KeptTransitive DEF Guarded

-----------------------------------------------------------------------------
(* The state machine.                                                       *)

\* Updating the two held timers keeps the record sound.
LEMMA HoldingSound ==
  ASSUME NEW c, Sound(c), c.state \in Held, NEW s \in Samples
  PROVE  LET h == Holding(c, s)
         IN  /\ Sound(h)
             /\ h.state = c.state /\ h.failure = c.failure
             /\ h.logClosed = c.logClosed /\ h.gpsLoss = c.gpsLoss
             /\ h.entry = c.entry /\ h.stamped = c.stamped
             /\ h.condition =
                  IF Evidence(c.state, s) THEN Started(c.condition) ELSE Unset
  <1>1. c \in Coordinator /\ Started(c.condition) \in Timer /\ Unset \in Timer
    BY StartedType DEF Sound, Coordinator, Timer
  <1> QED BY <1>1 DEF Holding, Sound, Coordinator

LEMMA GpsLossTimerSound ==
  ASSUME NEW c, Sound(c), NEW s \in Samples
  PROVE  LET g == GpsLossTimer(c, s)
         IN  /\ Sound(g)
             /\ g.state = c.state /\ g.failure = c.failure
             /\ g.logClosed = c.logClosed /\ g.condition = c.condition
             /\ g.entry = c.entry /\ g.stamped = c.stamped
             /\ s.gps => g.gpsLoss = Unset
  <1>1. c \in Coordinator /\ Started(c.gpsLoss) \in Timer /\ Unset \in Timer
    BY StartedType DEF Sound, Coordinator, Timer
  <1>2. Guided \subseteq Descent
    BY DEF Descent
  <1> QED BY <1>1, <1>2 DEF GpsLossTimer, Sound, Coordinator

\* The transitions of a flight without a failure.
Forward(from, to) ==
  \/ from \in Descent /\ to = "LANDED"
  \/ <<from, to>> \in
       {<<"BOOT", "SELF_TEST">>, <<"SELF_TEST", "PAD_SAFE">>, <<"PAD_SAFE", "ASCENT">>,
        <<"ASCENT", "APOGEE_CONFIRMED">>, <<"APOGEE_CONFIRMED", "DEPLOYMENT_WAIT">>,
        <<"DEPLOYMENT_WAIT", "PARAFOIL_STABILIZATION">>,
        <<"PARAFOIL_STABILIZATION", "GUIDED_DESCENT">>,
        <<"GUIDED_DESCENT", "FINAL_APPROACH">>, <<"FINAL_APPROACH", "FLARE">>}

\* Latching the result of a forward transition.
LEMMA ForwardSound ==
  ASSUME NEW c, Sound(c), NEW to, Forward(c.state, to),
         c.failure = "NONE" \/ to = "LANDED"
  PROVE  LET u == Latched(Result(c, to, c.failure))
         IN  /\ Sound(u)
             /\ u.state = to /\ u.failure = c.failure
             /\ u.logClosed = c.logClosed /\ u.condition = Unset
             /\ u.entry = 0 /\ u.gpsLoss = c.gpsLoss
  <1> DEFINE r == Result(c, to, c.failure)
             e == Enter(c)
             u == Latched(r)
  <1>1. c \in Coordinator /\ 0 \in Age /\ Unset \in Timer
    BY AgeCapIsNat, AgeCapAssumption DEF Sound, Age, Timer
  <1>2. to # c.state /\ to \in FlightState
    BY DEF Forward, FlightState, Preflight, Airborne, Descent, Guided
  <1>3. r = [core |-> e, next |-> to, fail |-> c.failure]
    BY <1>2 DEF Result
  <1>4. /\ e \in Coordinator /\ e.state = c.state /\ e.failure = c.failure
        /\ e.entry = 0 /\ e.condition = Unset /\ e.gpsLoss = c.gpsLoss
        /\ e.stamped = c.stamped /\ e.logClosed = c.logClosed
    BY <1>1 DEF Enter, Coordinator
  <1>5. u = RecordTransition(e, to)
    <2>1. LatchFailure(e, c.failure) = e
      BY <1>4 DEF LatchFailure
    <2> QED BY <1>2, <1>3, <1>4, <2>1 DEF Latched
  <1>6. /\ u \in Coordinator /\ u.state = to /\ u.failure = c.failure
        /\ u.entry = 0 /\ u.condition = Unset /\ u.gpsLoss = c.gpsLoss
        /\ u.stamped = c.stamped \cup ({to} \ Preflight)
        /\ u.logClosed = c.logClosed
    BY <1>2, <1>4, <1>5, RecordTransitionType
  <1>7. c.logClosed = FALSE
    BY <1>1 DEF Sound, Forward, Coordinator, Descent, Guided
  <1>8. c.state \in Descent =>
          c.stamped \cap {"GUIDED_DESCENT", "FAILSAFE_DESCENT"} # {}
    BY DEF Sound, Behind, Descent, Guided
  <1>9. /\ Behind(to) \subseteq u.stamped
        /\ to \in Preflight => u.stamped = {}
        /\ to = "LANDED" => u.stamped \cap {"GUIDED_DESCENT", "FAILSAFE_DESCENT"} # {}
    BY <1>6, <1>8 DEF Sound, Forward, Behind, Preflight, Guided, Descent
  <1>10. to \notin Descent \cup {"LANDED"} => u.gpsLoss = Unset
    BY <1>6 DEF Sound, Forward, Descent, Guided
  <1>11. /\ u.failure # "NONE" => u.state \in {"FAILSAFE_DESCENT", "LANDED"}
         /\ u.state = "FAILSAFE_DESCENT" => u.failure # "NONE"
    BY <1>6 DEF Forward
  <1>12. Sound(u)
    BY <1>6, <1>7, <1>9, <1>10, <1>11 DEF Sound
  <1> QED BY <1>6, <1>12

\* Latching a failure that the state machine found, or keeping the one that
\* was latched before.
LEMMA FailureSound ==
  ASSUME NEW c, Sound(c), NEW f \in FailCode \ {"NONE"},
         \/ c.failure = "NONE" /\ c.state # "LANDED"
         \/ c.failure = f
  PROVE  LET u == Latched(Result(c, "FAILSAFE_DESCENT", f))
         IN  /\ Sound(u) /\ u.failure = f
             /\ u.logClosed = c.logClosed
             /\ c.failure # "NONE" => u.state = c.state
             /\ c.failure = "NONE" => u.state = "FAILSAFE_DESCENT"
             /\ u.condition = IF u.state = c.state /\ c.state # "LANDED"
                              THEN c.condition ELSE Unset
  <1> DEFINE e == IF c.state = "FAILSAFE_DESCENT" THEN c ELSE Enter(c)
             u == Latched(Result(c, "FAILSAFE_DESCENT", f))
  <1>1. c \in Coordinator /\ 0 \in Age /\ Unset \in Timer
    BY AgeCapIsNat, AgeCapAssumption DEF Sound, Age, Timer
  <1>2. /\ Sound(e) /\ e.state = c.state /\ e.failure = c.failure
        /\ e.logClosed = c.logClosed
        /\ e.condition = IF c.state = "FAILSAFE_DESCENT" THEN c.condition ELSE Unset
    BY <1>1 DEF Enter, Sound, Coordinator
  <1>3. Result(c, "FAILSAFE_DESCENT", f)
          = [core |-> e, next |-> "FAILSAFE_DESCENT", fail |-> f]
    BY DEF Result
  <1>4. u = LatchFailure(e, f)
    <2>1. LatchFailure(e, f).failure # "NONE"
      BY <1>2, LatchFailureSound
    <2> QED BY <1>3, <2>1 DEF Latched
  <1>5. CASE c.failure = "NONE" /\ c.state # "LANDED"
    <2>1. c.state # "FAILSAFE_DESCENT"
      BY <1>5 DEF Sound
    <2>2. u = RecordTransition(Enter([e EXCEPT !.failure = f]), "FAILSAFE_DESCENT")
      BY <1>2, <1>4, <1>5, <2>1 DEF LatchFailure
    <2>3. LET x == Enter([e EXCEPT !.failure = f])
          IN  /\ x \in Coordinator /\ x.failure = f /\ x.condition = Unset
              /\ x.logClosed = e.logClosed
      BY <1>1, <1>2 DEF Enter, Sound, Coordinator
    <2>4. "FAILSAFE_DESCENT" \in FlightState
      BY DEF FlightState
    <2>5. /\ u.state = "FAILSAFE_DESCENT" /\ u.failure = f /\ u.condition = Unset
          /\ u.logClosed = c.logClosed
      BY <1>2, <2>2, <2>3, <2>4, RecordTransitionType
    <2>6. Sound(u)
      BY <1>2, <1>4, LatchFailureSound
    <2> QED BY <1>5, <2>1, <2>5, <2>6
  <1>6. CASE c.failure = f
    <2>1. u = e
      BY <1>2, <1>4, <1>6 DEF LatchFailure
    <2>2. c.state \in {"FAILSAFE_DESCENT", "LANDED"}
      BY <1>6 DEF Sound
    <2> QED BY <1>2, <1>6, <2>1, <2>2
  <1> QED BY <1>5, <1>6

\* A step of the state machine that changes nothing.
LEMMA StaySound ==
  ASSUME NEW c, Sound(c), c.failure = "NONE"
  PROVE  Latched(Result(c, c.state, "NONE")) = c
  BY DEF Latched, Result, LatchFailure

-----------------------------------------------------------------------------
(* One update of the state machine.                                         *)

ConfirmedStates == {"ASCENT", "APOGEE_CONFIRMED", "GUIDED_DESCENT", "LANDED"}

Timely(u) ==
  /\ u.state \in Guided => u.gpsLoss < GpsLossTimeout
  /\ u.state = "PARAFOIL_STABILIZATION" => u.entry < MaxStabilization
  /\ u.state = "DEPLOYMENT_WAIT" => u.entry < DeploymentWait

\* How the record u that leaves the state machine relates to the record g
\* that entered it with the sample s.
Stays(g, s, u) ==
  /\ u.state = g.state /\ u.failure = g.failure
  /\ u.condition = IF g.state \in Held /\ Evidence(g.state, s)
                   THEN Started(g.condition) ELSE Unset
  /\ u.condition < ConfirmTime(u.state)

Fails(g, u) ==
  /\ g.failure = "NONE" /\ u.failure # "NONE" /\ g.state # "LANDED"
  /\ u.state = "FAILSAFE_DESCENT" /\ u.condition = Unset

Moves(g, s, u) ==
  /\ Forward(g.state, u.state) /\ u.failure = g.failure /\ u.condition = Unset
  /\ g.failure = "NONE" \/ u.state = "LANDED"
  /\ u.state \in ConfirmedStates =>
       Evidence(g.state, s) /\ Started(g.condition) >= ConfirmTime(g.state)

Update(g, s, u) ==
  /\ Sound(u) /\ Timely(u) /\ u.logClosed = g.logClosed
  /\ Stays(g, s, u) \/ Fails(g, u) \/ Moves(g, s, u)

\* Every confirmation time is positive, so an unset timer confirms nothing.
LEMMA ConfirmTimePositive ==
  ASSUME NEW state PROVE ConfirmTime(state) \in Nat \ {0} /\ Unset < ConfirmTime(state)
  BY TimesAssumption DEF ConfirmTime, Unset

\* A timer that does not confirm is below the confirmation time.
LEMMA Unconfirmed ==
  ASSUME NEW c, Sound(c), ~Confirmed(c) PROVE c.condition < ConfirmTime(c.state)
  <1>1. c.condition \in Int /\ ConfirmTime(c.state) \in Int
    BY ConfirmTimePositive DEF Sound, Coordinator, Timer, Age, Unset
  <1> QED BY <1>1 DEF Confirmed

\* A confirmed timer is one whose evidence holds in this very sample.
LEMMA ConfirmedHeld ==
  ASSUME NEW c, Sound(c), c.state \in Held, NEW s \in Samples,
         Confirmed(Holding(c, s))
  PROVE  Evidence(c.state, s) /\ Started(c.condition) >= ConfirmTime(c.state)
  <1>1. Holding(c, s).state = c.state
    BY HoldingSound
  <1>2. Holding(c, s).condition >= ConfirmTime(c.state)
    BY <1>1 DEF Confirmed
  <1>3. Holding(c, s).condition # Unset
    BY <1>2, ConfirmTimePositive DEF Unset
  <1> QED BY <1>2, <1>3, HoldingSound

\* The switch on the state.
LEMMA ProgressSound ==
  ASSUME NEW g, Sound(g), g.failure = "NONE", NEW s \in Samples,
         g.state \in Descent =>
           /\ g.condition = IF Evidence(g.state, s) THEN Started(g.condition) ELSE Unset
           /\ g.condition < ConfirmTime(g.state)
           /\ g.state \in Guided => g.gpsLoss < GpsLossTimeout
  PROVE  Update(g, s, Latched(Progress(g, s)))
  <1> DEFINE h == Holding(g, s)
             u == Latched(Progress(g, s))
             Unheld == IF g.state \in Held /\ Evidence(g.state, s)
                       THEN Started(g.condition) ELSE Unset
  <1>1. g.state \in FlightState /\ g \in Coordinator
    BY DEF Sound, Coordinator
  <1>2. /\ 0 < MaxStabilization /\ 0 < DeploymentWait /\ Unset < GpsLossTimeout
        /\ Guided \subseteq Descent /\ Descent \subseteq Held
    BY TimesAssumption DEF Unset, Descent, Held
  \* A transition that needs no confirmation.
  <1>3. ASSUME NEW to, Forward(g.state, to), to \notin ConfirmedStates,
               Progress(g, s) = Result(g, to, "NONE")
        PROVE  Update(g, s, u)
    <2>1. /\ Sound(u) /\ u.state = to /\ u.failure = "NONE" /\ u.entry = 0
          /\ u.logClosed = g.logClosed /\ u.condition = Unset /\ u.gpsLoss = g.gpsLoss
      BY <1>3, ForwardSound
    <2>2. to \in Guided => g.gpsLoss < GpsLossTimeout
      BY <1>2, <1>3 DEF Forward, Guided, Descent, ConfirmedStates
    <2> QED BY <1>2, <1>3, <2>1, <2>2 DEF Update, Timely, Moves
  \* No transition, where nothing is held.
  <1>4. ASSUME Progress(g, s) = Result(g, g.state, "NONE"),
               g.state \notin Held \ Descent,
               g.state = "DEPLOYMENT_WAIT" => g.entry < DeploymentWait
        PROVE  Update(g, s, u)
    <2>1. u = g
      BY <1>4, StaySound
    <2>2. g.condition = Unheld /\ g.condition < ConfirmTime(g.state)
      BY <1>2, <1>4, ConfirmTimePositive DEF Sound
    <2>3. Timely(g)
      BY <1>2, <1>4 DEF Timely, Held, Descent, Guided
    <2> QED BY <2>1, <2>2, <2>3 DEF Update, Stays
  \* A confirmation on the way.
  <1>5. ASSUME NEW to, Forward(g.state, to), g.state \in Held \ Descent,
               g.state = "PARAFOIL_STABILIZATION" => g.entry < MaxStabilization,
               Progress(g, s) = Result(h, IF Confirmed(h) THEN to ELSE g.state, "NONE")
        PROVE  Update(g, s, u)
    <2>1. /\ Sound(h) /\ h.state = g.state /\ h.failure = "NONE" /\ h.entry = g.entry
          /\ h.logClosed = g.logClosed /\ h.gpsLoss = g.gpsLoss /\ h.condition = Unheld
      BY <1>5, HoldingSound
    <2>2. CASE Confirmed(h)
      <3>1. u = Latched(Result(h, to, h.failure))
        BY <1>5, <2>1, <2>2
      <3>2. Evidence(g.state, s) /\ Started(g.condition) >= ConfirmTime(g.state)
        BY <1>5, <2>2, ConfirmedHeld
      <3>3. /\ Sound(u) /\ u.state = to /\ u.failure = "NONE" /\ u.entry = 0
            /\ u.logClosed = g.logClosed /\ u.condition = Unset /\ u.gpsLoss = g.gpsLoss
        BY <1>5, <2>1, <3>1, ForwardSound
      <3>4. g.gpsLoss = Unset
        BY <1>5 DEF Sound, Held, Descent
      <3> QED BY <1>2, <1>5, <3>2, <3>3, <3>4 DEF Update, Timely, Moves
    <2>3. CASE ~Confirmed(h)
      <3>1. u = h
        BY <1>5, <2>1, <2>3, StaySound
      <3>2. Timely(h)
        BY <1>2, <1>5, <2>1 DEF Timely, Held
      <3>3. h.condition < ConfirmTime(h.state)
        BY <2>1, <2>3, Unconfirmed
      <3> QED BY <2>1, <3>1, <3>2, <3>3 DEF Update, Stays
    <2> QED BY <2>2, <2>3
  <1>6. CASE g.state = "BOOT"
    BY <1>3, <1>6 DEF Progress, Forward, ConfirmedStates
  <1>7. CASE g.state = "SELF_TEST"
    BY <1>3, <1>4, <1>7 DEF Progress, Forward, ConfirmedStates, Held
  <1>8. CASE g.state = "PAD_SAFE"
    BY <1>5, <1>8 DEF Progress, Forward, Held, Descent, Guided
  <1>9. CASE g.state = "ASCENT"
    BY <1>5, <1>9 DEF Progress, Forward, Held, Descent, Guided
  <1>10. CASE g.state = "APOGEE_CONFIRMED"
    BY <1>3, <1>10 DEF Progress, Forward, ConfirmedStates
  <1>11. CASE g.state = "DEPLOYMENT_WAIT"
    <2>1. g.entry \in Int /\ DeploymentWait \in Int
      BY <1>1, TimesAssumption DEF Coordinator, Age
    <2> QED BY <1>3, <1>4, <1>11, <2>1 DEF Progress, Forward, ConfirmedStates, Held
  <1>12. CASE g.state = "PARAFOIL_STABILIZATION"
    <2>1. CASE g.entry >= MaxStabilization
      <3>1. Progress(g, s) = Result(g, "FAILSAFE_DESCENT", "STABILIZATION_TIMEOUT")
        BY <1>12, <2>1 DEF Progress
      <3>2. /\ Sound(u) /\ u.failure = "STABILIZATION_TIMEOUT"
            /\ u.logClosed = g.logClosed /\ u.state = "FAILSAFE_DESCENT"
            /\ u.condition = Unset
        BY <1>12, <3>1, FailureSound DEF FailCode
      <3> QED BY <1>12, <3>2 DEF Update, Timely, Fails, Guided
    <2>2. CASE ~(g.entry >= MaxStabilization)
      <3>1. g.entry < MaxStabilization
        BY <1>1, <2>2, TimesAssumption DEF Coordinator, Age
      <3> QED BY <1>5, <1>12, <2>2, <3>1 DEF Progress, Forward, Held, Descent, Guided
    <2> QED BY <2>1, <2>2
  <1>13. CASE g.state = "GUIDED_DESCENT"
    BY <1>3, <1>4, <1>13 DEF Progress, Forward, ConfirmedStates, Descent, Guided
  <1>14. CASE g.state = "FINAL_APPROACH"
    BY <1>3, <1>4, <1>14 DEF Progress, Forward, ConfirmedStates, Descent, Guided
  <1>15. CASE g.state \in {"FLARE", "LANDED", "FAILSAFE_DESCENT"}
    BY <1>4, <1>15 DEF Progress, Descent, Held, Guided
  <1> QED
    BY <1>1, <1>6, <1>7, <1>8, <1>9, <1>10, <1>11, <1>12, <1>13, <1>14, <1>15
    DEF FlightState, Preflight, Airborne, Guided

\* updateStateMachine with the latching of its result.
LEMMA UpdateSound ==
  ASSUME NEW g, Sound(g), NEW s \in Samples
  PROVE  Update(g, s, Latched(UpdateStateMachine(g, s)))
  <1> DEFINE h == IF g.state \in Descent THEN Holding(g, s) ELSE g
             t == GpsLossTimer(h, s)
             u == Latched(UpdateStateMachine(g, s))
  <1>1. Descent \subseteq Held /\ Guided \subseteq Descent /\ g \in Coordinator
    BY DEF Held, Descent, Sound
  <1>2. /\ Sound(h) /\ h.state = g.state /\ h.failure = g.failure
        /\ h.logClosed = g.logClosed
        /\ h.condition = IF g.state \in Descent
                         THEN IF Evidence(g.state, s) THEN Started(g.condition) ELSE Unset
                         ELSE g.condition
    BY <1>1, HoldingSound
  <1>3. /\ Sound(t) /\ t.state = g.state /\ t.failure = g.failure
        /\ t.logClosed = g.logClosed /\ t.condition = h.condition
        /\ s.gps => t.gpsLoss = Unset
    BY <1>2, GpsLossTimerSound
  <1>4. CASE g.state \in Descent /\ Confirmed(h)
    <2>1. u = Latched(Result(h, "LANDED", h.failure))
      BY <1>2, <1>4 DEF UpdateStateMachine
    <2>2. Forward(h.state, "LANDED")
      BY <1>2, <1>4 DEF Forward
    <2>3. /\ Sound(u) /\ u.state = "LANDED" /\ u.failure = g.failure
          /\ u.logClosed = g.logClosed /\ u.condition = Unset
      BY <1>2, <2>1, <2>2, ForwardSound
    <2>4. Evidence(g.state, s) /\ Started(g.condition) >= ConfirmTime(g.state)
      BY <1>1, <1>4, ConfirmedHeld
    <2> QED BY <1>2, <2>2, <2>3, <2>4 DEF Update, Timely, Moves, Guided
  <1>5. CASE ~(g.state \in Descent /\ Confirmed(h)) /\ g.failure # "NONE"
    <2>1. u = Latched(Result(h, "FAILSAFE_DESCENT", h.failure))
      BY <1>2, <1>5 DEF UpdateStateMachine
    <2>2. g.state \in {"FAILSAFE_DESCENT", "LANDED"} /\ g.failure \in FailCode
      BY <1>1, <1>5 DEF Sound, Coordinator
    <2>3. /\ Sound(u) /\ u.failure = g.failure /\ u.logClosed = g.logClosed
          /\ u.state = g.state
          /\ u.condition = IF u.state = g.state /\ g.state # "LANDED"
                           THEN h.condition ELSE Unset
      BY <1>2, <1>5, <2>1, <2>2, FailureSound
    <2>4. u.condition < ConfirmTime(u.state)
      <3>1. g.state # "LANDED" => h.condition < ConfirmTime(g.state)
        BY <1>2, <1>5, <2>2, Unconfirmed DEF Descent
      <3> QED BY <2>3, <3>1, ConfirmTimePositive
    <2>5. Stays(g, s, u)
      BY <1>2, <2>2, <2>3, <2>4 DEF Stays, Held, Descent, Guided
    <2> QED BY <2>2, <2>3, <2>5 DEF Update, Timely, Guided
  <1>6. CASE /\ ~(g.state \in Descent /\ Confirmed(h)) /\ g.failure = "NONE"
             /\ g.state \in Guided /\ ~s.gps /\ t.gpsLoss >= GpsLossTimeout
    <2>1. u = Latched(Result(t, "FAILSAFE_DESCENT", "GPS_TIMEOUT"))
      BY <1>6 DEF UpdateStateMachine
    <2>2. /\ Sound(u) /\ u.failure = "GPS_TIMEOUT" /\ u.logClosed = g.logClosed
          /\ u.state = "FAILSAFE_DESCENT" /\ u.condition = Unset
      BY <1>3, <1>6, <2>1, FailureSound DEF FailCode, Guided
    <2> QED BY <1>6, <2>2 DEF Update, Timely, Fails, Guided
  <1>7. CASE /\ ~(g.state \in Descent /\ Confirmed(h)) /\ g.failure = "NONE"
             /\ ~(g.state \in Guided /\ ~s.gps /\ t.gpsLoss >= GpsLossTimeout)
    <2>1. u = Latched(Progress(t, s))
      BY <1>7 DEF UpdateStateMachine
    <2>2. t.gpsLoss \in Timer /\ Unset < GpsLossTimeout /\ s \in Sample
      BY <1>3, SamplesAssumption, TimesAssumption DEF Sound, Coordinator, Unset
    <2>3. g.state \in Guided => t.gpsLoss < GpsLossTimeout
      BY <1>3, <1>7, <2>2, TimesAssumption, AgeCapIsNat, AgeCapAssumption DEF Timer, Age, Unset, Sample
    <2>4. Started(Started(g.condition)) = Started(g.condition) /\ Started(g.condition) # Unset
      BY <1>1, StartedType DEF Started, Unset, Coordinator, Age
    <2>5. Update(t, s, u)
      <3>1. t.state \in Descent => t.condition < ConfirmTime(t.state)
        BY <1>2, <1>3, <1>7, Unconfirmed
      <3> QED BY <1>2, <1>3, <1>7, <2>1, <2>3, <2>4, <3>1, ProgressSound
    <2>6. Started(t.condition) = Started(g.condition) \/ ~Evidence(g.state, s)
      BY <1>2, <1>3, <2>4
    <2> QED BY <1>3, <2>5, <2>6 DEF Update, Stays, Fails, Moves
  <1> QED BY <1>4, <1>5, <1>6, <1>7

-----------------------------------------------------------------------------
(* The invariant.                                                           *)

\* The timer of held() never runs ahead of the evidence it stands for.
Measured(c, r) ==
  c.condition # Unset => r.phase = c.state /\ c.condition <= r.age

\* Nor does it run behind: it is the age of the evidence and has not confirmed yet.
\* Only the landing follows the failsafe, so that no earlier evidence of it is left.
Heeded(c, r) ==
  /\ r.phase = c.state => r.age = c.condition /\ c.condition < ConfirmTime(c.state)
  /\ r.phase = "FAILSAFE_DESCENT" => c.state \in {"FAILSAFE_DESCENT", "LANDED"}

IInv ==
  /\ TypeOK
  /\ Sound(fc)
  /\ Timely(fc)
  /\ fc.state = "LANDED" => fc.logClosed
  /\ Measured(fc, run)
  /\ Heeded(fc, run)
  /\ BrakesOnlyInHealthyDescent

\* Closing the log touches nothing but its flag.
LEMMA CloseLogSound ==
  ASSUME NEW c, Sound(c)
  PROVE  LET d == CloseLog(c)
         IN  /\ Sound(d) /\ d.state = c.state /\ d.failure = c.failure
             /\ d.condition = c.condition /\ d.gpsLoss = c.gpsLoss
             /\ d.entry = c.entry /\ d.stamped = c.stamped
             /\ d.logClosed <=> d.state = "LANDED"
  BY DEF CloseLog, Sound, Coordinator

\* Brakes leave neutral in a healthy descent only, for every sample.
LEMMA BrakesSound ==
  ASSUME NEW c, Sound(c), NEW s \in Samples, NEW steers \in BOOLEAN
  PROVE  /\ Brakes(c, s, steers) \in {"neutral", "remote", "steer"}
         /\ Brakes(c, s, steers) # "neutral" =>
              c.state \in Guided \cup {"FLARE"} /\ c.failure = "NONE"
  BY DEF Brakes, FailsafeActive, Mode, RemoteAllowed, Guided, Sound

LEMMA OutputsType ==
  ASSUME NEW c0, NEW c, Sound(c), NEW s \in Samples, NEW steers \in BOOLEAN
  PROVE  /\ Outputs(c0, c, s, steers) \in Output
         /\ Outputs(c0, c, s, steers).brakes = Brakes(c, s, steers)
         /\ Outputs(c0, c, s, steers).closeLog = (c.state = "LANDED" /\ ~c.logClosed)
  <1>1. Mode(c, s) \in {"MODE_DISABLED", "MODE_FAILSAFE", "REMOTE_MANUAL", "FLARE",
                        "HEADING_TO_TARGET", "FINAL_APPROACH"}
    BY DEF Mode
  <1>2. Brakes(c, s, steers) \in {"neutral", "remote", "steer"}
    BY BrakesSound
  <1> QED BY <1>1, <1>2 DEF Outputs, Output

\* Saturating ages keep their order as time passes.
LEMMA LaterMonotone ==
  ASSUME NEW a \in Age, NEW b \in Age, a <= b, NEW dt \in LoopPeriods
  PROVE  Later(a, dt) <= Later(b, dt)
  BY TimesAssumption, AgeCapIsNat, AgeCapAssumption DEF Later, Age, Unset

\* What one step does: the record g that enters the state machine, the
\* record c that leaves it, and the history of the evidence.
LEMMA StepStages ==
  ASSUME IInv, NEW s \in Samples, NEW dt \in LoopPeriods, NEW steers \in BOOLEAN,
         Step(s, dt, steers)
  PROVE  \E g, c :
           /\ g = Guarded(fc, s, dt) /\ Sound(g) /\ Kept(fc, [g EXCEPT !.condition =
                IF g.state = fc.state THEN fc.condition ELSE Unset])
           /\ Update(g, s, c)
           /\ fc' = CloseLog(c) /\ out' = Outputs(fc, c, s, steers)
           /\ run' = Observed(g, s, dt) /\ boots' = boots
           /\ run' \in [phase : FlightState, age : Timer]
           /\ run'.phase = g.state
           /\ Evidence(g.state, s) => run'.age # Unset /\ Started(g.condition) <= run'.age
           /\ run'.age = IF Evidence(g.state, s) THEN Started(g.condition) ELSE Unset
  <1> DEFINE g == Guarded(fc, s, dt)
             c == Latched(UpdateStateMachine(g, s))
             e == Elapse(fc, dt)
  <1>1. /\ fc' = CloseLog(c) /\ out' = Outputs(fc, c, s, steers)
        /\ run' = Observed(g, s, dt) /\ boots' = boots
    BY DEF Step
  <1>2. Sound(fc) /\ Sound(g) /\ Kept(e, g)
    BY GuardedSound DEF IInv
  <1>3. Update(g, s, c)
    BY <1>2, UpdateSound
  <1>4. /\ e.state = fc.state /\ e.failure = fc.failure /\ e.logClosed = fc.logClosed
        /\ e.condition = Later(fc.condition, dt)
    BY <1>2, ElapseSound
  <1>5. g \in Coordinator /\ fc \in Coordinator
    BY <1>2 DEF Sound
  <1>6. Kept(fc, [g EXCEPT !.condition = IF g.state = fc.state THEN fc.condition ELSE Unset])
    BY <1>2, <1>4, <1>5 DEF Kept, Coordinator
  <1>7. /\ run.phase \in FlightState /\ run.age \in Timer
        /\ Later(run.age, dt) \in Timer /\ 0 \in Age
        /\ run.age # Unset => Later(run.age, dt) \in Age
    <2>1. run.phase \in FlightState /\ run.age \in Timer
      BY DEF IInv, TypeOK
    <2>2. 0 \in Age /\ (run.age # Unset => run.age \in Age)
      BY <2>1, AgeCapIsNat DEF Timer, Age
    <2> QED BY <2>1, <2>2, LaterType
  <1>8. run' \in [phase : FlightState, age : Timer] /\ run'.phase = g.state
    BY <1>1, <1>5, <1>7 DEF Observed, Coordinator, Timer
  <1>9. ASSUME Evidence(g.state, s)
        PROVE  run'.age # Unset /\ Started(g.condition) <= run'.age
    <2>1. run'.age = IF run.phase = g.state /\ run.age # Unset
                     THEN Later(run.age, dt) ELSE 0
      BY <1>1, <1>9 DEF Observed
    <2>2. run'.age \in Age
      BY <1>7, <2>1
    <2>3. CASE g.condition = Unset
      BY <2>2, <2>3 DEF Started, Age, Unset
    <2>4. CASE g.condition # Unset
      <3>1. g.state = fc.state /\ g.condition = Later(fc.condition, dt)
        BY <1>2, <1>4, <2>4 DEF Kept
      <3>2. fc.condition # Unset /\ fc.condition \in Age
        BY <1>5, <2>4, <3>1, LaterType DEF Coordinator, Timer
      <3>3. run.phase = g.state /\ fc.condition <= run.age /\ run.age \in Age
        BY <1>7, <3>1, <3>2 DEF IInv, Measured, Timer, Age, Unset
      <3>4. Later(fc.condition, dt) <= Later(run.age, dt)
        BY <3>2, <3>3, LaterMonotone
      <3>5. run.age # Unset
        BY <3>3 DEF Age, Unset
      <3> QED BY <2>1, <2>2, <2>4, <3>1, <3>3, <3>4, <3>5 DEF Started, Age, Unset
    <2> QED BY <2>2, <2>3, <2>4 DEF Age, Unset
  <1>10. run'.age = IF Evidence(g.state, s) THEN Started(g.condition) ELSE Unset
    <2>1. run'.age = IF ~Evidence(g.state, s) THEN Unset
                     ELSE IF run.phase = g.state /\ run.age # Unset
                          THEN Later(run.age, dt) ELSE 0
      BY <1>1 DEF Observed
    <2>2. CASE g.state = fc.state
      <3>1. g.condition = Later(fc.condition, dt)
        BY <1>2, <1>4, <2>2 DEF Kept
      <3>2. fc.condition = Unset => g.condition = Unset
        BY <3>1 DEF Later
      <3>3. fc.condition # Unset => g.condition # Unset
        BY <1>5, <3>1, LaterType DEF Coordinator
      <3>4. run.phase = g.state => run.age = fc.condition
        BY <2>2 DEF IInv, Heeded
      <3>5. run.phase # g.state => fc.condition = Unset
        BY <2>2 DEF IInv, Measured
      <3> QED BY <2>1, <3>1, <3>2, <3>3, <3>4, <3>5 DEF Started
    <2>3. CASE g.state # fc.state
      <3>1. g.state = "FAILSAFE_DESCENT" /\ g.condition = Unset /\ run.phase # g.state
        BY <1>2, <1>4, <2>3 DEF Kept, IInv, Heeded
      <3> QED BY <2>1, <3>1 DEF Started
    <2> QED BY <2>2, <2>3
  <1> QED BY <1>1, <1>2, <1>3, <1>6, <1>8, <1>9, <1>10

\* The invariant holds after a step.
LEMMA StepIInv ==
  ASSUME IInv, NEW s \in Samples, NEW dt \in LoopPeriods, NEW steers \in BOOLEAN,
         Step(s, dt, steers)
  PROVE  IInv'
  <1>1. PICK g, c :
           /\ Sound(g) /\ Update(g, s, c)
           /\ fc' = CloseLog(c) /\ out' = Outputs(fc, c, s, steers) /\ boots' = boots
           /\ run' \in [phase : FlightState, age : Timer]
           /\ run'.phase = g.state
           /\ Evidence(g.state, s) => run'.age # Unset /\ Started(g.condition) <= run'.age
           /\ run'.age = IF Evidence(g.state, s) THEN Started(g.condition) ELSE Unset
    BY StepStages
  <1>2. /\ Sound(c) /\ Timely(c)
        /\ Stays(g, s, c) \/ Fails(g, c) \/ Moves(g, s, c)
    BY <1>1 DEF Update
  <1>3. /\ Sound(fc') /\ fc'.state = c.state /\ fc'.failure = c.failure
        /\ fc'.condition = c.condition /\ fc'.gpsLoss = c.gpsLoss
        /\ fc'.entry = c.entry /\ (fc'.logClosed <=> fc'.state = "LANDED")
    BY <1>1, <1>2, CloseLogSound
  <1>4. out' \in Output /\ out'.brakes = Brakes(c, s, steers)
    BY <1>1, <1>2, OutputsType
  <1>5. TypeOK'
    BY <1>1, <1>3, <1>4 DEF TypeOK, IInv, Sound
  <1>6. Timely(fc)'
    BY <1>2, <1>3 DEF Timely
  <1>7. Measured(fc, run)'
    BY <1>1, <1>2, <1>3 DEF Measured, Stays, Fails, Moves
  <1>8. BrakesOnlyInHealthyDescent'
    BY <1>2, <1>3, <1>4, BrakesSound DEF BrakesOnlyInHealthyDescent
  <1>9. Sound(fc)' /\ (fc.state = "LANDED" => fc.logClosed)'
    BY <1>3
  <1>10. Heeded(fc, run)'
    <2>1. g.state \notin Held => ~Evidence(g.state, s)
      BY DEF Evidence, Held
    <2>2. CASE Stays(g, s, c)
      <3>1. g.state = "FAILSAFE_DESCENT" => c.state = "FAILSAFE_DESCENT"
        BY <2>2 DEF Stays
      <3> QED BY <1>1, <1>3, <2>1, <2>2, <3>1 DEF Heeded, Stays
    <2>3. CASE Fails(g, c)
      <3>1. g.state # "FAILSAFE_DESCENT"
        BY <1>1, <2>3 DEF Fails, Sound
      <3> QED BY <1>1, <1>3, <2>3, <3>1 DEF Heeded, Fails
    <2>4. CASE Moves(g, s, c)
      <3>1. c.state # g.state /\ (g.state = "FAILSAFE_DESCENT" => c.state = "LANDED")
        BY <2>4 DEF Moves, Forward, Descent, Guided
      <3> QED BY <1>1, <1>3, <3>1 DEF Heeded
    <2> QED BY <1>2, <2>2, <2>3, <2>4
  <1> QED BY <1>5, <1>6, <1>7, <1>8, <1>9, <1>10 DEF IInv

\* A boot, clean or after an unexplained reset, satisfies the invariant.
LEMMA BootSound ==
  ASSUME NEW uncertain \in BOOLEAN
  PROVE  LET c == Boot(uncertain)
         IN  /\ Sound(c) /\ Timely(c) /\ c.condition = Unset
             /\ c.state \in {"BOOT", "FAILSAFE_DESCENT"} /\ ~c.logClosed
             /\ c.failure # "NONE" <=> c.state = "FAILSAFE_DESCENT"
  <1>1. Reset \in Coordinator
    BY AgeCapIsNat, AgeCapAssumption
    DEF Reset, Coordinator, FlightState, Preflight, FailCode, Age, Timer, Unset
  <1>2. Sound(Reset)
    BY <1>1 DEF Reset, Sound, Behind, Preflight, Guided, Descent
  <1>3. "REBOOT_UNCERTAIN" \in FailCode
    BY DEF FailCode
  <1>4. Boot(uncertain) = LatchFailure(Reset, "REBOOT_UNCERTAIN") \/ Boot(uncertain) = Reset
    BY DEF Boot
  <1>5. /\ Sound(LatchFailure(Reset, "REBOOT_UNCERTAIN"))
        /\ Kept(Reset, LatchFailure(Reset, "REBOOT_UNCERTAIN"))
        /\ LatchFailure(Reset, "REBOOT_UNCERTAIN").failure # "NONE"
    BY <1>2, <1>3, LatchFailureSound
  <1>6. /\ Reset.condition = Unset /\ Reset.state = "BOOT" /\ ~Reset.logClosed
        /\ Reset.failure = "NONE"
    BY DEF Reset
  <1>7. CASE Boot(uncertain) = Reset
    BY <1>2, <1>6, <1>7 DEF Timely, Guided
  <1>8. CASE Boot(uncertain) = LatchFailure(Reset, "REBOOT_UNCERTAIN")
    <2> DEFINE d == LatchFailure(Reset, "REBOOT_UNCERTAIN")
    <2>1. d.condition = Unset /\ ~d.logClosed
      BY <1>5, <1>6 DEF Kept
    <2>2. d.state = "FAILSAFE_DESCENT"
      BY <1>5, <1>6 DEF Kept, Sound
    <2> QED BY <1>5, <1>8, <2>1, <2>2 DEF Timely, Guided
  <1> QED BY <1>4, <1>7, <1>8

LEMMA InitIInv == Init => IInv
  <1> SUFFICES ASSUME Init PROVE IInv
    OBVIOUS
  <1>1. PICK uncertain \in BOOLEAN : fc = Boot(uncertain)
    BY DEF Init
  <1>2. TypeOK
    BY <1>1, BootSound, TimesAssumption
    DEF Init, TypeOK, Sound, NoOutput, Output, NoRun, FlightState, Preflight, Timer
  <1>3. Heeded(fc, run)
    BY <1>1, BootSound, ConfirmTimePositive DEF Init, Heeded, NoRun
  <1> QED
    BY <1>1, <1>2, <1>3, BootSound
    DEF Init, IInv, Measured, BrakesOnlyInHealthyDescent, NoOutput

LEMMA RebootIInv ==
  ASSUME IInv, NEW uncertain \in BOOLEAN, Reboot(uncertain) PROVE IInv'
  <1>1. fc' = Boot(uncertain) /\ out' = NoOutput /\ run' = NoRun
    BY DEF Reboot
  <1>2. TypeOK'
    BY <1>1, BootSound, TimesAssumption
    DEF Reboot, IInv, TypeOK, Sound, NoOutput, Output, NoRun, FlightState, Preflight, Timer
  <1>3. Heeded(fc, run)'
    BY <1>1, BootSound, ConfirmTimePositive DEF Heeded, NoRun
  <1> QED
    BY <1>1, <1>2, <1>3, BootSound
    DEF IInv, Measured, BrakesOnlyInHealthyDescent, NoOutput, Timely

LEMMA NextIInv == IInv /\ [Next]_vars => IInv'
  <1> SUFFICES ASSUME IInv, [Next]_vars PROVE IInv'
    OBVIOUS
  <1>1. CASE Loop
    BY <1>1, StepIInv DEF Loop
  <1>2. CASE \E uncertain \in BOOLEAN : Reboot(uncertain)
    BY <1>2, RebootIInv
  <1>3. CASE UNCHANGED vars
    BY <1>3 DEF vars, IInv, TypeOK, Sound, Timely, Measured, Heeded, BrakesOnlyInHealthyDescent
  <1> QED BY <1>1, <1>2, <1>3 DEF Next

LEMMA Invariance == Spec => []IInv
  BY InitIInv, NextIInv, PTL DEF Spec

-----------------------------------------------------------------------------
(* Theorems.                                                                *)

\* Every variable keeps its type.
THEOREM TypeCorrect == Spec => []TypeOK
  <1>1. IInv => TypeOK
    BY DEF IInv
  <1> QED BY <1>1, Invariance, PTL

\* The brakes are neutral outside a healthy descent under the canopy.
THEOREM BrakesSafe == Spec => []BrakesOnlyInHealthyDescent
  <1>1. IInv => BrakesOnlyInHealthyDescent
    BY DEF IInv
  <1> QED BY <1>1, Invariance, PTL

\* No flight is in a phase without having passed all the earlier ones.
THEOREM PhasesHold == Spec => []PhasesInOrder
  <1>1. IInv => PhasesInOrder
    BY DEF IInv, Sound, PhasesInOrder
  <1> QED BY <1>1, Invariance, PTL

\* A failure and the failsafe (or the landing after it) go together.
THEOREM FailsafeHolds == Spec => []FailureMeansFailsafe
  <1>1. IInv => FailureMeansFailsafe
    BY DEF IInv, Sound, FailureMeansFailsafe
  <1> QED BY <1>1, Invariance, PTL

\* The GPS and stabilization timeouts are never overrun.
THEOREM TimeoutsHold == Spec => []TimeoutsEnforced
  <1>1. IInv => TimeoutsEnforced
    BY DEF IInv, Timely, TimeoutsEnforced
  <1> QED BY <1>1, Invariance, PTL

\* Evidence that has held for its confirmation time is acted upon at once: launch,
\* apogee, canopy and landing, with and without a failure.
THEOREM RecognitionHolds == Spec => []EvidenceIsHeeded
  <1>1. IInv => EvidenceIsHeeded
    BY DEF IInv, Heeded, EvidenceIsHeeded
  <1> QED BY <1>1, Invariance, PTL

\* A latched failure stays, and the flight after it can only land.
THEOREM FirstFailureHolds == Spec => FirstFailureStays
  <1>1. IInv /\ [Next]_vars =>
          [boots' = boots /\ fc.failure # "NONE" =>
             /\ fc'.failure = fc.failure
             /\ fc'.state = fc.state \/ fc'.state = "LANDED"]_vars
    <2> SUFFICES ASSUME IInv, [Next]_vars, boots' = boots, fc.failure # "NONE",
                        vars' # vars
                 PROVE  /\ fc'.failure = fc.failure
                        /\ fc'.state = fc.state \/ fc'.state = "LANDED"
      OBVIOUS
    <2>1. Loop
      BY DEF Next, Reboot, IInv, TypeOK
    <2>2. PICK s \in Samples, dt \in LoopPeriods, steers \in BOOLEAN : Step(s, dt, steers)
      BY <2>1 DEF Loop
    <2>3. PICK g, c :
            /\ Kept(fc, [g EXCEPT !.condition =
                 IF g.state = fc.state THEN fc.condition ELSE Unset])
            /\ Sound(g) /\ Update(g, s, c) /\ fc' = CloseLog(c)
      BY <2>2, StepStages
    <2>4. g.failure = fc.failure /\ g.state = fc.state
      BY <2>3 DEF Kept, Sound, Coordinator
    <2>5. c.failure = g.failure /\ (c.state = g.state \/ c.state = "LANDED")
      BY <2>3, <2>4 DEF Update, Stays, Fails, Moves
    <2>6. fc'.failure = c.failure /\ fc'.state = c.state
      BY <2>3, CloseLogSound DEF Update
    <2> QED BY <2>4, <2>5, <2>6
  <1> QED BY <1>1, Invariance, PTL DEF Spec, FirstFailureStays

\* Every confirmed transition had its own evidence for its full time.
THEOREM EvidenceHolds == Spec => ConfirmedByEvidence
  <1>1. IInv /\ [Next]_vars =>
          [boots' = boots /\ fc'.state # fc.state
           /\ fc'.state \in {"ASCENT", "APOGEE_CONFIRMED", "GUIDED_DESCENT", "LANDED"}
           => /\ run'.phase = fc.state \/ run'.phase = "FAILSAFE_DESCENT"
              /\ run'.age >= ConfirmTime(run'.phase)]_vars
    <2> SUFFICES ASSUME IInv, [Next]_vars, boots' = boots, fc'.state # fc.state,
                        fc'.state \in ConfirmedStates, vars' # vars
                 PROVE  /\ run'.phase = fc.state \/ run'.phase = "FAILSAFE_DESCENT"
                        /\ run'.age >= ConfirmTime(run'.phase)
      BY DEF ConfirmedStates
    <2>1. Loop
      BY DEF Next, Reboot, IInv, TypeOK
    <2>2. PICK s \in Samples, dt \in LoopPeriods, steers \in BOOLEAN : Step(s, dt, steers)
      BY <2>1 DEF Loop
    <2>3. PICK g, c :
            /\ Kept(fc, [g EXCEPT !.condition =
                 IF g.state = fc.state THEN fc.condition ELSE Unset])
            /\ Sound(g) /\ Update(g, s, c) /\ fc' = CloseLog(c)
            /\ run' \in [phase : FlightState, age : Timer] /\ run'.phase = g.state
            /\ Evidence(g.state, s) => run'.age # Unset /\ Started(g.condition) <= run'.age
      BY <2>2, StepStages
    <2>4. g.state = fc.state \/ g.state = "FAILSAFE_DESCENT"
      BY <2>3 DEF Kept, Sound, Coordinator
    <2>5. fc'.state = c.state
      BY <2>3, CloseLogSound DEF Update
    <2>6. Moves(g, s, c)
      BY <2>3, <2>4, <2>5 DEF Update, Stays, Fails, ConfirmedStates
    <2>7. /\ Started(g.condition) >= ConfirmTime(g.state)
          /\ Started(g.condition) <= run'.age
      BY <2>3, <2>5, <2>6 DEF Moves
    <2>8. /\ Started(g.condition) \in Int /\ run'.age \in Int
          /\ ConfirmTime(g.state) \in Int
      BY <2>3, StartedType, ConfirmTimePositive, AgeCapIsNat, AgeCapAssumption
      DEF Sound, Coordinator, Timer, Age, Unset
    <2> QED BY <2>3, <2>4, <2>7, <2>8
  <1> QED BY <1>1, Invariance, PTL DEF Spec, ConfirmedByEvidence


\* The log is closed by exactly the step that lands.
THEOREM LogHolds == Spec => LogClosesAtLanding
  <1>1. IInv /\ [Next]_vars =>
          [boots' = boots =>
             (out'.closeLog <=> fc.state # "LANDED" /\ fc'.state = "LANDED")]_<<fc, out>>
    <2> SUFFICES ASSUME IInv, [Next]_vars, boots' = boots, <<fc, out>>' # <<fc, out>>
                 PROVE  out'.closeLog <=> fc.state # "LANDED" /\ fc'.state = "LANDED"
      OBVIOUS
    <2>1. Loop
      BY DEF Next, Reboot, IInv, TypeOK, vars
    <2>2. PICK s \in Samples, dt \in LoopPeriods, steers \in BOOLEAN : Step(s, dt, steers)
      BY <2>1 DEF Loop
    <2>3. PICK g, c :
            /\ Kept(fc, [g EXCEPT !.condition =
                 IF g.state = fc.state THEN fc.condition ELSE Unset])
            /\ Sound(g) /\ Update(g, s, c) /\ fc' = CloseLog(c)
            /\ out' = Outputs(fc, c, s, steers)
      BY <2>2, StepStages
    <2>4. g.logClosed = fc.logClosed /\ c.logClosed = g.logClosed
      BY <2>3 DEF Kept, Sound, Coordinator, Update
    <2>5. fc.logClosed <=> fc.state = "LANDED"
      BY DEF IInv, Sound
    <2>6. fc'.state = c.state /\ (out'.closeLog <=> c.state = "LANDED" /\ ~c.logClosed)
      BY <2>3, CloseLogSound, OutputsType DEF Update
    <2> QED BY <2>4, <2>5, <2>6
  <1> QED BY <1>1, Invariance, PTL DEF Spec, LogClosesAtLanding

\* In guided flight with one of IMU and barometer lost and all else healthy, no
\* stage finds a failure, whatever the timers say.
LEMMA FallbackPasses ==
  ASSUME NEW c, Sound(c), NEW s \in Samples, NEW dt \in LoopPeriods,
         ImuFallback(c, s) \/ BaroFallback(c, s)
  PROVE  LET u == Latched(UpdateStateMachine(Guarded(c, s, dt), s))
         IN  Sound(u) /\ u.failure = "NONE"
  <1> DEFINE e == Elapse(c, dt)
             g == Guarded(c, s, dt)
             h == Holding(g, s)
             k == GpsLossTimer(h, s)
             r == UpdateStateMachine(g, s)
  <1>1. c.state \in Guided /\ c.failure = "NONE" /\ s.gps /\ s.servo /\ (s.imu <=> ~s.baro)
    BY SamplesAssumption DEF ImuFallback, BaroFallback, Sound, Guided, Sample
  <1>2. Sound(e) /\ e.state = c.state /\ e.failure = "NONE"
    BY <1>1, ElapseSound
  <1>3. Sensed(e, s) = e
    <2>1. AirborneFault(e, s) = "NONE"
      BY <1>1, <1>2 DEF AirborneFault, ImuFallback, BaroFallback
    <2> QED BY <1>2, <2>1, SensedSound
  <1>4. Sound(g) /\ g.state = c.state /\ g.failure = "NONE"
    <2>1. g = Tripped(e, s)
      BY <1>3 DEF Guarded
    <2>2. e.state \notin Preflight
      BY <1>1, <1>2 DEF Guided, Preflight
    <2> QED BY <1>2, <2>1, <2>2, TrippedSound
  <1> HIDE DEF e, g
  <1>5. g.state \in Guided /\ g.state \in Descent /\ g.state \in Held
    BY <1>1, <1>4 DEF Descent, Held
  <1>6. Sound(h) /\ h.state = g.state /\ h.failure = "NONE"
    BY <1>4, <1>5, HoldingSound
  <1> HIDE DEF h
  <1>7. Sound(k) /\ k.state = g.state /\ k.failure = "NONE"
    BY <1>6, GpsLossTimerSound
  <1> HIDE DEF k
  <1>8. \/ r = Result(h, "LANDED", "NONE")
        \/ \E to \in {k.state, "FINAL_APPROACH", "FLARE"} :
             r = Result(k, to, "NONE") /\ (to = k.state \/ Forward(k.state, to))
    <2>1. CASE Confirmed(h)
      BY <1>4, <1>5, <2>1 DEF UpdateStateMachine, h
    <2>2. CASE ~Confirmed(h)
      <3>1. r = Progress(k, s)
        BY <1>1, <1>4, <1>5, <2>2 DEF UpdateStateMachine, h, k
      <3>2. k.state \in Guided
        BY <1>5, <1>7
      <3>3. CASE k.state = "GUIDED_DESCENT"
        <4>1. r = Result(k, "FINAL_APPROACH", "NONE") \/ r = Result(k, k.state, "NONE")
          BY <3>1, <3>3 DEF Progress
        <4> QED BY <3>3, <4>1 DEF Forward
      <3>4. CASE k.state = "FINAL_APPROACH"
        <4>1. r = Result(k, "FLARE", "NONE") \/ r = Result(k, k.state, "NONE")
          BY <3>1, <3>4 DEF Progress
        <4> QED BY <3>4, <4>1 DEF Forward
      <3> QED BY <3>2, <3>3, <3>4 DEF Guided
    <2> QED BY <2>1, <2>2
  <1> HIDE DEF r
  <1>9. Sound(Latched(r)) /\ Latched(r).failure = "NONE"
    <2>1. CASE r = Result(h, "LANDED", "NONE")
      <3>1. Forward(h.state, "LANDED")
        BY <1>5, <1>6 DEF Forward
      <3> QED BY <1>6, <2>1, <3>1, ForwardSound
    <2>2. ASSUME NEW to, r = Result(k, to, "NONE"), Forward(k.state, to)
          PROVE  Sound(Latched(r)) /\ Latched(r).failure = "NONE"
      BY <1>7, <2>2, ForwardSound
    <2>3. CASE r = Result(k, k.state, "NONE")
      BY <1>7, <2>3, StaySound
    <2> QED BY <1>8, <2>1, <2>2, <2>3
  <1> QED BY <1>9 DEF r, g

\* A step on a fallback latches no failure (FlightCoordinator::step, the stage of the
\* airborne sensors): neither a landing, nor a timer that ran out meanwhile, nor the
\* tripwire takes it to the failsafe.
THEOREM FallbackHolds == Spec => FallbackAvertsFailure
  <1>1. IInv /\ [Next]_vars =>
          [out'.fallback \cap {"imu", "baro"} # {} => fc'.failure = fc.failure]_vars
    <2> SUFFICES ASSUME IInv, [Next]_vars, out'.fallback \cap {"imu", "baro"} # {},
                        vars' # vars
                 PROVE  fc'.failure = fc.failure
      OBVIOUS
    <2>1. CASE Loop
      <3>1. PICK s \in Samples, dt \in LoopPeriods, steers \in BOOLEAN : Step(s, dt, steers)
        BY <2>1 DEF Loop
      <3>2. PICK c : /\ c = Latched(UpdateStateMachine(Guarded(fc, s, dt), s))
                     /\ fc' = CloseLog(c) /\ out' = Outputs(fc, c, s, steers)
        BY <3>1 DEF Step
      <3>3. ImuFallback(fc, s) \/ BaroFallback(fc, s)
        BY <3>2 DEF Outputs
      <3>4. Sound(fc) /\ fc.failure = "NONE"
        BY <3>3 DEF IInv, Sound, ImuFallback, BaroFallback, Guided
      <3>5. Sound(c) /\ c.failure = "NONE"
        BY <3>2, <3>3, <3>4, FallbackPasses
      <3> QED BY <3>2, <3>4, <3>5, CloseLogSound
    <2>2. CASE ~Loop
      BY <2>2 DEF Next, Reboot, NoOutput
    <2> QED BY <2>1, <2>2
  <1> QED BY <1>1, Invariance, PTL DEF Spec, FallbackAvertsFailure

-----------------------------------------------------------------------------
(* The coordinator implements the abstract flight.                          *)

\* The phases of the states the proof below moves between.
LEMMA Phases ==
  /\ \A st \in Preflight : PhaseOf(st) = "pad"
  /\ \A st \in Guided \cup {"FLARE"} : PhaseOf(st) = "gliding"
  /\ PhaseOf("FAILSAFE_DESCENT") = "failsafe" /\ PhaseOf("LANDED") = "landed"
  /\ \A from, to \in FlightState :
       Forward(from, to) =>
         \/ PhaseOf(to) = PhaseOf(from)
         \/ Flight!Follows(PhaseOf(from), PhaseOf(to))
         \/ PhaseOf(from) \in {"gliding", "failsafe"} /\ to = "LANDED"
  BY DEF PhaseOf, Preflight, Guided, Forward, Flight!Follows, Descent, FlightState, Airborne

\* The stages before the state machine leave a landed vehicle alone.
LEMMA LandedGuarded ==
  ASSUME NEW c, Sound(c), c.state = "LANDED", NEW s \in Samples, NEW dt \in LoopPeriods
  PROVE  Guarded(c, s, dt).failure = c.failure
  <1> DEFINE e == Elapse(c, dt)
  <1>1. e.state = "LANDED" /\ e.failure = c.failure /\ e \in Coordinator
    BY ElapseSound DEF Sound
  <1>2. Sensed(e, s) = e
    BY <1>1 DEF Sensed, AirborneFault, LatchFailure, Airborne, Guided
  <1>3. Tripped(e, s) = [e EXCEPT !.attempt = Unset]
    BY <1>1 DEF Tripped, LaunchAttempt, Preflight
  <1> QED BY <1>1, <1>2, <1>3 DEF Guarded, Coordinator

\* A step of the coordinator is a step of the abstract flight or a stutter.
LEMMA StepImplements ==
  ASSUME IInv, IInv', NEW s \in Samples, NEW dt \in LoopPeriods,
         NEW steers \in BOOLEAN, Step(s, dt, steers)
  PROVE  [Flight!Next]_(Flight!phaseVars)
  <1> DEFINE Phase   == PhaseOf(fc.state)
             Faulted == fc.failure # "NONE"
             Braking == out.brakes # "neutral"
  <1>1. PICK g, c :
          /\ g = Guarded(fc, s, dt) /\ Sound(g)
          /\ Update(g, s, c) /\ fc' = CloseLog(c)
    BY StepStages
  <1>2. /\ fc'.state = c.state /\ fc'.failure = c.failure
        /\ fc.state \in FlightState /\ fc'.state \in FlightState
    BY <1>1, CloseLogSound DEF Update, IInv, TypeOK, Coordinator
  <1>3. /\ fc.logClosed <=> fc.state = "LANDED"
        /\ fc'.logClosed <=> fc'.state = "LANDED"
    BY DEF IInv, Sound
  <1>4. /\ Braking => fc.state \in Guided \cup {"FLARE"}
        /\ Braking' => fc'.state \in Guided \cup {"FLARE"}
    BY DEF IInv, BrakesOnlyInHealthyDescent
  <1>5. /\ Faulted => fc.state \in {"FAILSAFE_DESCENT", "LANDED"}
        /\ fc.state = "FAILSAFE_DESCENT" => Faulted
    BY DEF IInv, Sound
  <1>6. /\ Faulted => g.failure = fc.failure /\ g.state = fc.state
        /\ g.state # fc.state =>
             g.state = "FAILSAFE_DESCENT" /\ g.condition = Unset /\ fc.state # "LANDED"
    BY <1>1, GuardedSound, ElapseSound DEF IInv, Kept
  <1>7. fc.state = "LANDED" => g.failure = fc.failure
    BY <1>1, LandedGuarded DEF IInv
  <1>8. /\ g.failure # "NONE" => g.state \in {"FAILSAFE_DESCENT", "LANDED"}
        /\ g.state = "FAILSAFE_DESCENT" => g.failure # "NONE"
    BY <1>1 DEF Sound
  <1>9. /\ Phase \in {"failsafe", "landed"} <=> fc.state \in {"FAILSAFE_DESCENT", "LANDED"}
        /\ Phase = "gliding" <=> fc.state \in Guided \cup {"FLARE"}
        /\ Phase' = "gliding" <=> fc'.state \in Guided \cup {"FLARE"}
        /\ fc'.state = "LANDED" => Phase' = "landed"
        /\ fc'.state = "FAILSAFE_DESCENT" => Phase' = "failsafe"
        /\ Phase' = "landed" => fc'.state = "LANDED"
    BY <1>2 DEF PhaseOf, FlightState, Preflight, Airborne, Guided
  \* A failure of a vehicle that flew without one.
  <1>10. ASSUME ~Faulted, fc.state # "LANDED", c.state = "FAILSAFE_DESCENT",
                c.failure # "NONE"
         PROVE  Flight!Fault
    <2>1. Phase \notin {"failsafe", "landed"} /\ Phase' = "failsafe" /\ ~Braking'
      BY <1>2, <1>4, <1>5, <1>9, <1>10 DEF Guided
    <2>2. Faulted' = TRUE /\ fc'.logClosed = fc.logClosed
      BY <1>2, <1>3, <1>10 DEF IInv, TypeOK, Coordinator
    <2> QED BY <1>10, <2>1, <2>2 DEF Flight!Fault
  <1>11. CASE g.state = fc.state
    <2>1. (g.failure # "NONE") = Faulted
      BY <1>5, <1>6, <1>7, <1>8, <1>11
    <2>2. CASE Stays(g, s, c)
      <3>1. /\ Phase' = Phase /\ Faulted' = Faulted /\ fc'.logClosed = fc.logClosed
        BY <1>2, <1>3, <1>11, <2>1, <2>2 DEF Stays, IInv, TypeOK, Coordinator
      <3>2. CASE Phase = "gliding"
        BY <1>5, <1>9, <3>1, <3>2 DEF Flight!Next, Flight!Steer, Guided
      <3>3. CASE Phase # "gliding"
        BY <1>4, <1>9, <3>1, <3>3 DEF Flight!phaseVars
      <3> QED BY <3>2, <3>3
    <2>3. CASE Fails(g, c)
      BY <1>10, <1>11, <2>1, <2>3 DEF Fails, Flight!Next
    <2>4. CASE Moves(g, s, c)
      <3>1. /\ Forward(fc.state, fc'.state) /\ Faulted' = Faulted
            /\ ~Faulted \/ fc'.state = "LANDED"
        BY <1>2, <1>11, <2>1, <2>4 DEF Moves
      <3>2. CASE fc'.state = "LANDED"
        <4>1. Phase \in {"gliding", "failsafe"}
          BY <1>2, <3>1, <3>2 DEF Forward, PhaseOf, Descent, Guided, Preflight
        <4>2. Phase' = "landed" /\ ~Braking' /\ fc'.logClosed
          BY <1>3, <1>4, <1>9, <3>2 DEF Guided
        <4> QED BY <3>1, <4>1, <4>2 DEF Flight!Next, Flight!Land
      <3>3. CASE fc'.state # "LANDED"
        <4>1. fc'.logClosed = fc.logClosed
          BY <1>3, <3>1, <3>3 DEF Forward, IInv, TypeOK, Coordinator
        <4>2. CASE Flight!Follows(Phase, Phase')
          <5>1. Braking' => Phase' = "gliding"
            BY <1>4, <1>9
          <5> QED BY <3>1, <3>3, <4>1, <4>2, <5>1 DEF Flight!Next, Flight!Advance
        <4>3. CASE Phase' = Phase
          BY <1>4, <1>9, <3>1, <3>3, <4>1, <4>3
          DEF Flight!Next, Flight!Steer, Flight!phaseVars
        <4> QED BY <1>2, <3>1, <3>3, <4>2, <4>3, Phases
      <3> QED BY <3>2, <3>3
    <2> QED BY <1>1, <2>2, <2>3, <2>4 DEF Update
  <1>12. CASE g.state # fc.state
    <2>1. /\ g.state = "FAILSAFE_DESCENT" /\ g.condition = Unset /\ fc.state # "LANDED"
          /\ ~Faulted /\ g.failure # "NONE"
      BY <1>6, <1>8, <1>12
    <2>2. ~Fails(g, c)
      BY <2>1 DEF Fails
    <2>3. ~Moves(g, s, c)
      BY <2>1, ConfirmTimePositive
      DEF Moves, Forward, ConfirmedStates, Started, Unset, Descent
    <2>4. c.state = "FAILSAFE_DESCENT" /\ c.failure # "NONE"
      BY <1>1, <2>1, <2>2, <2>3 DEF Update, Stays
    <2> QED BY <1>10, <2>1, <2>4 DEF Flight!Next
  <1> QED BY <1>11, <1>12

\* A boot is a start of the abstract flight.
LEMMA BootStarts ==
  ASSUME NEW uncertain \in BOOLEAN
  PROVE  LET c == Boot(uncertain)
         IN  /\ ~c.logClosed
             /\ \/ PhaseOf(c.state) = "pad" /\ c.failure = "NONE"
                \/ PhaseOf(c.state) = "failsafe" /\ c.failure # "NONE"
  <1> DEFINE c == Boot(uncertain)
  <1>1. /\ c.state \in {"BOOT", "FAILSAFE_DESCENT"} /\ ~c.logClosed
        /\ c.failure # "NONE" <=> c.state = "FAILSAFE_DESCENT"
    BY BootSound
  <1>2. PhaseOf("BOOT") = "pad" /\ PhaseOf("FAILSAFE_DESCENT") = "failsafe"
    BY Phases DEF Preflight
  <1>3. CASE c.state = "BOOT"
    BY <1>1, <1>2, <1>3
  <1>4. CASE c.state = "FAILSAFE_DESCENT"
    BY <1>1, <1>2, <1>4
  <1> QED BY <1>1, <1>3, <1>4

\* The coordinator implements the abstract flight: its phases come in order,
\* a fault is final, brakes are for a healthy glide, landing closes the log.
THEOREM Refinement == Spec => ImplementsFlight
  <1>1. Init => Flight!Init
    <2> SUFFICES ASSUME Init PROVE Flight!Init
      OBVIOUS
    <2>1. PICK uncertain \in BOOLEAN : fc = Boot(uncertain)
      BY DEF Init
    <2> QED BY <2>1, BootStarts DEF Init, NoOutput, Flight!Init, Flight!Start
  <1>2. IInv /\ IInv' /\ [Next]_vars => [Flight!Next]_(Flight!phaseVars)
    <2> SUFFICES ASSUME IInv, IInv', [Next]_vars
                 PROVE  [Flight!Next]_(Flight!phaseVars)
      OBVIOUS
    <2>1. CASE Loop
      BY <2>1, StepImplements DEF Loop
    <2>2. CASE \E uncertain \in BOOLEAN : Reboot(uncertain)
      <3>1. PICK uncertain \in BOOLEAN : fc' = Boot(uncertain) /\ out' = NoOutput
        BY <2>2 DEF Reboot
      <3>2. Flight!Restart
        BY <3>1, BootStarts DEF NoOutput, Flight!Restart, Flight!Start
      <3> QED BY <3>2 DEF Flight!Next
    <2>3. CASE UNCHANGED vars
      BY <2>3 DEF vars, Flight!phaseVars
    <2> QED BY <2>1, <2>2, <2>3 DEF Next
  <1> QED BY <1>1, <1>2, Invariance, PTL DEF Spec, ImplementsFlight, Flight!Spec

=============================================================================
