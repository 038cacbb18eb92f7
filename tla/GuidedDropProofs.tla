--------------------------- MODULE GuidedDropProofs ---------------------------
(***************************************************************************)
(* Theorems about the guided drop, for every configuration, every sequence   *)
(* of samples and every order of the stages the recorder promises.          *)
(*                                                                          *)
(* That steering waits for its gates holds of every single step; that the    *)
(* first steering was confirmed needs the invariant that the candidate of a  *)
(* test that has not steered is no older than the run of fixes behind it.   *)
(* That a loss ends needs an account of two timers which interrupt each      *)
(* other, that a jump is forgiven one of the points seen since, and that     *)
(* turns wait one of what the reversal guard remembers.                     *)
(***************************************************************************)
EXTENDS GuidedDrop, TLAPS

Limits == -Guided.law.limit .. Guided.law.limit

\* A law within the authority.
Bound(law) == law \in SteeringLaw /\ law.value \in Limits

Sound(c) == c \in GuidedDropController /\ Bound(c.law)

-----------------------------------------------------------------------------
(* The steering law.                                                        *)

LEMMA ConfigFacts ==
  /\ Guided.law \in SteeringConfig /\ Guided.law.limit \in Nat /\ Guided.law.slew \in Nat
  /\ Guided.holdLimit \in Nat /\ Guided.navConfirm \in Nat /\ Guided.maxJump \in Nat
  /\ Guided.navConfirm <= AgeCap /\ AgeCap \in Nat
  /\ Ticks \subseteq Nat \ {0} /\ MaxGuidedTests \in Nat
  /\ Positions \subseteq Int /\ Flights \subseteq Flight
  BY GuidedAssumption, AgeCapIsNat DEF GuidedConfig, SteeringConfig

LEMMA TimerFacts ==
  /\ Unset \in Timer /\ 0 \in Timer
  /\ \A t \in Timer, dt \in Nat :
       Later(t, dt) \in Timer /\ (Later(t, dt) = Unset <=> t = Unset)
  /\ \A t \in Timer : Started(t) \in Timer /\ Started(t) # Unset
  BY AgeCapIsNat DEF Timer, Age, Unset, Later, Started

\* A step of the limiter stays between the value and what is wanted.
LEMMA SlewedIsBound ==
  ASSUME NEW law, Bound(law), NEW desired \in Limits, NEW step \in Nat
  PROVE  /\ Bound(Slewed(law, desired, step))
         /\ Slewed(law, desired, step).sign = law.sign
         /\ Slewed(law, desired, step).turned = law.turned
<1> DEFINE v == law.value + Clamp(desired - law.value, step)
<1>1. v \in Limits /\ v \in Int
  BY ConfigFacts DEF Clamp, Limits, Bound, SteeringLaw
<1>2. Slewed(law, desired, step) = [law EXCEPT !.value = v]
  BY DEF Slewed
<1> HIDE DEF v
<1> QED
  BY <1>1, <1>2 DEF Bound, SteeringLaw

LEMMA AllowedIsBound ==
  ASSUME NEW law, Bound(law)
  PROVE  Bound(Allowed(law)) /\ Allowed(law).value = law.value
<1>1. Sign(law.value) \in -1 .. 1 /\ 0 \in -1 .. 1 /\ 0 \in Timer
  BY TimerFacts DEF Sign
<1> QED
  BY <1>1 DEF Allowed, Bound, SteeringLaw

\* The demand is within the authority of the mode.
LEMMA DemandIsBound ==
  ASSUME NEW g \in SteeringConfig, g.limit <= Guided.law.limit,
         g.finalLimit <= Guided.law.limit, NEW in \in SteeringInput
  PROVE  Demand(g, in) \in Limits
<1> DEFINE authority == Authority(g, in)
           wish == (IF in.final THEN g.finalGain ELSE g.gain) * in.error
<1>1. authority \in Nat /\ authority <= Guided.law.limit
  BY ConfigFacts DEF Authority, Smaller, SteeringConfig, SteeringInput
<1>2. wish \in Int
  <2>1. /\ g.finalGain \in Int /\ g.gain \in Int /\ in.error \in Int
    BY DEF SteeringConfig, SteeringInput
  <2> QED
    BY <2>1
<1>3. Demand(g, in) = 0 \/ Demand(g, in) = Clamp(wish, authority)
  BY DEF Demand
<1> HIDE DEF authority, wish
<1> QED
  BY <1>1, <1>2, <1>3, ConfigFacts DEF Clamp, Limits

LEMMA ComputedIsBound ==
  ASSUME NEW law, Bound(law), NEW g \in SteeringConfig, g.limit <= Guided.law.limit,
         g.finalLimit <= Guided.law.limit, NEW in \in SteeringInput, in.gps, NEW dt \in Nat
  PROVE  LET r == ComputeGuidance(law, g, in, dt) IN
         /\ Bound(r.law) /\ r.command \in {0, r.law.value} /\ r.active \in BOOLEAN
<1> DEFINE step == g.slew * dt
           wanted == Slewed(law, Demand(g, in), step)
           turned == Turned(law, g, in, dt)
<1>1. step \in Nat
  BY DEF SteeringConfig
<1>2. 0 \in Limits
  BY ConfigFacts DEF Limits
<1>3. turned = IF Reverses(wanted, g.guard) THEN Slewed(wanted, 0, step) ELSE Allowed(wanted)
  BY DEF Turned
<1> HIDE DEF step
<1>4. Bound(wanted)
  BY <1>1, DemandIsBound, SlewedIsBound
<1> HIDE DEF wanted
<1>5. Bound(turned)
  BY <1>1, <1>2, <1>3, <1>4, SlewedIsBound, AllowedIsBound
<1> HIDE DEF turned
<1>6. CASE Idles(g, in)
  BY <1>6 DEF ComputeGuidance
<1>7. CASE ~Idles(g, in)
  BY <1>5, <1>7 DEF ComputeGuidance, turned
<1> QED
  BY <1>6, <1>7

-----------------------------------------------------------------------------
(* The parts of a step.                                                     *)

Result == [ctl : GuidedDropController, out : GuidedOutput]

\* What every step leaves: its command is the limiter's or neutral.
Fits(r) == r \in Result /\ Bound(r.ctl.law) /\ r.out.command \in {0, r.ctl.law.value}

\* Nothing but the timers of losses and the damping has changed.
Same(c, d) == d.started = c.started /\ d.fault = c.fault /\ d.candidate = c.candidate

LEMMA NeutralFits ==
  ASSUME NEW c, Sound(c), NEW status \in GuidedStatus
  PROVE  /\ Fits(Neutral(c, status)) /\ Neutral(c, status).ctl = c
         /\ Neutral(c, status).out.command = 0
  BY DEF Neutral, Fits, Sound, Result, GuidedOutput

LEMMA FaultedFits ==
  ASSUME NEW c, Sound(c)
  PROVE  /\ Fits(Faulted(c)) /\ Faulted(c).ctl.fault /\ Faulted(c).out.command = 0
         /\ Faulted(c).ctl.started = c.started
<1> DEFINE d == [c EXCEPT !.fault = TRUE]
<1>1. Sound(d) /\ d.fault /\ d.started = c.started
  BY DEF Sound, GuidedDropController
<1>2. "FAULT_NEUTRAL" \in GuidedStatus
  BY DEF GuidedStatus
<1> HIDE DEF d
<1>3. Fits(Neutral(d, "FAULT_NEUTRAL")) /\ Neutral(d, "FAULT_NEUTRAL").ctl = d
      /\ Neutral(d, "FAULT_NEUTRAL").out.command = 0
  BY <1>1, <1>2, NeutralFits
<1> QED
  BY <1>1, <1>3 DEF Faulted, d

LEMMA UnwindFits ==
  ASSUME NEW c, Sound(c), NEW dt \in Nat
  PROVE  Fits(Unwind(c, dt)) /\ Same(c, Unwind(c, dt).ctl)
<1> DEFINE step == Guided.law.slew * dt
           l == Slewed(c.law, 0, step)
           d == [c EXCEPT !.law = l]
           o == [status |-> Lost(c), command |-> l.value, active |-> l.value # 0]
<1>1. step \in Nat /\ 0 \in Limits
  BY ConfigFacts DEF Limits
<1>2. Unwind(c, dt) = [ctl |-> d, out |-> o]
  BY DEF Unwind
<1> HIDE DEF step
<1>3. Bound(l)
  BY <1>1, SlewedIsBound DEF Sound
<1> HIDE DEF l
<1>4. d \in GuidedDropController /\ d.law = l /\ Same(c, d)
  BY <1>3 DEF Sound, Bound, GuidedDropController, Same
<1>5. o \in GuidedOutput /\ o.command = l.value
  BY <1>3 DEF Lost, GuidedOutput, GuidedStatus, Bound, SteeringLaw
<1> HIDE DEF d, o
<1> QED
  BY <1>2, <1>3, <1>4, <1>5 DEF Fits, Result

LEMMA WatchSame ==
  ASSUME NEW c, Sound(c), NEW error \in Int
  PROVE  Sound(Watch(c, error)) /\ Same(c, Watch(c, error)) /\ Watch(c, error).law = c.law
<1> DEFINE w == IF c.swing = Unset \/ c.swing > Guided.swingWindow
                THEN [c EXCEPT !.swing = 0, !.swings = 0, !.side = 0] ELSE c
           turn == IF Magnitude(error) > Guided.law.deadband THEN Sign(error) ELSE 0
           n == IF turn # 0 /\ w.side # 0 /\ turn # w.side /\ w.swings < Guided.swings
                THEN w.swings + 1 ELSE w.swings
           s == IF turn # 0 THEN turn ELSE w.side
<1>1. w \in GuidedDropController /\ w.law = c.law /\ Same(c, w)
  <2>1. 0 \in Timer /\ 0 \in Nat /\ 0 \in -1 .. 1
    BY TimerFacts
  <2> DEFINE f == [c EXCEPT !.swing = 0, !.swings = 0, !.side = 0]
  <2>2. f \in GuidedDropController /\ f.law = c.law /\ Same(c, f)
    BY <2>1 DEF Sound, GuidedDropController, Same
  <2> HIDE DEF f
  <2>3. c \in GuidedDropController /\ Same(c, c)
    BY DEF Sound, Same
  <2>4. w = f \/ w = c
    BY DEF f
  <2> QED
    BY <2>2, <2>3, <2>4
<1>2. Watch(c, error) = [w EXCEPT !.swings = n, !.side = s]
  BY DEF Watch
<1>3. turn \in -1 .. 1
  BY DEF Sign
<1> HIDE DEF w, turn
<1>4. n \in Nat /\ s \in -1 .. 1
  BY <1>1, <1>3 DEF GuidedDropController
<1> HIDE DEF n, s
<1>5. [w EXCEPT !.swings = n, !.side = s] \in GuidedDropController
  BY <1>1, <1>4 DEF GuidedDropController
<1>6. /\ [w EXCEPT !.swings = n, !.side = s].law = w.law
      /\ Same(w, [w EXCEPT !.swings = n, !.side = s])
  BY <1>1 DEF GuidedDropController, Same
<1> QED
  BY <1>1, <1>2, <1>5, <1>6 DEF Sound, Same

\* The configuration of the law is never above the authority it is trimmed to.
LEMMA TrimmedIsBelow ==
  ASSUME NEW c, NEW s, NEW most \in Nat, most <= Guided.law.limit
  PROVE  /\ Trimmed(c, s, most) \in SteeringConfig
         /\ Trimmed(c, s, most).limit <= Guided.law.limit
         /\ Trimmed(c, s, most).finalLimit <= Guided.law.limit
<1> DEFINE g == Guided.law
           half == (IF Damped(c) THEN 2 ELSE 1) * (IF s.rate = "calm" THEN 1 ELSE 2)
           l == Smaller(g.limit, most) \div half
           f == Smaller(g.finalLimit, most) \div half
           w == Smaller(g.slowLimit, most)
           b == IF Damped(c) THEN (3 * g.deadband) \div 2 ELSE g.deadband
           t == [g EXCEPT !.limit = l, !.finalLimit = f, !.slowLimit = w, !.deadband = b]
<1>1. half \in {1, 2, 4}
  OBVIOUS
<1>2. g \in SteeringConfig
  BY ConfigFacts
<1>3. /\ Smaller(g.limit, most) \in 0 .. Guided.law.limit
      /\ Smaller(g.finalLimit, most) \in 0 .. Guided.law.limit
      /\ Guided.law.limit \in Nat /\ w \in Nat
  BY <1>2, ConfigFacts DEF Smaller, SteeringConfig
<1>4. Trimmed(c, s, most) = t
  BY DEF Trimmed
<1> HIDE DEF half
<1>5. l \in Nat /\ l <= Guided.law.limit /\ f \in Nat /\ f <= Guided.law.limit
  BY <1>1, <1>3
<1>6. b \in Nat
  BY <1>2 DEF SteeringConfig
<1> HIDE DEF l, f, w, b
<1>7. t \in SteeringConfig /\ t.limit = l /\ t.finalLimit = f
  BY <1>2, <1>3, <1>5, <1>6 DEF SteeringConfig
<1> HIDE DEF t
<1> QED
  BY <1>4, <1>5, <1>7

LEMMA RunGuidanceFits ==
  ASSUME NEW c, Sound(c), NEW s \in Flight, NEW distance \in Nat, NEW slow \in BOOLEAN,
         NEW final \in BOOLEAN, NEW most \in Nat, most <= Guided.law.limit,
         NEW status \in GuidedStatus, NEW dt \in Nat
  PROVE  LET r == RunGuidance(c, s, distance, slow, final, most, status, dt) IN
         /\ Fits(r) /\ r.ctl.started /\ r.ctl.fault = c.fault
<1> DEFINE w == Watch(c, s.error)
           g == Trimmed(w, s, most)
           in == [gps |-> TRUE, final |-> final, alt |-> s.alt, distance |-> distance,
                  error |-> s.error, slow |-> slow]
           q == ComputeGuidance(w.law, g, in, dt)
           d == [w EXCEPT !.law = q.law, !.started = TRUE]
           o == [status |-> status, command |-> q.command, active |-> q.active]
<1>1. s.error \in Int /\ s.alt \in Int
  BY DEF Flight
<1>2. RunGuidance(c, s, distance, slow, final, most, status, dt) = [ctl |-> d, out |-> o]
  BY DEF RunGuidance
<1>3. Sound(w) /\ w.fault = c.fault
  BY <1>1, WatchSame DEF Same
<1>4. in \in SteeringInput /\ in.gps
  BY <1>1 DEF SteeringInput
<1>5. g \in SteeringConfig /\ g.limit <= Guided.law.limit /\ g.finalLimit <= Guided.law.limit
  BY TrimmedIsBelow
<1> HIDE DEF w, g, in
<1>6. Bound(q.law) /\ q.command \in {0, q.law.value} /\ q.active \in BOOLEAN
  BY <1>3, <1>4, <1>5, ComputedIsBound DEF Sound
<1> HIDE DEF q
<1>7. d \in GuidedDropController /\ d.law = q.law /\ d.started = TRUE /\ d.fault = w.fault
  BY <1>3, <1>6 DEF Sound, Bound, GuidedDropController
<1>8. o \in GuidedOutput /\ o.command = q.command
  BY <1>6 DEF GuidedOutput, Bound, SteeringLaw
<1> HIDE DEF d, o
<1> QED
  BY <1>2, <1>3, <1>6, <1>7, <1>8 DEF Fits, Result

\* acceptGpsPoint
LEMMA AcceptSame ==
  ASSUME NEW c, Sound(c), NEW s, NEW pos \in Int
  PROVE  /\ Sound(Accept(c, s, pos)) /\ Same(c, Accept(c, s, pos))
<1>0. c \in GuidedDropController /\ c.recovered \in Nat /\ Same(c, c) /\ Sound(c)
  BY DEF Sound, GuidedDropController, Same
<1> DEFINE a == [c EXCEPT !.suspect = TRUE, !.recovered = 0]
           n == c.recovered + 1
           b == [c EXCEPT !.recovered = n]
           d == [c EXCEPT !.suspect = FALSE, !.recovered = 0, !.accepted = {pos}]
<1>1. Sound(a) /\ Same(c, a)
  BY <1>0 DEF Sound, GuidedDropController, Same
<1>2. Sound(b) /\ Same(c, b)
  <2>1. n \in Nat
    BY <1>0
  <2> HIDE DEF n
  <2> QED
    BY <1>0, <2>1 DEF Sound, GuidedDropController, Same
<1>3. Sound(d) /\ Same(c, d)
  <2>1. {pos} \in SUBSET Int
    OBVIOUS
  <2> QED
    BY <1>0, <2>1 DEF Sound, GuidedDropController, Same
<1>4. Accept(c, s, pos) \in {c, a, b, d}
  BY DEF Accept
<1> HIDE DEF a, b, d
<1> QED
  BY <1>0, <1>1, <1>2, <1>3, <1>4

LEMMA LossSame ==
  ASSUME NEW c, Sound(c), NEW t \in Timer
  PROVE  /\ Sound([c EXCEPT !.loss = t]) /\ Same(c, [c EXCEPT !.loss = t])
         /\ [c EXCEPT !.loss = t].accepted = c.accepted
         /\ Sound([c EXCEPT !.spinning = t]) /\ Same(c, [c EXCEPT !.spinning = t])
         /\ Sound([c EXCEPT !.candidate = t]) /\ [c EXCEPT !.candidate = t].candidate = t
         /\ [c EXCEPT !.candidate = t].started = c.started
         /\ [c EXCEPT !.candidate = t].fault = c.fault
<1>1. /\ Sound([c EXCEPT !.loss = t]) /\ Same(c, [c EXCEPT !.loss = t])
      /\ [c EXCEPT !.loss = t].accepted = c.accepted
  BY DEF Sound, GuidedDropController, Same
<1>2. Sound([c EXCEPT !.spinning = t]) /\ Same(c, [c EXCEPT !.spinning = t])
  BY DEF Sound, GuidedDropController, Same
<1>3. /\ Sound([c EXCEPT !.candidate = t]) /\ [c EXCEPT !.candidate = t].candidate = t
      /\ [c EXCEPT !.candidate = t].started = c.started
      /\ [c EXCEPT !.candidate = t].fault = c.fault
  BY DEF Sound, GuidedDropController
<1> QED
  BY <1>1, <1>2, <1>3

\* Navigation is lost: course hold, unwinding or fault, and never a neutral that
\* forgets that the flight was guided.
LEMMA UnguidedFits ==
  ASSUME NEW c, Sound(c), c.started, ~c.fault, NEW s \in Flight, NEW dt \in Nat
  PROVE  LET r == Unguided(c, s, dt) IN
         Fits(r) /\ r.ctl.started /\ (r.out.command # 0 => ~r.ctl.fault)
<1> DEFINE l == Started(c.loss)
           d == [c EXCEPT !.loss = l]
           r == Unguided(c, s, dt)
           most == Smaller(Guided.law.limit, Guided.holdLimit)
           far == Magnitude(CHOOSE p \in d.accepted : TRUE)
<1>1. l \in Timer
  BY TimerFacts DEF Sound, GuidedDropController
<1>2. d = [c EXCEPT !.loss = Started(c.loss)]
  OBVIOUS
<1> HIDE DEF l
<1>3. Sound(d) /\ Same(c, d) /\ d.accepted \in SUBSET Int
  BY <1>1, LossSame DEF Sound, GuidedDropController
<1>4. r = IF Guided.hold /\ d.accepted # {} /\ d.loss <= Guided.holdTime
          THEN RunGuidance(d, s, far, FALSE, FALSE, most, "GPS_COURSE_HOLD", dt)
          ELSE IF d.loss >= Guided.navLoss THEN Faulted(d) ELSE Unwind(d, dt)
  BY DEF Unguided, l
<1> HIDE DEF d, r
<1>5. d.started /\ ~d.fault
  BY <1>3 DEF Same
<1>6. CASE Guided.hold /\ d.accepted # {} /\ d.loss <= Guided.holdTime
  <2>1. most \in Nat /\ most <= Guided.law.limit
    BY ConfigFacts DEF Smaller
  <2>2. far \in Nat
    <3>1. (CHOOSE p \in d.accepted : TRUE) \in Int
      BY <1>3, <1>6
    <3> QED
      BY <3>1 DEF Magnitude
  <2>3. "GPS_COURSE_HOLD" \in GuidedStatus
    BY DEF GuidedStatus
  <2> HIDE DEF most, far
  <2>4. r = RunGuidance(d, s, far, FALSE, FALSE, most, "GPS_COURSE_HOLD", dt)
    BY <1>4, <1>6
  <2>5. \A no \in BOOLEAN :
          LET q == RunGuidance(d, s, far, no, no, most, "GPS_COURSE_HOLD", dt) IN
          Fits(q) /\ q.ctl.started /\ q.ctl.fault = d.fault
    BY <1>3, <2>1, <2>2, <2>3, RunGuidanceFits
  <2>6. Fits(r) /\ r.ctl.started /\ r.ctl.fault = d.fault
    BY <2>4, <2>5, Zenon
  <2> QED
    BY <1>5, <2>6 DEF r
<1>7. CASE ~(Guided.hold /\ d.accepted # {} /\ d.loss <= Guided.holdTime)
  <2>1. r = Faulted(d) \/ r = Unwind(d, dt)
    BY <1>4, <1>7
  <2>2. CASE r = Faulted(d)
    BY <1>3, <1>5, <2>2, FaultedFits DEF r
  <2>3. CASE r = Unwind(d, dt)
    BY <1>3, <1>5, <2>3, UnwindFits DEF r, Same
  <2> QED
    BY <2>1, <2>2, <2>3
<1> QED
  BY <1>6, <1>7

LEMMA SteerFits ==
  ASSUME NEW c, Sound(c), NEW s \in Flight, NEW pos \in Int, NEW dt \in Nat
  PROVE  LET r == Steer(c, s, pos, dt) IN
         Fits(r) /\ r.ctl.started /\ r.ctl.fault = c.fault
<1>1. /\ Magnitude(pos) \in Nat /\ s.slow \in BOOLEAN /\ FinalApproach(s, pos) \in BOOLEAN
      /\ Guided.law.limit \in Nat /\ Guided.law.limit <= Guided.law.limit
  BY ConfigFacts DEF Magnitude, Flight, FinalApproach
<1> DEFINE status == IF FinalApproach(s, pos) THEN "FINAL_APPROACH" ELSE "GUIDANCE_ACTIVE"
<1>2. status \in GuidedStatus
  BY DEF GuidedStatus
<1>3. Steer(c, s, pos, dt) =
        RunGuidance(c, s, Magnitude(pos), s.slow, FinalApproach(s, pos), Guided.law.limit,
                    status, dt)
  BY DEF Steer
<1> HIDE DEF status
<1> QED
  BY <1>1, <1>2, <1>3, RunGuidanceFits

\* A spin: only a flight that steers gets here.
LEMMA SpinFits ==
  ASSUME NEW c, Sound(c), c.started, ~c.fault, NEW dt \in Nat
  PROVE  LET r == Spin(c, dt) IN
         Fits(r) /\ r.ctl.started /\ (r.out.command # 0 => ~r.ctl.fault)
<1> DEFINE t == Started(c.spinning)
           d == [c EXCEPT !.spinning = t]
           r == Spin(c, dt)
<1>1. t \in Timer
  BY TimerFacts DEF Sound, GuidedDropController
<1>2. r = IF d.spinning >= Guided.instability THEN Faulted(d) ELSE Unwind(d, dt)
  BY DEF Spin
<1> HIDE DEF t
<1>3. Sound(d) /\ d.started /\ ~d.fault
  BY <1>1, LossSame DEF Same
<1> HIDE DEF d, r
<1>4. CASE r = Faulted(d)
  BY <1>3, <1>4, FaultedFits DEF r
<1>5. CASE r = Unwind(d, dt)
  BY <1>3, <1>5, UnwindFits DEF r, Same
<1> QED
  BY <1>2, <1>4, <1>5

\* The first steering needs a confirmed candidate, and a candidate that is
\* left without steering has a fix behind it.
Confirmed(c, r, s) ==
  /\ ~c.started /\ r.ctl.started =>
       s.gps /\ c.candidate # Unset /\ c.candidate >= Guided.navConfirm
  /\ ~r.ctl.started /\ ~r.ctl.fault /\ r.ctl.candidate # Unset =>
       s.gps /\ ~c.started /\ ~c.fault /\ r.ctl.candidate = Started(c.candidate)

LEMMA NavigateFits ==
  ASSUME NEW c, Sound(c), ~c.fault, NEW s \in Flight, NEW pos \in Int, NEW dt \in Nat
  PROVE  LET r == Navigate(c, s, pos, dt) IN
         /\ Fits(r) /\ (r.out.command # 0 => r.ctl.started /\ ~r.ctl.fault)
         /\ Confirmed(c, r, s)
<1> DEFINE a == Accept(c, s, pos)
           l == [a EXCEPT !.candidate = Unset]
           e == [a EXCEPT !.loss = Unset]
           t == Started(a.candidate)
           w == [e EXCEPT !.candidate = t]
           r == Navigate(c, s, pos, dt)
<1>1. Sound(a) /\ Same(c, a)
  BY AcceptSame
<1>2. r = IF ~Accepts(c, s, pos)
          THEN IF l.started THEN Unguided(l, s, dt) ELSE Neutral(l, Lost(l))
          ELSE IF a.candidate = Unset \/ a.candidate < Guided.navConfirm
               THEN Neutral([a EXCEPT !.loss = Unset, !.candidate = Started(@)],
                            "WAITING_NAVIGATION")
               ELSE Steer([a EXCEPT !.loss = Unset], s, pos, dt)
  BY DEF Navigate
<1>3. Accepts(c, s, pos) => s.gps
  BY DEF Accepts
<1> HIDE DEF a
<1>4. Unset \in Timer /\ t \in Timer /\ a.candidate \in Timer
  BY <1>1, TimerFacts DEF Sound, GuidedDropController
<1>5. [a EXCEPT !.loss = Unset, !.candidate = Started(@)] = w
  BY <1>1 DEF Sound, GuidedDropController
<1>6. /\ Sound(l) /\ l.candidate = Unset /\ l.started = c.started /\ l.fault = c.fault
      /\ Lost(l) \in GuidedStatus
  BY <1>1, <1>4, LossSame DEF Same, Lost, GuidedStatus
<1>7. Sound(e) /\ e.started = c.started /\ e.fault = c.fault /\ e.candidate = c.candidate
  BY <1>1, <1>4, LossSame DEF Same
<1>8. Sound(w) /\ w.candidate = t /\ w.started = c.started /\ w.fault = c.fault
  BY <1>4, <1>7, LossSame
<1>9. t = Started(c.candidate)
  BY <1>1 DEF Same
<1> HIDE DEF t, r
<1>10. CASE ~Accepts(c, s, pos)
  <2>1. CASE c.started
    <3>1. r = Unguided(l, s, dt)
      BY <1>2, <1>6, <1>10, <2>1
    <3> HIDE DEF l
    <3>2. Fits(r) /\ r.ctl.started /\ (r.out.command # 0 => ~r.ctl.fault)
      BY <1>6, <2>1, <3>1, UnguidedFits
    <3> QED
      BY <2>1, <3>2 DEF r, Confirmed
  <2>2. CASE ~c.started
    <3>1. r = Neutral(l, Lost(l))
      BY <1>2, <1>6, <1>10, <2>2
    <3> HIDE DEF l
    <3>2. Fits(r) /\ r.ctl = l /\ r.out.command = 0
      BY <1>6, <3>1, NeutralFits
    <3> QED
      BY <1>6, <2>2, <3>2 DEF r, Confirmed
  <2> QED
    BY <2>1, <2>2
<1> HIDE DEF l
<1>11. CASE Accepts(c, s, pos) /\ (a.candidate = Unset \/ a.candidate < Guided.navConfirm)
  <2>1. r = Neutral(w, "WAITING_NAVIGATION")
    BY <1>2, <1>5, <1>11
  <2>2. "WAITING_NAVIGATION" \in GuidedStatus
    BY DEF GuidedStatus
  <2> HIDE DEF w
  <2>3. Fits(r) /\ r.ctl = w /\ r.out.command = 0
    BY <1>8, <2>1, <2>2, NeutralFits
  <2> QED
    BY <1>3, <1>8, <1>9, <1>11, <2>3 DEF r, Confirmed
<1>12. CASE Accepts(c, s, pos) /\ ~(a.candidate = Unset \/ a.candidate < Guided.navConfirm)
  <2>1. r = Steer(e, s, pos, dt)
    BY <1>2, <1>12
  <2>2. c.candidate # Unset /\ c.candidate >= Guided.navConfirm
    <3>1. a.candidate \in Int /\ Guided.navConfirm \in Int /\ a.candidate = c.candidate
      BY <1>1, <1>4, ConfigFacts DEF Same, Timer, Age, Unset
    <3> QED
      BY <1>12, <3>1
  <2> HIDE DEF e
  <2>3. Fits(r) /\ r.ctl.started /\ r.ctl.fault = e.fault
    BY <1>7, <2>1, SteerFits
  <2> QED
    BY <1>3, <1>7, <1>12, <2>2, <2>3 DEF r, Confirmed
<1> QED
  BY <1>10, <1>11, <1>12

LEMMA OlderSound ==
  ASSUME NEW c, Sound(c), NEW dt \in Nat
  PROVE  /\ Sound(Older(c, dt)) /\ Older(c, dt).started = c.started
         /\ Older(c, dt).fault = c.fault
         /\ Older(c, dt).candidate = Later(c.candidate, dt)
<1> DEFINE a == Later(c.candidate, dt)
           b == Later(c.loss, dt)
           e == Later(c.spinning, dt)
           f == Later(c.swing, dt)
           l == AgedLaw(c.law, dt)
           d == [c EXCEPT !.candidate = a, !.loss = b, !.spinning = e, !.swing = f, !.law = l]
<1>1. a \in Timer /\ b \in Timer /\ e \in Timer /\ f \in Timer
  BY TimerFacts DEF Sound, GuidedDropController
<1>2. Bound(l)
  BY TimerFacts DEF Sound, Bound, SteeringLaw, AgedLaw
<1>3. Older(c, dt) = d
  BY DEF Older, Sound, GuidedDropController
<1> HIDE DEF a, b, e, f, l
<1>4. d \in GuidedDropController /\ d.law = l
  BY <1>1, <1>2 DEF Sound, Bound, GuidedDropController
<1>5. d.started = c.started /\ d.fault = c.fault /\ d.candidate = a
  BY DEF Sound, GuidedDropController
<1> HIDE DEF d
<1> QED
  BY <1>2, <1>3, <1>4, <1>5 DEF Sound, a

LEMMA WaitingSound ==
  ASSUME NEW c, Sound(c)
  PROVE  /\ Sound(Waiting(c)) /\ Waiting(c).candidate = Unset
         /\ Waiting(c).started = c.started
<1>1. Unset \in Timer
  BY TimerFacts
<1> QED
  BY <1>1 DEF Waiting, Sound, GuidedDropController

\* A whole step.
LEMMA StepFits ==
  ASSUME NEW c, Sound(c), NEW st, NEW both \in BOOLEAN, NEW ago, NEW s \in Flight,
         NEW pos \in Int, NEW dt \in Nat
  PROVE  LET r == GuidedStep(c, st, both, ago, s, pos, dt) IN
         /\ Fits(r)
         /\ r.out.command # 0 => st = "released" /\ both /\ r.ctl.started /\ ~r.ctl.fault
         /\ ~c.started /\ r.ctl.started =>
              /\ st = "released" /\ s.gps /\ ~c.fault
              /\ c.candidate # Unset /\ c.candidate >= Guided.navConfirm
         /\ ~r.ctl.started /\ ~r.ctl.fault /\ st # "landed" /\ r.ctl.candidate # Unset =>
              /\ st = "released" /\ s.gps /\ ~c.started /\ ~c.fault
              /\ r.ctl.candidate = Started(c.candidate)
<1> DEFINE r == GuidedStep(c, st, both, ago, s, pos, dt)
           n == [c EXCEPT !.candidate = Unset]
           k == [c EXCEPT !.spinning = Unset]
<1>1. Unset \in Timer
  BY TimerFacts
<1>2. Sound(n) /\ n.candidate = Unset /\ n.started = c.started
  BY <1>1, LossSame
<1>3. Sound(k) /\ Same(c, k)
  BY <1>1, LossSame
<1>4. /\ "LANDED" \in GuidedStatus /\ "WAITING_RELEASE" \in GuidedStatus
      /\ "DEPLOYMENT_NEUTRAL" \in GuidedStatus /\ "WAITING_STABLE_DESCENT" \in GuidedStatus
      /\ "WAITING_ALTITUDE" \in GuidedStatus
  BY DEF GuidedStatus
<1>5. CASE st = "landed"
  <2>1. r = Neutral(c, "LANDED")
    BY <1>5 DEF GuidedStep
  <2> HIDE DEF r
  <2>2. Fits(r) /\ r.ctl = c /\ r.out.command = 0
    BY <1>4, <2>1, NeutralFits
  <2> QED
    BY <1>5, <2>2 DEF r
<1>6. CASE st # "landed" /\ (c.fault \/ ~s.fresh)
  <2>1. r = Faulted(c)
    BY <1>6 DEF GuidedStep
  <2> HIDE DEF r
  <2>2. Fits(r) /\ r.ctl.fault /\ r.out.command = 0 /\ r.ctl.started = c.started
    BY <2>1, FaultedFits
  <2> QED
    BY <2>2 DEF r
<1>7. CASE st # "landed" /\ ~c.fault /\ s.fresh
  <2>1. CASE st # "released" \/ Deploying(ago)
    <3>1. r = Neutral(Waiting(c), "WAITING_RELEASE") \/ r = Neutral(Waiting(c), "DEPLOYMENT_NEUTRAL")
      BY <1>7, <2>1 DEF GuidedStep
    <3> HIDE DEF r
    <3>2. /\ Sound(Waiting(c)) /\ Waiting(c).candidate = Unset
          /\ Waiting(c).started = c.started
      BY WaitingSound
    <3>3. Fits(r) /\ r.ctl = Waiting(c) /\ r.out.command = 0
      BY <1>4, <3>1, <3>2, NeutralFits
    <3> QED
      BY <3>2, <3>3 DEF r
  <2>2. CASE st = "released" /\ ~Deploying(ago) /\
             (~Descended(c, s, both) \/ (~c.started /\ s.alt < Guided.minAlt))
    <3>1. r = Neutral(n, "WAITING_STABLE_DESCENT") \/ r = Neutral(n, "WAITING_ALTITUDE")
      BY <1>7, <2>2 DEF GuidedStep
    <3> HIDE DEF r, n
    <3>2. Fits(r) /\ r.ctl = n /\ r.out.command = 0
      BY <1>2, <1>4, <3>1, NeutralFits
    <3> QED
      BY <1>2, <3>2 DEF r
  <2>3. CASE /\ st = "released" /\ ~Deploying(ago) /\ Descended(c, s, both)
             /\ ~(~c.started /\ s.alt < Guided.minAlt) /\ s.rate = "spin"
    <3>1. r = Spin(c, dt)
      BY <1>7, <2>3 DEF GuidedStep
    <3>2. both /\ c.started
      BY <2>3 DEF Descended
    <3> HIDE DEF r
    <3>3. Fits(r) /\ r.ctl.started /\ (r.out.command # 0 => ~r.ctl.fault)
      BY <1>7, <3>1, <3>2, SpinFits
    <3> QED
      BY <2>3, <3>2, <3>3 DEF r
  <2>4. CASE /\ st = "released" /\ ~Deploying(ago) /\ Descended(c, s, both)
             /\ ~(~c.started /\ s.alt < Guided.minAlt) /\ s.rate # "spin"
    <3>1. r = Navigate(k, s, pos, dt)
      BY <1>7, <2>4 DEF GuidedStep
    <3>2. both
      BY <2>4 DEF Descended
    <3>3. ~k.fault /\ k.started = c.started /\ k.candidate = c.candidate
      BY <1>3, <1>7 DEF Same
    <3> HIDE DEF r, k
    <3>4. /\ Fits(r) /\ (r.out.command # 0 => r.ctl.started /\ ~r.ctl.fault)
          /\ Confirmed(k, r, s)
      BY <1>3, <3>1, <3>3, NavigateFits
    <3> QED
      BY <1>7, <2>4, <3>2, <3>3, <3>4 DEF r, Confirmed
  <2> QED
    BY <2>1, <2>2, <2>3, <2>4
<1> QED
  BY <1>5, <1>6, <1>7

-----------------------------------------------------------------------------
(* The inductive invariant.                                                 *)

StagesFit == stage \in {"idle", "armed", "released", "landed"} /\ canopy \in BOOLEAN /\ stable \in BOOLEAN

\* A candidate of a test that has not steered is no older than the fixes seen.
CandidateIsSeen ==
  /\ seen.nav \in {Unset} \cup Nat
  /\ ~ctl.started /\ ~ctl.fault /\ stage # "landed" /\ ctl.candidate # Unset =>
       seen.nav # Unset /\ seen.nav >= Smaller(ctl.candidate, Guided.navConfirm)

Inv ==
  /\ Sound(ctl) /\ out \in GuidedOutput /\ out.command \in {0, ctl.law.value}
  /\ fix \in Positions /\ StagesFit
  /\ SteersOnlyAfterGates /\ CandidateIsSeen

LEMMA FreshSound ==
  /\ Sound(Fresh) /\ Fresh.candidate = Unset /\ ~Fresh.started /\ ~Fresh.fault
  /\ Neutral(Fresh, "WAITING_RELEASE").out \in GuidedOutput
  /\ Neutral(Fresh, "WAITING_RELEASE").out.command = 0
<1>1. /\ Unset \in Timer /\ {} \in SUBSET Int /\ 0 \in Nat /\ 0 \in -1 .. 1
      /\ 0 \in Limits /\ 0 \in Int
  BY TimerFacts, ConfigFacts DEF Limits
<1>2. Bound(Straight)
  BY <1>1 DEF Straight, Bound, SteeringLaw
<1>3. Sound(Fresh) /\ Fresh.candidate = Unset /\ ~Fresh.started /\ ~Fresh.fault
  BY <1>1, <1>2 DEF Fresh, Sound, Bound, GuidedDropController
<1>4. "WAITING_RELEASE" \in GuidedStatus
  BY DEF GuidedStatus
<1> HIDE DEF Fresh
<1>5. /\ Neutral(Fresh, "WAITING_RELEASE").out \in GuidedOutput
      /\ Neutral(Fresh, "WAITING_RELEASE").out.command = 0
  BY <1>3, <1>4, NeutralFits DEF Fits, Result
<1> QED
  BY <1>3, <1>5

LEMMA UnseenFacts == Unseen.nav = Unset
  BY DEF Unseen

\* What an iteration leaves; h is what was seen before it.
LEMMA SteppedFits ==
  ASSUME NEW c, Sound(c), StagesFit', fix' \in Positions, NEW s \in Flight,
         NEW dt \in Nat, NEW h, h.nav \in {Unset} \cup Nat,
         ~c.started /\ ~c.fault /\ c.candidate # Unset /\ stage' = "released" =>
           h.nav # Unset /\ h.nav >= Smaller(c.candidate, Guided.navConfirm),
         Stepped(c, s, dt, h)
  PROVE  Inv' /\ (~c.started /\ ctl'.started => c.candidate # Unset /\ seen'.nav >= Guided.navConfirm)
<1> DEFINE o == Older(c, dt)
           both == canopy' /\ stable'
           r == GuidedStep(o, stage', both, since', s, fix', dt)
           run == Run(h.nav, s.gps /\ stage' = "released", dt, Guided.navConfirm)
<1>1. Sound(o) /\ o.started = c.started /\ o.fault = c.fault /\ o.candidate = Later(c.candidate, dt)
  BY OlderSound
<1>2. both \in BOOLEAN /\ fix' \in Int
  BY ConfigFacts DEF StagesFit
<1>3. ctl' = r.ctl /\ out' = r.out /\ seen' = Saw(h, c, r.ctl, r.out, s, dt)
  BY DEF Stepped
<1>4. seen'.nav = run
  BY <1>3 DEF Saw
<1> HIDE DEF o, both
<1>5. /\ Fits(r)
      /\ r.out.command # 0 => stage' = "released" /\ both /\ r.ctl.started /\ ~r.ctl.fault
      /\ ~o.started /\ r.ctl.started =>
           /\ stage' = "released" /\ s.gps /\ ~o.fault
           /\ o.candidate # Unset /\ o.candidate >= Guided.navConfirm
      /\ ~r.ctl.started /\ ~r.ctl.fault /\ stage' # "landed" /\ r.ctl.candidate # Unset =>
           /\ stage' = "released" /\ s.gps /\ ~o.started /\ ~o.fault
           /\ r.ctl.candidate = Started(o.candidate)
  BY <1>1, <1>2, StepFits
<1> HIDE DEF r
<1>6. /\ Guided.navConfirm \in Nat /\ Guided.navConfirm <= AgeCap /\ AgeCap \in Nat
      /\ c.candidate \in Timer /\ Unset = -1 /\ dt \in Nat
  BY ConfigFacts DEF Sound, GuidedDropController, Unset
<1>7. run \in {Unset} \cup Nat
  BY <1>6 DEF Run, Smaller
<1>8. ASSUME s.gps, stage' = "released", ~c.started, ~c.fault
      PROVE  /\ run # Unset /\ run >= Smaller(Started(Later(c.candidate, dt)), Guided.navConfirm)
             /\ c.candidate # Unset /\ Later(c.candidate, dt) >= Guided.navConfirm =>
                  run >= Guided.navConfirm
  <2>1. run = IF h.nav = Unset THEN 0 ELSE Smaller(h.nav + dt, Guided.navConfirm)
    BY <1>8 DEF Run
  <2>2. CASE c.candidate = Unset
    BY <1>6, <2>1, <2>2 DEF Later, Started, Smaller
  <2>3. CASE c.candidate # Unset
    <3>1. h.nav # Unset /\ h.nav \in Nat /\ h.nav >= Smaller(c.candidate, Guided.navConfirm)
      BY <1>8, <2>3
    <3>2. c.candidate \in Nat /\ Later(c.candidate, dt) = IF c.candidate + dt > AgeCap THEN AgeCap ELSE c.candidate + dt
      BY <1>6, <2>3 DEF Later, Timer, Age
    <3>3. Started(Later(c.candidate, dt)) = Later(c.candidate, dt)
      BY <1>6, <3>2 DEF Started
    <3>4. run = Smaller(h.nav + dt, Guided.navConfirm)
      BY <2>1, <3>1
    <3> HIDE DEF run
    <3> QED
      BY <1>6, <3>1, <3>2, <3>3, <3>4 DEF Smaller
  <2> QED
    BY <2>2, <2>3
<1> HIDE DEF run
<1>9. Sound(ctl') /\ out' \in GuidedOutput /\ out'.command \in {0, ctl'.law.value}
  BY <1>3, <1>5 DEF Fits, Result, Sound
<1>10. SteersOnlyAfterGates'
  BY <1>3, <1>5 DEF SteersOnlyAfterGates, both
<1>11. CandidateIsSeen'
  <2>1. ASSUME ~ctl'.started, ~ctl'.fault, stage' # "landed", ctl'.candidate # Unset
        PROVE  seen'.nav # Unset /\ seen'.nav >= Smaller(ctl'.candidate, Guided.navConfirm)
    <3>1. /\ stage' = "released" /\ s.gps /\ ~c.started /\ ~c.fault
          /\ ctl'.candidate = Started(Later(c.candidate, dt))
      BY <1>1, <1>3, <1>5, <2>1
    <3> QED
      BY <1>4, <1>8, <3>1
  <2> QED
    BY <1>4, <1>7, <2>1 DEF CandidateIsSeen
<1>12. ASSUME ~c.started, ctl'.started
       PROVE  c.candidate # Unset /\ seen'.nav >= Guided.navConfirm
  <2>1. /\ stage' = "released" /\ s.gps /\ ~c.fault /\ Later(c.candidate, dt) # Unset
        /\ Later(c.candidate, dt) >= Guided.navConfirm
    BY <1>1, <1>3, <1>5, <1>12
  <2>2. c.candidate # Unset
    BY <2>1 DEF Later
  <2> QED
    BY <1>4, <1>8, <1>12, <2>1, <2>2
<1> QED
  BY <1>9, <1>10, <1>11, <1>12 DEF Inv

LEMMA Initially == GuidedInit => Inv
<1> SUFFICES ASSUME GuidedInit PROVE Inv
  OBVIOUS
<1>1. StagesFit /\ fix \in Positions /\ ctl = Fresh /\ seen = Unseen
      /\ out = Neutral(Fresh, "WAITING_RELEASE").out
  BY DEF GuidedInit, StagesInit, StagesFit
<1>2. /\ out \in GuidedOutput /\ out.command \in {0, ctl.law.value} /\ Sound(ctl)
      /\ SteersOnlyAfterGates
  BY <1>1, FreshSound DEF SteersOnlyAfterGates
<1>3. CandidateIsSeen
  BY <1>1, FreshSound, UnseenFacts DEF CandidateIsSeen
<1> QED
  BY <1>1, <1>2, <1>3 DEF Inv

\* What the steps of a test leave, and what the first steering needs.
Kept == Inv' /\ (~ctl.started /\ ctl'.started => seen'.nav >= Guided.navConfirm)

LEMMA ArmKeeps ==
  ASSUME Inv, NEW s \in Flights, NEW dt \in Ticks, ArmGuided(s, dt)
  PROVE  Kept
<1>1. s \in Flight /\ dt \in Nat
  BY ConfigFacts
<1>2. StagesFit' /\ fix' \in Positions /\ Stepped(Fresh, s, dt, Unseen)
  BY DEF ArmGuided, ArmTest, StagesFit, Locate
<1>3. Sound(Fresh) /\ Fresh.candidate = Unset /\ ~Fresh.started /\ Unseen.nav \in {Unset} \cup Nat
  BY FreshSound, UnseenFacts
<1> HIDE DEF Fresh, Unseen
<1> QED
  BY <1>1, <1>2, <1>3, SteppedFits DEF Kept

LEMMA FlyKeeps ==
  ASSUME Inv, NEW s \in Flights, NEW dt \in Ticks, Fly(s, dt)
  PROVE  Kept
<1>1. s \in Flight /\ dt \in Nat
  BY ConfigFacts
<1>2. StagesFit' /\ (stage' = "released" => stage # "landed")
  BY DEF Inv, Fly, ReleaseTest, Observe, stageVars, StagesFit
<1>3. fix' \in Positions /\ Stepped(ctl, s, dt, seen)
  BY DEF Fly, Locate
<1>4. /\ Sound(ctl) /\ seen.nav \in {Unset} \cup Nat
      /\ ~ctl.started /\ ~ctl.fault /\ ctl.candidate # Unset /\ stage' = "released" =>
           seen.nav # Unset /\ seen.nav >= Smaller(ctl.candidate, Guided.navConfirm)
  BY <1>2 DEF Inv, CandidateIsSeen
<1> QED
  BY <1>1, <1>2, <1>3, <1>4, SteppedFits DEF Kept

LEMMA StepKeeps ==
  ASSUME Inv, [GuidedNext]_guidedVars
  PROVE  Kept
<1>1. ASSUME NEW s \in Flights, NEW dt \in Ticks, ArmGuided(s, dt)
      PROVE  Kept
  BY <1>1, ArmKeeps
<1>2. ASSUME NEW s \in Flights, NEW dt \in Ticks, Fly(s, dt)
      PROVE  Kept
  BY <1>2, FlyKeeps
<1>3. CASE EndGuided
  <2>1. /\ StagesFit' /\ fix' \in Positions /\ ctl' = Fresh /\ seen' = Unseen
        /\ out' = Neutral(Fresh, "WAITING_RELEASE").out
    BY <1>3 DEF EndGuided, EndTest, StagesFit, Inv
  <2>2. /\ out' \in GuidedOutput /\ out'.command = 0 /\ Sound(ctl') /\ ~ctl'.started
        /\ ctl'.candidate = Unset /\ seen'.nav = Unset
    BY <2>1, FreshSound, UnseenFacts
  <2> QED
    BY <2>1, <2>2 DEF Kept, Inv, SteersOnlyAfterGates, CandidateIsSeen
<1>4. CASE UNCHANGED guidedVars
  BY <1>4 DEF guidedVars, Kept, Inv, Sound, StagesFit, SteersOnlyAfterGates, CandidateIsSeen
<1> QED
  BY <1>1, <1>2, <1>3, <1>4 DEF GuidedNext, Rest

-----------------------------------------------------------------------------
(* What each part of a step leaves to the next: the timers of the losses and  *)
(* the record of the position.                                              *)

Carried(c, d) ==
  /\ d.fault = c.fault /\ d.candidate = c.candidate
  /\ d.loss = c.loss /\ d.spinning = c.spinning
  /\ d.accepted = c.accepted /\ d.suspect = c.suspect /\ d.recovered = c.recovered

LEMMA RunGuidanceLeaves ==
  ASSUME NEW c, Sound(c), NEW s \in Flight, NEW distance, NEW slow, NEW final, NEW most,
         NEW status, NEW dt
  PROVE  LET r == RunGuidance(c, s, distance, slow, final, most, status, dt) IN
         Carried(c, r.ctl) /\ r.ctl.started /\ r.out.status = status
<1> DEFINE w == Watch(c, s.error)
           q == ComputeGuidance(w.law, Trimmed(w, s, most),
                  [gps |-> TRUE, final |-> final, alt |-> s.alt, distance |-> distance,
                   error |-> s.error, slow |-> slow], dt)
           law == q.law
           d == [w EXCEPT !.law = law, !.started = TRUE]
<1>1. s.error \in Int
  BY DEF Flight
<1>2. Sound(w)
  BY <1>1, WatchSame
<1>3. Carried(c, w)
  <2> DEFINE f == IF c.swing = Unset \/ c.swing > Guided.swingWindow
                  THEN [c EXCEPT !.swing = 0, !.swings = 0, !.side = 0] ELSE c
             turn == IF Magnitude(s.error) > Guided.law.deadband THEN Sign(s.error) ELSE 0
             n == IF turn # 0 /\ f.side # 0 /\ turn # f.side /\ f.swings < Guided.swings
                  THEN f.swings + 1 ELSE f.swings
             v == IF turn # 0 THEN turn ELSE f.side
  <2>1. w = [f EXCEPT !.swings = n, !.side = v]
    BY DEF Watch
  <2>2. Carried(c, f)
    BY DEF Carried, Sound, GuidedDropController
  <2> HIDE DEF n, v, f, w
  <2> QED
    BY <2>1, <2>2 DEF Carried
<1>4. RunGuidance(c, s, distance, slow, final, most, status, dt).ctl = d
      /\ RunGuidance(c, s, distance, slow, final, most, status, dt).out.status = status
  BY DEF RunGuidance
<1> HIDE DEF w, law
<1>5. Carried(w, d) /\ d.started = TRUE
  BY <1>2 DEF Sound, GuidedDropController, Carried
<1> HIDE DEF d
<1> QED
  BY <1>3, <1>4, <1>5 DEF Carried

LEMMA NeutralLeaves ==
  ASSUME NEW c, Sound(c), NEW status, NEW dt
  PROVE  /\ Neutral(c, status).ctl = c /\ Neutral(c, status).out.status = status
         /\ Faulted(c).ctl.fault /\ Faulted(c).out.status = "FAULT_NEUTRAL"
         /\ Faulted(c).ctl.started = c.started /\ Faulted(c).ctl.accepted = c.accepted
         /\ Faulted(c).ctl.suspect = c.suspect
         /\ Carried(c, Unwind(c, dt).ctl) /\ Unwind(c, dt).ctl.started = c.started
         /\ Unwind(c, dt).out.status = Lost(c)
<1>1. Neutral(c, status).ctl = c /\ Neutral(c, status).out.status = status
  BY DEF Neutral
<1>2. /\ Faulted(c).ctl.fault /\ Faulted(c).out.status = "FAULT_NEUTRAL"
      /\ Faulted(c).ctl.started = c.started /\ Faulted(c).ctl.accepted = c.accepted
      /\ Faulted(c).ctl.suspect = c.suspect
  BY DEF Faulted, Neutral, Sound, GuidedDropController
<1> DEFINE l == Slewed(c.law, 0, Guided.law.slew * dt)
           d == [c EXCEPT !.law = l]
<1>3. Unwind(c, dt).ctl = d /\ Unwind(c, dt).out.status = Lost(c)
  BY DEF Unwind
<1> HIDE DEF l
<1>4. Carried(c, d) /\ d.started = c.started
  BY DEF Carried, Sound, GuidedDropController
<1> QED
  BY <1>1, <1>2, <1>3, <1>4

\* acceptGpsPoint touches the record of the position only.
LEMMA AcceptLeaves ==
  ASSUME NEW c, Sound(c), NEW s, NEW pos \in Int
  PROVE  LET a == Accept(c, s, pos) IN
         /\ a.loss = c.loss /\ a.spinning = c.spinning
         /\ Accepts(c, s, pos) =>
              ~a.suspect /\ a.accepted = {pos} /\ ~Jumped(c, pos) /\ ~Recovering(c) /\ s.gps
         /\ ~Accepts(c, s, pos) => a.accepted = c.accepted
         /\ ~s.gps => a = c
         /\ s.gps /\ Jumped(c, pos) => a.suspect /\ a.recovered = 0
         /\ ~Accepts(c, s, pos) /\ s.gps /\ ~Jumped(c, pos) =>
              Recovering(c) /\ a.suspect = c.suspect /\ a.recovered = c.recovered + 1
<1> DEFINE n == c.recovered + 1
           a1 == [c EXCEPT !.suspect = TRUE, !.recovered = 0]
           a2 == [c EXCEPT !.recovered = n]
           a3 == [c EXCEPT !.suspect = FALSE, !.recovered = 0, !.accepted = {pos}]
           a == Accept(c, s, pos)
<1>1. CASE ~s.gps
  <2>1. a = c /\ ~Accepts(c, s, pos)
    BY <1>1 DEF Accept, Accepts
  <2> QED
    BY <1>1, <2>1
<1>2. CASE s.gps /\ Jumped(c, pos)
  <2>1. a = a1 /\ ~Accepts(c, s, pos)
    BY <1>2 DEF Accept, Accepts
  <2>2. /\ a1.loss = c.loss /\ a1.spinning = c.spinning /\ a1.accepted = c.accepted
        /\ a1.suspect /\ a1.recovered = 0
    BY DEF Sound, GuidedDropController
  <2> QED
    BY <1>2, <2>1, <2>2
<1>3. CASE s.gps /\ ~Jumped(c, pos) /\ Recovering(c)
  <2>1. a = a2 /\ ~Accepts(c, s, pos)
    BY <1>3 DEF Accept, Accepts
  <2>2. /\ a2.loss = c.loss /\ a2.spinning = c.spinning /\ a2.accepted = c.accepted
        /\ a2.suspect = c.suspect /\ a2.recovered = n
    BY DEF Sound, GuidedDropController
  <2> QED
    BY <1>3, <2>1, <2>2
<1>4. CASE s.gps /\ ~Jumped(c, pos) /\ ~Recovering(c)
  <2>1. a = a3 /\ Accepts(c, s, pos)
    BY <1>4 DEF Accept, Accepts
  <2>2. /\ a3.loss = c.loss /\ a3.spinning = c.spinning /\ a3.accepted = {pos} /\ ~a3.suspect
    BY DEF Sound, GuidedDropController
  <2> QED
    BY <1>4, <2>1, <2>2
<1> QED
  BY <1>1, <1>2, <1>3, <1>4

\* A status that says that the position was looked at and no fault latched.
Navigating(status) ==
  status \in {"WAITING_NAVIGATION", "GUIDANCE_ACTIVE", "FINAL_APPROACH", "GPS_SUSPECT",
              "GPS_COURSE_HOLD"}

\* A position was lost: the timer of the loss runs, and what goes on without a
\* fault is within the time of the loss or of the course hold.
LossRuns(c, r) ==
  /\ r.ctl.loss = Started(c.loss) /\ r.ctl.spinning = c.spinning
  /\ \/ r.ctl.loss < Guided.navLoss /\ r.out.status # "GPS_COURSE_HOLD"
     \/ Guided.hold /\ r.ctl.loss <= Guided.holdTime

LEMMA UnguidedLeaves ==
  ASSUME NEW c, Sound(c), c.started, ~c.fault, NEW s \in Flight, NEW dt
  PROVE  LET r == Unguided(c, s, dt) IN
         /\ r.ctl.started /\ r.ctl.accepted = c.accepted /\ r.ctl.suspect = c.suspect
         /\ \/ r.ctl.fault /\ r.out.status = "FAULT_NEUTRAL"
            \/ /\ ~r.ctl.fault /\ LossRuns(c, r) /\ Navigating(r.out.status)
               /\ r.ctl.candidate = c.candidate /\ r.ctl.recovered = c.recovered
<1> DEFINE l == Started(c.loss)
           d == [c EXCEPT !.loss = l]
           r == Unguided(c, s, dt)
           far == Magnitude(CHOOSE p \in d.accepted : TRUE)
           most == Smaller(Guided.law.limit, Guided.holdLimit)
<1>1. r = IF Guided.hold /\ d.accepted # {} /\ d.loss <= Guided.holdTime
          THEN RunGuidance(d, s, far, FALSE, FALSE, most, "GPS_COURSE_HOLD", dt)
          ELSE IF d.loss >= Guided.navLoss THEN Faulted(d) ELSE Unwind(d, dt)
  BY DEF Unguided
<1>2. l \in Timer /\ l = Started(c.loss)
  BY TimerFacts DEF Sound, GuidedDropController
<1> HIDE DEF l
<1>3. Sound(d)
  BY <1>2, LossSame
<1>4. /\ d.loss = l /\ d.spinning = c.spinning /\ d.accepted = c.accepted
      /\ d.suspect = c.suspect /\ d.candidate = c.candidate /\ d.recovered = c.recovered
      /\ d.started /\ ~d.fault
  BY DEF Sound, GuidedDropController
<1> HIDE DEF d, far, most, r
<1>5. CASE Guided.hold /\ d.accepted # {} /\ d.loss <= Guided.holdTime
  <2>1. r = RunGuidance(d, s, far, FALSE, FALSE, most, "GPS_COURSE_HOLD", dt)
    BY <1>1, <1>5
  <2>2. \A no : LET q == RunGuidance(d, s, far, no, no, most, "GPS_COURSE_HOLD", dt) IN
                Carried(d, q.ctl) /\ q.ctl.started /\ q.out.status = "GPS_COURSE_HOLD"
    BY <1>3, RunGuidanceLeaves
  <2>3. Carried(d, r.ctl) /\ r.ctl.started /\ r.out.status = "GPS_COURSE_HOLD"
    BY <2>1, <2>2, Zenon
  <2> QED
    BY <1>2, <1>4, <1>5, <2>3 DEF r, Carried, LossRuns, Navigating
<1>6. CASE ~(Guided.hold /\ d.accepted # {} /\ d.loss <= Guided.holdTime)
           /\ d.loss >= Guided.navLoss
  <2>1. r = Faulted(d)
    BY <1>1, <1>6
  <2> QED
    BY <1>3, <1>4, <2>1, NeutralLeaves DEF r
<1>7. CASE ~(Guided.hold /\ d.accepted # {} /\ d.loss <= Guided.holdTime)
           /\ ~(d.loss >= Guided.navLoss)
  <2>1. r = Unwind(d, dt)
    BY <1>1, <1>7
  <2>2. Carried(d, r.ctl) /\ r.ctl.started = d.started /\ r.out.status = Lost(d)
    BY <1>3, <2>1, NeutralLeaves
  <2>3. d.loss < Guided.navLoss
    BY <1>2, <1>4, <1>7, GuidedAssumption, AgeCapIsNat DEF GuidedConfig, Timer, Age, Unset
  <2> QED
    BY <1>2, <1>4, <2>2, <2>3 DEF r, Carried, LossRuns, Navigating, Lost
<1> QED
  BY <1>5, <1>6, <1>7

\* What navigating leaves of a flight without a fault.
LEMMA NavigateLeaves ==
  ASSUME NEW c, Sound(c), ~c.fault, NEW s \in Flight, NEW pos \in Int, NEW dt
  PROVE  LET r == Navigate(c, s, pos, dt)
             a == Accept(c, s, pos) IN
         /\ r.ctl.accepted = a.accepted /\ r.ctl.suspect = a.suspect
         /\ \/ r.ctl.fault /\ r.out.status = "FAULT_NEUTRAL" /\ ~Accepts(c, s, pos)
               /\ c.started /\ r.ctl.started
            \/ /\ ~r.ctl.fault /\ r.ctl.recovered = a.recovered /\ Navigating(r.out.status)
               /\ \/ /\ ~Accepts(c, s, pos) /\ r.ctl.candidate = Unset
                     /\ c.started => r.ctl.started /\ LossRuns(c, r)
                     /\ ~c.started => ~r.ctl.started /\ r.out.status # "GPS_COURSE_HOLD"
                  \/ /\ Accepts(c, s, pos)
                     /\ r.ctl.loss = Unset /\ r.ctl.spinning = c.spinning
                     /\ r.out.status # "GPS_COURSE_HOLD"
                     /\ r.ctl.candidate = Started(c.candidate)
                     /\ \/ r.ctl.started = c.started
                        \/ /\ r.ctl.started /\ c.candidate # Unset
                           /\ c.candidate >= Guided.navConfirm
<1> DEFINE a == Accept(c, s, pos)
           l == [a EXCEPT !.candidate = Unset]
           t == Started(a.candidate)
           e == [a EXCEPT !.loss = Unset]
           w == [a EXCEPT !.loss = Unset, !.candidate = t]
           r == Navigate(c, s, pos, dt)
           status == IF FinalApproach(s, pos) THEN "FINAL_APPROACH" ELSE "GUIDANCE_ACTIVE"
<1>1. /\ Sound(a) /\ a.started = c.started /\ a.fault = c.fault /\ a.candidate = c.candidate
      /\ a.loss = c.loss /\ a.spinning = c.spinning
  BY AcceptSame, AcceptLeaves DEF Same
<1>2. r = IF ~Accepts(c, s, pos)
          THEN IF l.started THEN Unguided(l, s, dt) ELSE Neutral(l, Lost(l))
          ELSE IF a.candidate = Unset \/ a.candidate < Guided.navConfirm
               THEN Neutral([a EXCEPT !.loss = Unset, !.candidate = Started(@)],
                            "WAITING_NAVIGATION")
               ELSE Steer(e, s, pos, dt)
  BY DEF Navigate
<1>3. Steer(e, s, pos, dt) =
        RunGuidance(e, s, Magnitude(pos), s.slow, FinalApproach(s, pos), Guided.law.limit,
                    status, dt)
  BY DEF Steer
<1> HIDE DEF a
<1>4. [a EXCEPT !.loss = Unset, !.candidate = Started(@)] = w
  BY <1>1 DEF Sound, GuidedDropController
<1>5. Unset \in Timer /\ t \in Timer /\ a.candidate \in Timer /\ t = Started(c.candidate)
  BY <1>1, TimerFacts DEF Sound, GuidedDropController
<1> HIDE DEF t
<1>6. /\ Sound(l) /\ l.candidate = Unset /\ l.started = a.started /\ l.fault = a.fault
      /\ l.loss = a.loss /\ l.spinning = a.spinning /\ l.accepted = a.accepted
      /\ l.suspect = a.suspect /\ l.recovered = a.recovered
  BY <1>1, <1>5 DEF Sound, GuidedDropController
<1>7. /\ Sound(e) /\ e.candidate = a.candidate /\ e.started = a.started /\ e.fault = a.fault
      /\ e.loss = Unset /\ e.spinning = a.spinning /\ e.accepted = a.accepted
      /\ e.suspect = a.suspect /\ e.recovered = a.recovered
  BY <1>1, <1>5 DEF Sound, GuidedDropController
<1>8. /\ Sound(w) /\ w.candidate = t /\ w.started = a.started /\ w.fault = a.fault
      /\ w.loss = Unset /\ w.spinning = a.spinning /\ w.accepted = a.accepted
      /\ w.suspect = a.suspect /\ w.recovered = a.recovered
  BY <1>1, <1>5 DEF Sound, GuidedDropController
<1> HIDE DEF l, e, w, r, status
<1>9. CASE ~Accepts(c, s, pos) /\ c.started
  <2>1. r = Unguided(l, s, dt)
    BY <1>1, <1>2, <1>6, <1>9
  <2>2. /\ r.ctl.started /\ r.ctl.accepted = l.accepted /\ r.ctl.suspect = l.suspect
        /\ \/ r.ctl.fault /\ r.out.status = "FAULT_NEUTRAL"
           \/ /\ ~r.ctl.fault /\ LossRuns(l, r) /\ Navigating(r.out.status)
              /\ r.ctl.candidate = l.candidate /\ r.ctl.recovered = l.recovered
    <3>1. Sound(l) /\ l.started /\ ~l.fault
      BY <1>1, <1>6, <1>9
    <3> QED
      BY <2>1, <3>1, UnguidedLeaves
  <2>3. LossRuns(l, r) => LossRuns(c, r)
    BY <1>1, <1>6 DEF LossRuns
  <2> QED
    BY <1>6, <1>9, <2>2, <2>3 DEF r, a
<1>10. CASE ~Accepts(c, s, pos) /\ ~c.started
  <2>1. r = Neutral(l, Lost(l))
    BY <1>1, <1>2, <1>6, <1>10
  <2>2. r.ctl = l /\ r.out.status = Lost(l)
    BY <1>6, <2>1, NeutralLeaves
  <2>3. Navigating(Lost(l)) /\ Lost(l) # "GPS_COURSE_HOLD"
    BY DEF Navigating, Lost
  <2> QED
    BY <1>1, <1>6, <1>10, <2>2, <2>3 DEF r, a
<1>11. CASE Accepts(c, s, pos) /\ (a.candidate = Unset \/ a.candidate < Guided.navConfirm)
  <2>1. r = Neutral(w, "WAITING_NAVIGATION")
    BY <1>2, <1>4, <1>11
  <2>2. r.ctl = w /\ r.out.status = "WAITING_NAVIGATION"
    BY <1>8, <2>1, NeutralLeaves
  <2> QED
    BY <1>1, <1>5, <1>8, <1>11, <2>2 DEF r, a, Navigating
<1>12. CASE Accepts(c, s, pos) /\ ~(a.candidate = Unset \/ a.candidate < Guided.navConfirm)
  <2>1. r = RunGuidance(e, s, Magnitude(pos), s.slow, FinalApproach(s, pos), Guided.law.limit,
                        status, dt)
    BY <1>2, <1>3, <1>12
  <2>2. Carried(e, r.ctl) /\ r.ctl.started /\ r.out.status = status
    BY <1>7, <2>1, RunGuidanceLeaves
  <2>3. Navigating(status) /\ status # "GPS_COURSE_HOLD"
    BY DEF Navigating, status
  <2>4. c.candidate # Unset /\ c.candidate >= Guided.navConfirm /\ Started(c.candidate) = c.candidate
    BY <1>1, <1>5, <1>12, ConfigFacts DEF Timer, Age, Unset, Started
  <2> QED
    BY <1>1, <1>7, <1>12, <2>2, <2>3, <2>4 DEF r, a, Carried
<1> QED
  BY <1>9, <1>10, <1>11, <1>12

LEMMA OlderLeaves ==
  ASSUME NEW c, Sound(c), NEW dt \in Nat
  PROVE  LET o == Older(c, dt) IN
         /\ o.loss = Later(c.loss, dt) /\ o.spinning = Later(c.spinning, dt)
         /\ o.accepted = c.accepted /\ o.suspect = c.suspect /\ o.recovered = c.recovered
         /\ \A pos : Jumped(o, pos) = Jumped(c, pos)
         /\ Recovering(o) = Recovering(c)
         /\ \A s, pos : Accepts(o, s, pos) = Accepts(c, s, pos)
<1> DEFINE a == Later(c.candidate, dt)
           b == Later(c.loss, dt)
           e == Later(c.spinning, dt)
           f == Later(c.swing, dt)
           l == AgedLaw(c.law, dt)
           d == [c EXCEPT !.candidate = a, !.loss = b, !.spinning = e, !.swing = f, !.law = l]
<1>1. Older(c, dt) = d
  BY DEF Older, Sound, GuidedDropController
<1> HIDE DEF a, b, e, f, l
<1>2. /\ d.loss = b /\ d.spinning = e
      /\ d.accepted = c.accepted /\ d.suspect = c.suspect /\ d.recovered = c.recovered
  BY DEF Sound, GuidedDropController
<1> HIDE DEF d
<1>3. (\A pos : Jumped(d, pos) = Jumped(c, pos)) /\ Recovering(d) = Recovering(c)
  BY <1>2 DEF Jumped, Recovering
<1> QED
  BY <1>1, <1>2, <1>3 DEF b, e, Accepts

\* What a step does to the record of the position.
Position(c, r, s, pos) ==
  \/ /\ r.ctl.accepted = c.accepted /\ r.ctl.suspect = c.suspect
     /\ r.ctl.fault \/ r.ctl.recovered = c.recovered
     /\ ~Navigating(r.out.status) \/ s.rate = "spin"
  \/ /\ ~c.fault /\ s.rate # "spin"
     /\ r.ctl.accepted = Accept(c, s, pos).accepted
     /\ r.ctl.suspect = Accept(c, s, pos).suspect
     /\ \/ r.ctl.fault /\ ~Accepts(c, s, pos)
        \/ Navigating(r.out.status) /\ r.ctl.recovered = Accept(c, s, pos).recovered

\* The ways a step of a released test goes on without a fault: it waits, it
\* spins, it has no position or it has one.
GoesOn(c, r, both, ago, s, pos) ==
  \/ /\ r.ctl.candidate = Unset /\ (r.ctl.started <=> c.started)
     /\ Deploying(ago) \/ ~both \/ ~c.started
     /\ r.out.status # "GPS_COURSE_HOLD"
  \/ /\ ~Deploying(ago) /\ both /\ c.started /\ r.ctl.started
     /\ r.ctl.candidate = c.candidate /\ r.ctl.loss = c.loss
     /\ r.ctl.spinning = Started(c.spinning) /\ r.ctl.spinning < Guided.instability
     /\ r.out.status # "GPS_COURSE_HOLD"
  \/ /\ ~Deploying(ago) /\ both /\ ~Accepts(c, s, pos) /\ r.ctl.candidate = Unset
     /\ c.started /\ r.ctl.started
     /\ r.ctl.loss = Started(c.loss) /\ r.ctl.spinning = Unset
     /\ \/ r.ctl.loss < Guided.navLoss /\ r.out.status # "GPS_COURSE_HOLD"
        \/ Guided.hold /\ r.ctl.loss <= Guided.holdTime
  \/ /\ ~Deploying(ago) /\ both /\ Accepts(c, s, pos)
     /\ r.ctl.loss = Unset /\ r.ctl.spinning = Unset
     /\ r.ctl.candidate = Started(c.candidate)
     /\ \/ r.ctl.started = c.started
        \/ r.ctl.started /\ c.candidate # Unset /\ c.candidate >= Guided.navConfirm
     /\ r.out.status # "GPS_COURSE_HOLD"

LEMMA StepLeaves ==
  ASSUME NEW c, Sound(c), NEW st, NEW both \in BOOLEAN, NEW ago, NEW s \in Flight,
         NEW pos \in Int, NEW dt
  PROVE  LET r == GuidedStep(c, st, both, ago, s, pos, dt) IN
         /\ Position(c, r, s, pos)
         /\ ~r.ctl.fault => ~c.fault
         /\ st # "released" =>
              r.ctl.started = c.started /\ r.out.status # "GPS_COURSE_HOLD"
         /\ st = "released" /\ r.ctl.fault => r.out.status # "GPS_COURSE_HOLD"
         /\ st = "released" /\ ~r.ctl.fault => ~c.fault /\ GoesOn(c, r, both, ago, s, pos)
<1> DEFINE r == GuidedStep(c, st, both, ago, s, pos, dt)
           w == [c EXCEPT !.candidate = Unset, !.loss = Unset]
           n == [c EXCEPT !.candidate = Unset]
           k == [c EXCEPT !.spinning = Unset]
<1>1. Unset \in Timer
  BY TimerFacts
<1>2. /\ Sound(w) /\ w.candidate = Unset /\ w.started = c.started /\ w.fault = c.fault
      /\ w.accepted = c.accepted /\ w.suspect = c.suspect /\ w.recovered = c.recovered
  BY <1>1 DEF Sound, GuidedDropController
<1>3. /\ Sound(n) /\ n.candidate = Unset /\ n.started = c.started /\ n.fault = c.fault
      /\ n.accepted = c.accepted /\ n.suspect = c.suspect /\ n.recovered = c.recovered
  BY <1>1 DEF Sound, GuidedDropController
<1>4. /\ Sound(k) /\ k.spinning = Unset /\ k.started = c.started /\ k.fault = c.fault
      /\ k.accepted = c.accepted /\ k.suspect = c.suspect /\ k.recovered = c.recovered
      /\ k.loss = c.loss /\ k.candidate = c.candidate
  BY <1>1 DEF Sound, GuidedDropController
<1>5. CASE st = "landed"
  <2>1. r = Neutral(c, "LANDED")
    BY <1>5 DEF GuidedStep
  <2>2. r.ctl = c /\ r.out.status = "LANDED"
    BY <2>1, NeutralLeaves
  <2> HIDE DEF r
  <2> QED
    BY <1>5, <2>2 DEF r, Position, Navigating
<1>6. CASE st # "landed" /\ (c.fault \/ ~s.fresh)
  <2>1. r = Faulted(c)
    BY <1>6 DEF GuidedStep
  <2>2. /\ r.ctl.fault /\ r.out.status = "FAULT_NEUTRAL" /\ r.ctl.started = c.started
        /\ r.ctl.accepted = c.accepted /\ r.ctl.suspect = c.suspect
    BY <2>1, NeutralLeaves
  <2> HIDE DEF r
  <2> QED
    BY <1>6, <2>2 DEF r, Position, Navigating
<1>7. CASE st # "landed" /\ ~c.fault /\ s.fresh /\ (st # "released" \/ Deploying(ago))
  <2>1. r = Neutral(w, "WAITING_RELEASE") \/ (r = Neutral(w, "DEPLOYMENT_NEUTRAL") /\ Deploying(ago))
    BY <1>7 DEF GuidedStep, Waiting
  <2> HIDE DEF w
  <2>2. r.ctl = w /\ r.out.status \in {"WAITING_RELEASE", "DEPLOYMENT_NEUTRAL"}
    BY <1>2, <2>1, NeutralLeaves
  <2> HIDE DEF r
  <2>3. Position(c, r, s, pos)
    BY <1>2, <2>2 DEF Position, Navigating
  <2>4. st = "released" => GoesOn(c, r, both, ago, s, pos)
    BY <1>2, <1>7, <2>2 DEF GoesOn
  <2> QED
    BY <1>2, <1>7, <2>2, <2>3, <2>4 DEF r
<1>8. CASE /\ st = "released" /\ ~c.fault /\ s.fresh /\ ~Deploying(ago)
           /\ ~Descended(c, s, both) \/ (~c.started /\ s.alt < Guided.minAlt)
  <2>1. r = Neutral(n, "WAITING_STABLE_DESCENT") \/ r = Neutral(n, "WAITING_ALTITUDE")
    BY <1>8 DEF GuidedStep
  <2>2. ~both \/ ~c.started
    BY <1>8 DEF Descended
  <2> HIDE DEF n
  <2>3. r.ctl = n /\ r.out.status \in {"WAITING_STABLE_DESCENT", "WAITING_ALTITUDE"}
    BY <1>3, <2>1, NeutralLeaves
  <2> HIDE DEF r
  <2>4. Position(c, r, s, pos)
    BY <1>3, <2>3 DEF Position, Navigating
  <2>5. GoesOn(c, r, both, ago, s, pos)
    BY <1>3, <2>2, <2>3 DEF GoesOn
  <2> QED
    BY <1>3, <1>8, <2>3, <2>4, <2>5 DEF r
<1>9. CASE /\ st = "released" /\ ~c.fault /\ s.fresh /\ ~Deploying(ago)
           /\ Descended(c, s, both) /\ ~(~c.started /\ s.alt < Guided.minAlt)
           /\ s.rate = "spin"
  <2> DEFINE t == Started(c.spinning)
             p == [c EXCEPT !.spinning = t]
  <2>1. r = IF p.spinning >= Guided.instability THEN Faulted(p) ELSE Unwind(p, dt)
    BY <1>9 DEF GuidedStep, Spin
  <2>2. both /\ c.started
    BY <1>9 DEF Descended
  <2>3. t \in Timer
    BY TimerFacts DEF Sound, GuidedDropController
  <2> HIDE DEF t
  <2>4. /\ Sound(p) /\ p.spinning = t /\ p.started = c.started /\ p.fault = c.fault
        /\ p.accepted = c.accepted /\ p.suspect = c.suspect /\ p.recovered = c.recovered
        /\ p.loss = c.loss /\ p.candidate = c.candidate
    BY <2>3 DEF Sound, GuidedDropController
  <2> HIDE DEF p, r
  <2>5. CASE p.spinning >= Guided.instability
    <3>1. r = Faulted(p)
      BY <2>1, <2>5
    <3>2. /\ r.ctl.fault /\ r.out.status = "FAULT_NEUTRAL" /\ r.ctl.started = p.started
          /\ r.ctl.accepted = p.accepted /\ r.ctl.suspect = p.suspect
      BY <2>4, <3>1, NeutralLeaves
    <3> QED
      BY <1>9, <2>4, <3>2 DEF r, Position
  <2>6. CASE ~(p.spinning >= Guided.instability)
    <3>1. r = Unwind(p, dt)
      BY <2>1, <2>6
    <3>2. Carried(p, r.ctl) /\ r.ctl.started = p.started /\ r.out.status = Lost(p)
      BY <2>4, <3>1, NeutralLeaves
    <3>3. p.spinning < Guided.instability
      BY <2>3, <2>4, <2>6, GuidedAssumption, AgeCapIsNat DEF GuidedConfig, Timer, Age, Unset
    <3>4. r.out.status # "GPS_COURSE_HOLD"
      BY <3>2 DEF Lost
    <3>5. Position(c, r, s, pos)
      BY <1>9, <2>4, <3>2 DEF Position, Carried
    <3>6. GoesOn(c, r, both, ago, s, pos)
      BY <1>9, <2>2, <2>4, <3>2, <3>3, <3>4 DEF GoesOn, Carried, t
    <3> QED
      BY <1>9, <2>4, <3>2, <3>4, <3>5, <3>6 DEF r, Carried
  <2> QED
    BY <2>5, <2>6
<1>10. CASE /\ st = "released" /\ ~c.fault /\ s.fresh /\ ~Deploying(ago)
            /\ Descended(c, s, both) /\ ~(~c.started /\ s.alt < Guided.minAlt)
            /\ s.rate # "spin"
  <2>1. r = Navigate(k, s, pos, dt)
    BY <1>10 DEF GuidedStep
  <2>2. both
    BY <1>10 DEF Descended
  <2>3. /\ Accepts(k, s, pos) = Accepts(c, s, pos)
        /\ Accept(k, s, pos).accepted = Accept(c, s, pos).accepted
        /\ Accept(k, s, pos).suspect = Accept(c, s, pos).suspect
        /\ Accept(k, s, pos).recovered = Accept(c, s, pos).recovered
    <3>1. Jumped(k, pos) = Jumped(c, pos) /\ Recovering(k) = Recovering(c)
      BY <1>4 DEF Jumped, Recovering
    <3>2. Accepts(k, s, pos) = Accepts(c, s, pos)
      BY <3>1 DEF Accepts
    <3> DEFINE a1(x) == [x EXCEPT !.suspect = TRUE, !.recovered = 0]
               a2(x) == [x EXCEPT !.recovered = @ + 1]
               a3(x) == [x EXCEPT !.suspect = FALSE, !.recovered = 0, !.accepted = {pos}]
    <3>3. \A x \in {c, k} : Sound(x)
      BY <1>4
    <3>4. \A x \in {c, k} :
            /\ a1(x).accepted = x.accepted /\ a1(x).suspect = TRUE /\ a1(x).recovered = 0
            /\ a2(x).accepted = x.accepted /\ a2(x).suspect = x.suspect
            /\ a2(x).recovered = x.recovered + 1
            /\ a3(x).accepted = {pos} /\ a3(x).suspect = FALSE /\ a3(x).recovered = 0
      BY <3>3 DEF Sound, GuidedDropController
    <3>5. \A x : Accept(x, s, pos) =
            IF ~s.gps THEN x ELSE IF Jumped(x, pos) THEN a1(x)
            ELSE IF Recovering(x) THEN a2(x) ELSE a3(x)
      BY DEF Accept
    <3> HIDE DEF a1, a2, a3, k
    <3> QED
      BY <1>4, <3>1, <3>2, <3>4, <3>5
  <2> HIDE DEF k, r
  <2>4. /\ r.ctl.accepted = Accept(k, s, pos).accepted
        /\ r.ctl.suspect = Accept(k, s, pos).suspect
        /\ \/ r.ctl.fault /\ r.out.status = "FAULT_NEUTRAL" /\ ~Accepts(k, s, pos)
              /\ k.started /\ r.ctl.started
           \/ /\ ~r.ctl.fault /\ r.ctl.recovered = Accept(k, s, pos).recovered
              /\ Navigating(r.out.status)
              /\ \/ /\ ~Accepts(k, s, pos) /\ r.ctl.candidate = Unset
                    /\ k.started => r.ctl.started /\ LossRuns(k, r)
                    /\ ~k.started => ~r.ctl.started /\ r.out.status # "GPS_COURSE_HOLD"
                 \/ /\ Accepts(k, s, pos)
                    /\ r.ctl.loss = Unset /\ r.ctl.spinning = k.spinning
                    /\ r.out.status # "GPS_COURSE_HOLD"
                    /\ r.ctl.candidate = Started(k.candidate)
                    /\ \/ r.ctl.started = k.started
                       \/ /\ r.ctl.started /\ k.candidate # Unset
                          /\ k.candidate >= Guided.navConfirm
    BY <1>4, <1>10, <2>1, NavigateLeaves
  <2>5. Position(c, r, s, pos)
    BY <1>10, <2>3, <2>4 DEF Position
  <2>6. r.ctl.fault => r.out.status # "GPS_COURSE_HOLD"
    BY <2>4
  <2>7. ~r.ctl.fault => GoesOn(c, r, both, ago, s, pos)
    <3>1. CASE ~r.ctl.fault /\ Accepts(k, s, pos)
      BY <1>4, <1>10, <2>2, <2>3, <2>4, <3>1 DEF GoesOn
    <3>2. CASE ~r.ctl.fault /\ ~Accepts(k, s, pos) /\ c.started
      BY <1>4, <1>10, <2>2, <2>3, <2>4, <3>2 DEF GoesOn, LossRuns
    <3>3. CASE ~r.ctl.fault /\ ~Accepts(k, s, pos) /\ ~c.started
      BY <1>4, <1>10, <2>2, <2>3, <2>4, <3>3 DEF GoesOn
    <3> QED
      BY <3>1, <3>2, <3>3
  <2> QED
    BY <1>10, <2>5, <2>6, <2>7 DEF r
<1> QED
  BY <1>5, <1>6, <1>7, <1>8, <1>9, <1>10

-----------------------------------------------------------------------------
(* The loss of the navigation is bounded.                                   *)

\* What the configuration and the timing of the build satisfy: iterations have a
\* longest time, a release is confirmed on a clock that is ahead by no more than the
\* navigation takes to be confirmed, and a course hold ends before the fault.
LossAssumption ==
  /\ \E t \in Ticks : \A u \in Ticks : u <= t
  /\ \A k \in Skews : k <= Guided.navConfirm
  /\ Guided.hold => Guided.holdTime < Guided.navLoss

LEMMA LossConfig ==
  ASSUME LossAssumption
  PROVE  /\ LongestTick \in Nat /\ LongestTick >= 1 /\ (\A u \in Ticks : u <= LongestTick)
         /\ Guided.navLoss \in Nat /\ Guided.instability \in Nat /\ Guided.deployment \in Nat
         /\ Guided.holdTime \in Nat /\ Guided.holdTime < AgeCap /\ Guided.navConfirm \in Nat
         /\ Guided.navLoss <= AgeCap /\ Guided.instability <= AgeCap /\ AgeCap \in Nat
         /\ LossBound = Guided.navLoss + 2 * Guided.instability + 2 * LongestTick
<1>1. LongestTick \in Ticks /\ \A u \in Ticks : u <= LongestTick
  BY DEF LossAssumption, LongestTick
<1>2. LongestTick \in Nat /\ LongestTick >= 1
  BY <1>1, GuidedAssumption
<1> QED
  BY <1>1, <1>2, GuidedAssumption, AgeCapIsNat DEF GuidedConfig, LossBound

\* How long the position has been lost, by the two timers that interrupt each
\* other: before the first iteration without a spin it is no longer than the spin,
\* and a spin adds its own time to a loss that had not led to a fault.
Losing(loss, spinning, lost) ==
  /\ spinning # Unset => spinning < Guided.instability
  /\ spinning = Unset /\ loss # Unset => loss < Guided.navLoss
  /\ lost # Unset =>
       /\ spinning # Unset \/ loss # Unset
       /\ loss = Unset => lost <= spinning
       /\ loss # Unset =>
            loss = AgeCap \/ lost <= loss + Guided.instability + LongestTick
       /\ spinning # Unset =>
            lost < spinning + Guided.navLoss + Guided.instability + 2 * LongestTick

LEMMA LosingIsBounded ==
  ASSUME LossAssumption, NEW loss \in Timer, NEW spinning \in Timer,
         NEW lost \in {Unset} \cup Nat, Losing(loss, spinning, lost)
  PROVE  /\ lost < LossBound
         /\ loss # Unset /\ loss <= Guided.holdTime =>
              lost <= Guided.holdTime + Guided.instability + LongestTick
BY LossConfig DEF Losing, Timer, Age, Unset

\* The history of the loss after an iteration.
LostFor(lost, dt, next) ==
  next \in {Unset, IF lost = Unset THEN 0 ELSE Smaller(lost + dt, LossBound)}

LEMMA SpinLoses ==
  ASSUME LossAssumption, NEW loss \in Timer, NEW spinning \in Timer, NEW dt \in Ticks,
         NEW lost \in {Unset} \cup Nat, Losing(loss, spinning, lost),
         NEW next, LostFor(lost, dt, next),
         Started(Later(spinning, dt)) < Guided.instability
  PROVE  Losing(Later(loss, dt), Started(Later(spinning, dt)), next)
<1>1. dt \in Nat /\ dt <= LongestTick /\ dt >= 1
  BY LossConfig, GuidedAssumption
<1>2. next \in {Unset} \cup Nat /\ (next # Unset => next = 0 \/ (lost # Unset /\ next <= lost + dt))
  BY <1>1, LossConfig DEF LostFor, Smaller, Unset
<1>3. Unset = -1 /\ loss \in {-1} \cup (0 .. AgeCap) /\ spinning \in {-1} \cup (0 .. AgeCap)
  BY DEF Unset, Timer, Age
<1> DEFINE p == Started(Later(spinning, dt))
           l == Later(loss, dt)
<1>4. p = IF spinning = -1 THEN 0 ELSE spinning + dt
  <2>1. Later(spinning, dt) = IF spinning = -1 THEN -1
                              ELSE IF spinning + dt > AgeCap THEN AgeCap ELSE spinning + dt
    BY <1>3 DEF Later
  <2>2. Started(Later(spinning, dt)) =
          IF Later(spinning, dt) = -1 THEN 0 ELSE Later(spinning, dt)
    BY <1>3 DEF Started
  <2> QED
    BY <1>1, <1>3, <2>1, <2>2, LossConfig
<1>5. l = IF loss = -1 THEN -1 ELSE IF loss + dt > AgeCap THEN AgeCap ELSE loss + dt
  BY <1>3 DEF Later
<1>6. p < Guided.instability
  OBVIOUS
<1> HIDE DEF p, l
<1>7. p # Unset /\ (l = Unset <=> loss = Unset)
  BY <1>1, <1>3, <1>4, <1>5, LossConfig
<1>8. ASSUME next # Unset
      PROVE  /\ loss = Unset => next <= p
             /\ loss # Unset => l = AgeCap \/ next <= l + Guided.instability + LongestTick
             /\ next < p + Guided.navLoss + Guided.instability + 2 * LongestTick
  <2>1. CASE next = 0
    BY <1>1, <1>3, <1>4, <1>5, <2>1, LossConfig
  <2>2. CASE lost # Unset /\ next <= lost + dt
    <3>1. loss = Unset => next <= p
      BY <1>1, <1>2, <1>3, <1>4, <1>8, <2>2 DEF Losing
    <3>2. loss # Unset => l = AgeCap \/ next <= l + Guided.instability + LongestTick
      BY <1>1, <1>2, <1>3, <1>5, <1>8, <2>2, LossConfig DEF Losing
    <3>3. next < p + Guided.navLoss + Guided.instability + 2 * LongestTick
      BY <1>1, <1>2, <1>3, <1>4, <1>8, <2>2, LossConfig DEF Losing
    <3> QED
      BY <3>1, <3>2, <3>3
  <2> QED
    BY <1>2, <1>8, <2>1, <2>2
<1> QED
  BY <1>6, <1>7, <1>8 DEF Losing, p, l

LEMMA LossLoses ==
  ASSUME LossAssumption, NEW loss \in Timer, NEW spinning \in Timer, NEW dt \in Ticks,
         NEW lost \in {Unset} \cup Nat, Losing(loss, spinning, lost),
         NEW next, LostFor(lost, dt, next),
         Started(Later(loss, dt)) < Guided.navLoss
  PROVE  Losing(Started(Later(loss, dt)), Unset, next)
<1>1. dt \in Nat /\ dt <= LongestTick /\ dt >= 1
  BY LossConfig, GuidedAssumption
<1>2. next \in {Unset} \cup Nat /\ (next # Unset => next = 0 \/ (lost # Unset /\ next <= lost + dt))
  BY <1>1, LossConfig DEF LostFor, Smaller, Unset
<1>3. Unset = -1 /\ loss \in {-1} \cup (0 .. AgeCap) /\ spinning \in {-1} \cup (0 .. AgeCap)
  BY DEF Unset, Timer, Age
<1> DEFINE l == Started(Later(loss, dt))
<1>4. l = IF loss = -1 THEN 0 ELSE loss + dt
  <2>1. Later(loss, dt) = IF loss = -1 THEN -1
                          ELSE IF loss + dt > AgeCap THEN AgeCap ELSE loss + dt
    BY <1>3 DEF Later
  <2>2. Started(Later(loss, dt)) = IF Later(loss, dt) = -1 THEN 0 ELSE Later(loss, dt)
    BY <1>3 DEF Started
  <2> QED
    BY <1>1, <1>3, <2>1, <2>2, LossConfig
<1>5. l < Guided.navLoss
  OBVIOUS
<1> HIDE DEF l
<1>6. l # Unset
  BY <1>1, <1>3, <1>4
<1>7. next # Unset => next <= l + Guided.instability + LongestTick
  <2>1. CASE next = 0
    BY <1>1, <1>3, <1>4, <2>1, LossConfig
  <2>2. CASE lost # Unset /\ next <= lost + dt
    BY <1>1, <1>2, <1>3, <1>4, <1>5, <2>2, LossConfig DEF Losing
  <2> QED
    BY <1>2, <2>1, <2>2
<1> QED
  BY <1>5, <1>6, <1>7 DEF Losing, l

\* A test that steers has been past the time of the deployment; one that does not
\* yet has at most a candidate from before the release reached the loop's clock.
Deployed ==
  stage = "released" /\ ~ctl.fault =>
    /\ since >= -Guided.navConfirm
    /\ ctl.started => since >= Guided.deployment /\ canopy /\ stable
    /\ ctl.candidate # Unset /\ since < Guided.deployment =>
         since < 0 /\ ctl.candidate <= since + Guided.navConfirm

LossInv ==
  /\ since \in Int /\ seen.lost \in {Unset} \cup Nat
  /\ stage = "armed" => ~ctl.started
  /\ stage # "released" \/ ~ctl.started => seen.lost = Unset
  /\ Deployed
  /\ stage = "released" /\ ctl.started /\ ~ctl.fault =>
       Losing(ctl.loss, ctl.spinning, seen.lost)
  /\ out.status = "GPS_COURSE_HOLD" =>
       /\ stage = "released" /\ ctl.started /\ ~ctl.fault
       /\ ctl.loss # Unset /\ ctl.loss <= Guided.holdTime

LEMMA SteppedLoses ==
  ASSUME LossAssumption, NEW c, Sound(c), StagesFit', fix' \in Positions, since' \in Int,
         NEW s \in Flight, NEW dt \in Ticks, NEW h, h.lost \in {Unset} \cup Nat,
         Stepped(c, s, dt, h),
         stage' = "armed" => ~c.started,
         stage' = "released" /\ ~c.started => h.lost = Unset,
         stage' = "released" /\ ~c.fault => since' >= -Guided.navConfirm,
         stage' = "released" /\ ~c.fault /\ c.started =>
           /\ canopy' /\ stable' /\ since' >= Guided.deployment
           /\ Losing(c.loss, c.spinning, h.lost),
         stage' = "released" /\ ~c.fault /\ canopy' /\ stable' /\ c.candidate # Unset
             /\ since' < Guided.deployment =>
           c.candidate + dt <= since' + Guided.navConfirm
  PROVE  LossInv'
<1> DEFINE o == Older(c, dt)
           both == canopy' /\ stable'
           r == GuidedStep(o, stage', both, since', s, fix', dt)
           lost == Run(h.lost, ~Accepts(c, s, fix') /\ r.ctl.started /\ stage' = "released",
                       dt, LossBound)
<1>1. /\ dt \in Nat /\ both \in BOOLEAN /\ fix' \in Int /\ dt <= LongestTick
      /\ stage' \in {"idle", "armed", "released", "landed"}
  BY LossConfig, ConfigFacts DEF StagesFit
<1>2. ctl' = r.ctl /\ out' = r.out /\ seen'.lost = lost
  BY DEF Stepped, Saw
<1>3. /\ Sound(o) /\ o.started = c.started /\ o.fault = c.fault
      /\ o.candidate = Later(c.candidate, dt) /\ o.loss = Later(c.loss, dt)
      /\ o.spinning = Later(c.spinning, dt) /\ Accepts(o, s, fix') = Accepts(c, s, fix')
  BY <1>1, OlderSound, OlderLeaves
<1> HIDE DEF o, both
<1>4. /\ stage' # "released" =>
           r.ctl.started = o.started /\ r.out.status # "GPS_COURSE_HOLD"
      /\ stage' = "released" /\ r.ctl.fault => r.out.status # "GPS_COURSE_HOLD"
      /\ stage' = "released" /\ ~r.ctl.fault =>
           ~o.fault /\ GoesOn(o, r, both, since', s, fix')
  BY <1>1, <1>3, StepLeaves
<1> HIDE DEF r
<1>5. /\ lost \in {Unset} \cup Nat /\ LostFor(h.lost, dt, lost)
      /\ (stage' # "released" \/ ~r.ctl.started \/ Accepts(c, s, fix') => lost = Unset)
  <2>1. LossBound \in Nat /\ h.lost \in {Unset} \cup Nat
    BY LossConfig
  <2> QED
    BY <1>1, <2>1 DEF Run, LostFor, Smaller, Unset
<1> HIDE DEF lost
<1>6. CASE stage' # "released"
  <2>1. Deployed'
    BY <1>6 DEF Deployed
  <2> QED
    BY <1>2, <1>3, <1>4, <1>5, <1>6, <2>1 DEF LossInv
<1>7. CASE stage' = "released" /\ r.ctl.fault
  <2>1. Deployed'
    BY <1>2, <1>7 DEF Deployed
  <2> QED
    BY <1>2, <1>4, <1>5, <1>7, <2>1 DEF LossInv
<1>8. CASE stage' = "released" /\ ~r.ctl.fault
  <2>1. /\ ~c.fault /\ since' >= -Guided.navConfirm
        /\ c.started => /\ both /\ since' >= Guided.deployment
                        /\ Losing(c.loss, c.spinning, h.lost)
    BY <1>3, <1>4, <1>8 DEF both
  <2>2. /\ Guided.deployment \in Nat /\ Guided.navConfirm \in Nat /\ AgeCap \in Nat
        /\ Unset = -1 /\ c.candidate \in Timer /\ c.loss \in Timer /\ c.spinning \in Timer
    BY LossConfig DEF Sound, GuidedDropController, Unset
  <2>3. since' >= Guided.deployment => ~Deploying(since')
    BY <2>2 DEF Deploying
  <2>4. ~Deploying(since') /\ since' < Guided.deployment => since' < 0
    BY <2>2 DEF Deploying
  <2>5. both /\ c.candidate # Unset /\ since' < Guided.deployment =>
          c.candidate + dt <= since' + Guided.navConfirm
    BY <1>8, <2>1 DEF both
  <2>6. /\ o.candidate # Unset <=> c.candidate # Unset
        /\ c.candidate # Unset => o.candidate \in Nat /\ o.candidate <= c.candidate + dt
    BY <1>1, <1>3, <2>2 DEF Later, Timer, Age
  <2>7. Started(o.candidate) = IF c.candidate = Unset THEN 0 ELSE o.candidate
    BY <1>3, <2>6 DEF Started, Later
  <2>8. GoesOn(o, r, both, since', s, fix')
    BY <1>4, <1>8
  <2>9. CASE /\ r.ctl.candidate = Unset /\ (r.ctl.started <=> o.started)
             /\ Deploying(since') \/ ~both \/ ~o.started
             /\ r.out.status # "GPS_COURSE_HOLD"
    <3>1. ~r.ctl.started
      BY <1>3, <2>1, <2>3, <2>9
    <3>2. Deployed'
      BY <1>2, <2>1, <2>9, <3>1 DEF Deployed
    <3> QED
      BY <1>2, <1>5, <1>8, <2>9, <3>1, <3>2 DEF LossInv
  <2>10. CASE /\ ~Deploying(since') /\ both /\ o.started /\ r.ctl.started
              /\ r.ctl.candidate = o.candidate /\ r.ctl.loss = o.loss
              /\ r.ctl.spinning = Started(o.spinning) /\ r.ctl.spinning < Guided.instability
              /\ r.out.status # "GPS_COURSE_HOLD"
    <3>1. since' >= Guided.deployment /\ Losing(c.loss, c.spinning, h.lost)
      BY <1>3, <2>1, <2>10
    <3>2. Losing(r.ctl.loss, r.ctl.spinning, lost)
      BY <1>3, <1>5, <2>2, <2>10, <3>1, SpinLoses
    <3>3. Deployed'
      BY <1>2, <2>1, <2>2, <2>10, <3>1 DEF Deployed, both
    <3> QED
      BY <1>2, <1>5, <1>8, <2>10, <3>2, <3>3 DEF LossInv
  <2>11. CASE /\ ~Deploying(since') /\ both /\ ~Accepts(o, s, fix') /\ r.ctl.candidate = Unset
              /\ o.started /\ r.ctl.started
              /\ r.ctl.loss = Started(o.loss) /\ r.ctl.spinning = Unset
              /\ \/ r.ctl.loss < Guided.navLoss /\ r.out.status # "GPS_COURSE_HOLD"
                 \/ Guided.hold /\ r.ctl.loss <= Guided.holdTime
    <3>1. since' >= Guided.deployment /\ Losing(c.loss, c.spinning, h.lost)
      BY <1>3, <2>1, <2>11
    <3>2. r.ctl.loss \in Int /\ r.ctl.loss # Unset
      BY <1>1, <1>3, <2>2, <2>11 DEF Started, Later, Timer, Age
    <3>3. r.ctl.loss < Guided.navLoss
      BY <2>11, <3>2, LossConfig DEF LossAssumption
    <3>4. Losing(r.ctl.loss, Unset, lost)
      BY <1>3, <1>5, <2>2, <2>11, <3>1, <3>3, LossLoses
    <3>5. Deployed'
      BY <1>2, <2>1, <2>2, <2>11, <3>1 DEF Deployed, both
    <3> QED
      BY <1>2, <1>5, <1>8, <2>11, <3>2, <3>4, <3>5 DEF LossInv
  <2>12. CASE /\ ~Deploying(since') /\ both /\ Accepts(o, s, fix')
              /\ r.ctl.loss = Unset /\ r.ctl.spinning = Unset
              /\ r.ctl.candidate = Started(o.candidate)
              /\ \/ r.ctl.started = o.started
                 \/ r.ctl.started /\ o.candidate # Unset /\ o.candidate >= Guided.navConfirm
              /\ r.out.status # "GPS_COURSE_HOLD"
    <3>1. lost = Unset /\ Losing(r.ctl.loss, r.ctl.spinning, lost)
      BY <1>3, <1>5, <2>12 DEF Losing
    <3>2. since' < Guided.deployment =>
            /\ since' < 0 /\ ~r.ctl.started
            /\ r.ctl.candidate # Unset => r.ctl.candidate <= since' + Guided.navConfirm
      <4> SUFFICES ASSUME since' < Guided.deployment
                   PROVE  /\ since' < 0 /\ ~r.ctl.started
                          /\ r.ctl.candidate <= since' + Guided.navConfirm
        OBVIOUS
      <4>1. since' < 0 /\ ~c.started
        BY <2>1, <2>2, <2>4, <2>12
      <4>2. c.candidate # Unset => o.candidate <= since' + Guided.navConfirm
        BY <1>1, <2>2, <2>5, <2>6, <2>12 DEF Timer, Age
      <4>3. ~r.ctl.started
        <5>1. c.candidate # Unset => o.candidate < Guided.navConfirm
          BY <2>2, <2>6, <4>1, <4>2
        <5>2. ~(o.candidate # Unset /\ o.candidate >= Guided.navConfirm)
          BY <2>2, <2>6, <5>1
        <5> QED
          BY <1>3, <2>12, <4>1, <5>2
      <4>4. 0 <= since' + Guided.navConfirm
        BY <2>1, <2>2
      <4>5. r.ctl.candidate <= since' + Guided.navConfirm
        BY <2>7, <2>12, <4>2, <4>4
      <4> QED
        BY <4>1, <4>3, <4>5
    <3>3. Deployed'
      BY <1>2, <2>1, <2>2, <2>12, <3>2 DEF Deployed, both
    <3> QED
      BY <1>2, <1>5, <1>8, <2>12, <3>1, <3>3 DEF LossInv
  <2> QED
    BY <2>8, <2>9, <2>10, <2>11, <2>12 DEF GoesOn
<1> QED
  BY <1>6, <1>7, <1>8

LEMMA LossStarts ==
  ASSUME GuidedInit
  PROVE  LossInv
<1>1. /\ stage = "idle" /\ since = 0 /\ ctl = Fresh /\ seen = Unseen
      /\ out = Neutral(Fresh, "WAITING_RELEASE").out
  BY DEF GuidedInit, StagesInit
<1>2. seen.lost = Unset /\ out.status = "WAITING_RELEASE"
  BY <1>1 DEF Unseen, Neutral
<1> QED
  BY <1>1, <1>2 DEF LossInv, Deployed

LEMMA LossKeeps ==
  ASSUME LossAssumption, Inv, LossInv, [GuidedNext]_guidedVars
  PROVE  LossInv'
<1>1. ASSUME NEW s \in Flights, NEW dt \in Ticks, ArmGuided(s, dt)
      PROVE  LossInv'
  <2>1. /\ StagesFit' /\ stage' = "armed" /\ fix' \in Positions /\ since' = 0
        /\ Stepped(Fresh, s, dt, Unseen)
    BY <1>1 DEF ArmGuided, ArmTest, StagesFit, Locate
  <2>2. Sound(Fresh) /\ ~Fresh.started
    BY FreshSound
  <2>3. Unseen.lost \in {Unset} \cup Nat
    BY DEF Unseen
  <2>4. s \in Flight
    BY ConfigFacts
  <2> HIDE DEF Fresh, Unseen
  <2> QED
    BY <2>1, <2>2, <2>3, <2>4, SteppedLoses
<1>2. ASSUME NEW s \in Flights, NEW dt \in Ticks, Fly(s, dt)
      PROVE  LossInv'
  <2>1. fix' \in Positions /\ Stepped(ctl, s, dt, seen) /\ s \in Flight /\ Sound(ctl)
        /\ seen.lost \in {Unset} \cup Nat /\ since \in Int /\ dt \in Nat /\ dt <= LongestTick
    BY <1>2, ConfigFacts, LossConfig DEF Fly, Locate, Inv, LossInv
  <2>2. Guided.deployment \in Nat /\ Guided.navConfirm \in Nat /\ Unset = -1
        /\ ctl.candidate \in Timer /\ ctl.loss \in Timer /\ ctl.spinning \in Timer
    BY <2>1, LossConfig DEF Sound, GuidedDropController, Unset
  <2>3. CASE ReleaseTest /\ \E skew \in Skews : since' = -skew
    <3>1. /\ stage = "armed" /\ stage' = "released" /\ canopy' = FALSE /\ stable' = FALSE
      BY <2>3 DEF ReleaseTest
    <3>2. since' \in Int /\ since' >= -Guided.navConfirm
      <4>1. PICK skew \in Skews : since' = -skew
        BY <2>3
      <4>2. skew \in Nat /\ skew <= Guided.navConfirm
        BY GuidedAssumption DEF LossAssumption
      <4> QED
        BY <2>2, <4>1, <4>2
    <3>3. StagesFit' /\ ~ctl.started /\ seen.lost = Unset
      BY <3>1 DEF StagesFit, LossInv
    <3> QED
      BY <2>1, <3>1, <3>2, <3>3, SteppedLoses
  <2>4. CASE Observe \/ UNCHANGED stageVars
    <3>1. since' = IF stage = "released" THEN Smaller(since + dt, Guided.deployment) ELSE since
      BY <1>2, <2>4 DEF Fly, ReleaseTest, Observe, stageVars
    <3>2. /\ StagesFit' /\ (stage' = "released" => stage = "released")
          /\ (stage' = "armed" => stage = "armed")
          /\ (stage' = "released" /\ canopy => canopy')
          /\ (stage' = "released" /\ stable => stable')
      BY <2>4 DEF Observe, stageVars, Inv, StagesFit
    <3>3. since' \in Int
      BY <2>1, <2>2, <3>1 DEF Smaller
    <3>4. stage' = "armed" => ~ctl.started
      BY <3>2 DEF LossInv
    <3>5. stage' = "released" /\ ~ctl.started => seen.lost = Unset
      BY DEF LossInv
    <3>6. stage' = "released" /\ ~ctl.fault => since' >= -Guided.navConfirm
      BY <2>1, <2>2, <3>1, <3>2 DEF LossInv, Deployed, Smaller
    <3>7. stage' = "released" /\ ~ctl.fault /\ ctl.started =>
            /\ canopy' /\ stable' /\ since' >= Guided.deployment
            /\ Losing(ctl.loss, ctl.spinning, seen.lost)
      BY <2>1, <2>2, <3>1, <3>2 DEF LossInv, Deployed, Smaller
    <3>8. stage' = "released" /\ ~ctl.fault /\ ctl.candidate # Unset
              /\ since' < Guided.deployment =>
            ctl.candidate + dt <= since' + Guided.navConfirm
      BY <2>1, <2>2, <3>1, <3>2 DEF LossInv, Deployed, Smaller, Timer, Age
    <3> QED
      BY <2>1, <3>2, <3>3, <3>4, <3>5, <3>6, <3>7, <3>8, SteppedLoses
  <2> QED
    BY <1>2, <2>3, <2>4 DEF Fly
<1>3. CASE EndGuided
  <2>1. /\ stage' = "idle" /\ since' = 0 /\ ctl' = Fresh /\ seen' = Unseen
        /\ out' = Neutral(Fresh, "WAITING_RELEASE").out
    BY <1>3 DEF EndGuided, EndTest
  <2>2. seen'.lost = Unset /\ out'.status = "WAITING_RELEASE"
    BY <2>1 DEF Unseen, Neutral
  <2> QED
    BY <2>1, <2>2 DEF LossInv, Deployed
<1>4. CASE UNCHANGED guidedVars
  BY <1>4 DEF guidedVars, LossInv, Deployed
<1> QED
  BY <1>1, <1>2, <1>3, <1>4 DEF GuidedNext, Rest

-----------------------------------------------------------------------------
(* The record of the position.                                              *)

\* While a position is in doubt, as many plausible points as are counted were
\* seen; there is one accepted position at most.
Doubting(c, plausible) ==
  /\ plausible \in Nat
  /\ \A p, q \in c.accepted : p = q
  /\ c.suspect /\ ~c.fault => plausible >= c.recovered

JumpInv == Doubting(ctl, seen.plausible) /\ guidedTests \in Nat

\* What a step may do to the accepted position and to the doubt about it.
JumpStep(c) ==
  /\ \A p \in c.accepted, q \in ctl'.accepted : Magnitude(q - p) <= Guided.maxJump
  /\ c.suspect /\ ~ctl'.suspect => seen'.plausible >= Guided.recovery

LEMMA SteppedDoubts ==
  ASSUME NEW c, Sound(c), StagesFit', fix' \in Positions, NEW s \in Flight,
         NEW dt \in Nat, NEW h, Doubting(c, h.plausible), Stepped(c, s, dt, h)
  PROVE  Doubting(ctl', seen'.plausible) /\ JumpStep(c)
<1> DEFINE o == Older(c, dt)
           both == canopy' /\ stable'
           r == GuidedStep(o, stage', both, since', s, fix', dt)
           a == Accept(o, s, fix')
           navigated == r.out.status \notin {"LANDED", "FAULT_NEUTRAL", "WAITING_RELEASE",
             "DEPLOYMENT_NEUTRAL", "WAITING_STABLE_DESCENT", "WAITING_ALTITUDE"}
           doubted == c.suspect /\ s.gps /\ navigated /\ s.rate # "spin"
           plausible == IF doubted /\ ~Jumped(c, fix')
                        THEN Smaller(h.plausible + 1, Guided.recovery) ELSE
                        IF doubted \/ ~c.suspect THEN 0 ELSE h.plausible
<1>1. both \in BOOLEAN /\ fix' \in Int
  BY ConfigFacts DEF StagesFit
<1>2. ctl' = r.ctl /\ out' = r.out /\ seen'.plausible = plausible
  BY DEF Stepped, Saw
<1>3. /\ Sound(o) /\ o.fault = c.fault
      /\ o.accepted = c.accepted /\ o.suspect = c.suspect /\ o.recovered = c.recovered
      /\ Jumped(o, fix') = Jumped(c, fix') /\ Recovering(o) = Recovering(c)
      /\ Accepts(o, s, fix') = Accepts(c, s, fix')
  BY OlderSound, OlderLeaves
<1> HIDE DEF o, both
<1>4. Position(o, r, s, fix') /\ (~r.ctl.fault => ~o.fault)
  BY <1>1, <1>3, StepLeaves
<1>5. r.out.status \in GuidedStatus
  BY <1>1, <1>3, StepFits DEF Fits, Result, GuidedOutput
<1>6. navigated <=> Navigating(r.out.status)
  BY <1>5 DEF Navigating, GuidedStatus
<1>7. /\ Accepts(c, s, fix') =>
           ~a.suspect /\ a.accepted = {fix'} /\ ~Jumped(c, fix') /\ ~Recovering(c) /\ s.gps
      /\ ~Accepts(c, s, fix') => a.accepted = c.accepted
      /\ ~s.gps => a = o
      /\ s.gps /\ Jumped(c, fix') => a.suspect /\ a.recovered = 0
      /\ ~Accepts(c, s, fix') /\ s.gps /\ ~Jumped(c, fix') =>
           Recovering(c) /\ a.suspect = c.suspect /\ a.recovered = c.recovered + 1
  BY <1>1, <1>3, AcceptLeaves
<1> HIDE DEF r, a, navigated
<1>8. /\ c.accepted \in SUBSET Int /\ c.recovered \in Nat /\ h.plausible \in Nat
      /\ Guided.recovery \in Nat /\ Guided.maxJump \in Nat
      /\ \A p, q \in c.accepted : p = q
      /\ c.suspect /\ ~c.fault => h.plausible >= c.recovered
  BY GuidedAssumption DEF Sound, GuidedDropController, Doubting, GuidedConfig
<1>9. plausible \in Nat
  BY <1>8 DEF Smaller
<1>10. \A p \in c.accepted, q \in c.accepted : Magnitude(q - p) <= Guided.maxJump
  <2> SUFFICES ASSUME NEW p \in c.accepted, NEW q \in c.accepted
               PROVE  Magnitude(q - p) <= Guided.maxJump
    OBVIOUS
  <2>1. p = q /\ p \in Int
    BY <1>8
  <2>2. q - p = 0
    BY <2>1
  <2> QED
    BY <1>8, <2>2 DEF Magnitude
<1>11. CASE /\ r.ctl.accepted = o.accepted /\ r.ctl.suspect = o.suspect
            /\ r.ctl.fault \/ r.ctl.recovered = o.recovered
            /\ ~Navigating(r.out.status) \/ s.rate = "spin"
  <2>1. plausible = IF c.suspect THEN h.plausible ELSE 0
    BY <1>6, <1>11
  <2> HIDE DEF plausible
  <2>2. Doubting(r.ctl, plausible)
    BY <1>3, <1>4, <1>8, <1>9, <1>11, <2>1 DEF Doubting
  <2>3. JumpStep(c)
    BY <1>2, <1>3, <1>10, <1>11 DEF JumpStep
  <2> QED
    BY <1>2, <2>2, <2>3
<1>12. CASE /\ ~o.fault /\ s.rate # "spin"
            /\ r.ctl.accepted = a.accepted /\ r.ctl.suspect = a.suspect
            /\ \/ r.ctl.fault /\ ~Accepts(o, s, fix')
               \/ Navigating(r.out.status) /\ r.ctl.recovered = a.recovered
  <2>1. CASE Accepts(c, s, fix')
    <3>1. Navigating(r.out.status) /\ r.ctl.accepted = {fix'} /\ ~r.ctl.suspect
      BY <1>3, <1>7, <1>12, <2>1
    <3>2. c.suspect => plausible = Guided.recovery
      <4>1. c.suspect => plausible = Smaller(h.plausible + 1, Guided.recovery)
        BY <1>6, <1>7, <1>12, <2>1, <3>1
      <4>2. c.suspect => h.plausible + 1 >= Guided.recovery
        BY <1>3, <1>7, <1>8, <1>12, <2>1 DEF Recovering
      <4> HIDE DEF plausible
      <4> QED
        BY <1>8, <4>1, <4>2 DEF Smaller
    <3> HIDE DEF plausible
    <3>3. \A p \in c.accepted : Magnitude(fix' - p) <= Guided.maxJump
      <4> TAKE p \in c.accepted
      <4>1. ~(Magnitude(fix' - p) > Guided.maxJump)
        BY <1>7, <2>1 DEF Jumped
      <4>2. Magnitude(fix' - p) \in Int
        BY <1>1, <1>8 DEF Magnitude
      <4> QED
        BY <1>8, <4>1, <4>2
    <3>4. Doubting(r.ctl, plausible)
      BY <1>9, <3>1 DEF Doubting
    <3>5. JumpStep(c)
      BY <1>2, <1>8, <3>1, <3>2, <3>3 DEF JumpStep
    <3> QED
      BY <1>2, <3>4, <3>5
  <2>2. CASE ~s.gps
    <3>1. a = o /\ ~Accepts(c, s, fix') /\ ~Accepts(o, s, fix')
      BY <1>3, <1>7, <2>2 DEF Accepts
    <3>2. plausible = IF c.suspect THEN h.plausible ELSE 0
      BY <2>2
    <3> HIDE DEF plausible
    <3>3. Doubting(r.ctl, plausible)
      BY <1>3, <1>8, <1>9, <1>12, <3>1, <3>2 DEF Doubting
    <3>4. JumpStep(c)
      BY <1>2, <1>3, <1>10, <1>12, <3>1 DEF JumpStep
    <3> QED
      BY <1>2, <3>3, <3>4
  <2>3. CASE s.gps /\ Jumped(c, fix')
    <3>1. ~Accepts(c, s, fix') /\ a.accepted = c.accepted /\ a.suspect /\ a.recovered = 0
      BY <1>7, <2>3
    <3> HIDE DEF plausible
    <3>2. Doubting(r.ctl, plausible)
      BY <1>3, <1>8, <1>9, <1>12, <3>1 DEF Doubting
    <3>3. JumpStep(c)
      BY <1>2, <1>10, <1>12, <3>1 DEF JumpStep
    <3> QED
      BY <1>2, <3>2, <3>3
  <2>4. CASE ~Accepts(c, s, fix') /\ s.gps /\ ~Jumped(c, fix')
    <3>1. /\ Recovering(c) /\ a.suspect = c.suspect /\ a.recovered = c.recovered + 1
          /\ a.accepted = c.accepted
      BY <1>7, <2>4
    <3>2. c.suspect /\ c.recovered + 1 < Guided.recovery
      BY <3>1 DEF Recovering
    <3>3. ~r.ctl.fault => plausible = Smaller(h.plausible + 1, Guided.recovery)
      BY <1>6, <1>12, <2>4, <3>2
    <3> HIDE DEF plausible
    <3>4. ~r.ctl.fault => r.ctl.recovered = c.recovered + 1 /\ plausible >= c.recovered + 1
      <4>1. ~r.ctl.fault => r.ctl.recovered = c.recovered + 1
        BY <1>12, <3>1
      <4>2. ~r.ctl.fault => plausible >= c.recovered + 1
        BY <1>3, <1>8, <1>12, <3>2, <3>3 DEF Smaller
      <4> QED
        BY <4>1, <4>2
    <3>5. Doubting(r.ctl, plausible)
      BY <1>8, <1>9, <1>12, <3>1, <3>4 DEF Doubting
    <3>6. JumpStep(c)
      BY <1>2, <1>10, <1>12, <3>1, <3>2 DEF JumpStep
    <3> QED
      BY <1>2, <3>5, <3>6
  <2> QED
    BY <2>1, <2>2, <2>3, <2>4
<1> QED
  BY <1>4, <1>11, <1>12 DEF Position, a

LEMMA FreshDoubts == Doubting(Fresh, Unseen.plausible)
  BY DEF Fresh, Unseen, Doubting

LEMMA DoubtStarts ==
  ASSUME GuidedInit
  PROVE  JumpInv
BY FreshDoubts DEF GuidedInit, JumpInv

LEMMA DoubtKeeps ==
  ASSUME Inv, JumpInv, [GuidedNext]_guidedVars
  PROVE  /\ JumpInv'
         /\ guidedTests' = guidedTests /\ ~UNCHANGED guidedVars =>
              /\ \A p \in ctl.accepted, q \in ctl'.accepted : Magnitude(q - p) <= Guided.maxJump
              /\ stage' # "idle" /\ ctl.suspect /\ ~ctl'.suspect =>
                   seen'.plausible >= Guided.recovery
<1>1. ASSUME NEW s \in Flights, NEW dt \in Ticks, ArmGuided(s, dt)
      PROVE  JumpInv' /\ guidedTests' # guidedTests
  <2>1. /\ StagesFit' /\ fix' \in Positions /\ Stepped(Fresh, s, dt, Unseen)
        /\ guidedTests' = guidedTests + 1 /\ guidedTests < MaxGuidedTests
    BY <1>1 DEF ArmGuided, ArmTest, StagesFit, Locate
  <2>2. Sound(Fresh) /\ s \in Flight /\ dt \in Nat
    BY FreshSound, ConfigFacts
  <2>3. Doubting(ctl', seen'.plausible)
    BY <2>1, <2>2, FreshDoubts, SteppedDoubts
  <2>4. guidedTests \in Nat
    BY DEF JumpInv
  <2>5. guidedTests' \in Nat /\ guidedTests' # guidedTests
    BY <2>1, <2>4
  <2> QED
    BY <2>3, <2>5 DEF JumpInv
<1>2. ASSUME NEW s \in Flights, NEW dt \in Ticks, Fly(s, dt)
      PROVE  JumpInv' /\ JumpStep(ctl)
  <2>1. StagesFit' /\ fix' \in Positions /\ Stepped(ctl, s, dt, seen)
    BY <1>2 DEF Inv, Fly, Locate, ReleaseTest, Observe, stageVars, StagesFit
  <2>2. Sound(ctl) /\ s \in Flight /\ dt \in Nat
    BY ConfigFacts DEF Inv
  <2>3. Doubting(ctl, seen.plausible) /\ guidedTests' = guidedTests /\ guidedTests \in Nat
    BY <1>2 DEF JumpInv, Fly
  <2>4. Doubting(ctl', seen'.plausible) /\ JumpStep(ctl)
    BY <2>1, <2>2, <2>3, SteppedDoubts
  <2> QED
    BY <2>3, <2>4 DEF JumpInv
<1>3. CASE EndGuided
  <2>1. stage' = "idle" /\ ctl' = Fresh /\ seen' = Unseen /\ guidedTests' = guidedTests
    BY <1>3 DEF EndGuided, EndTest
  <2>2. JumpInv'
    BY <2>1, FreshDoubts DEF JumpInv
  <2>3. ctl'.accepted = {}
    BY <2>1 DEF Fresh
  <2> QED
    BY <2>1, <2>2, <2>3
<1>4. CASE UNCHANGED guidedVars
  BY <1>4 DEF guidedVars, JumpInv, Doubting
<1> QED
  BY <1>1, <1>2, <1>3, <1>4 DEF GuidedNext, Rest, JumpStep

-----------------------------------------------------------------------------
(* Left and right.                                                          *)

\* The limiter turns only where the guard looks.
Guarded(law) == law.value # 0 => law.sign = Sign(law.value)

\* What a step does to the turns of the law, and the command it gives.
TurnStep(l, n, command) ==
  \/ n = l /\ command = 0
  \/ /\ n.sign = l.sign /\ n.turned = l.turned /\ command = n.value
     /\ n.value # 0 => Sign(n.value) = Sign(l.value) /\ l.value # 0
  \/ n.value = 0 /\ n.sign = 0 /\ n.turned = l.turned /\ command = 0
  \/ /\ n.value # 0 /\ Sign(n.value) = l.sign /\ n.sign = l.sign /\ n.turned = l.turned
     /\ command = n.value
  \/ /\ n.value # 0 /\ Sign(n.value) # l.sign /\ (l.sign = 0 \/ ~(l.turned < Guided.law.guard))
     /\ n.sign = Sign(n.value) /\ n.turned = 0 /\ command = n.value

\* No faster than the slew rate.
Near(value, next, dt) ==
  next - value \in -(Guided.law.slew * dt) .. Guided.law.slew * dt

\* What a step does to the law, and what it commands: as long as it is active, the
\* value of the limiter.
LawStep(l, n, o, dt) ==
  /\ TurnStep(l, n, o.command)
  /\ Near(l.value, n.value, dt)
  /\ o.active => o.command = n.value

\* Slewing to zero never crosses it.
LEMMA SlewedToZero ==
  ASSUME NEW law, Bound(law), NEW step \in Nat
  PROVE  LET n == Slewed(law, 0, step) IN
         /\ n.sign = law.sign /\ n.turned = law.turned /\ n.value \in Int
         /\ n.value # 0 => Sign(n.value) = Sign(law.value) /\ law.value # 0
         /\ Magnitude(law.value) <= step => n.value = 0
<1> DEFINE v == law.value + Clamp(0 - law.value, step)
<1>1. law.value \in Int
  BY DEF Bound, SteeringLaw
<1>2. Slewed(law, 0, step) = [law EXCEPT !.value = v]
  BY DEF Slewed
<1>3. v \in Int /\ (v # 0 => Sign(v) = Sign(law.value) /\ law.value # 0)
      /\ (Magnitude(law.value) <= step => v = 0)
  BY <1>1 DEF Clamp, Sign, Magnitude
<1> HIDE DEF v
<1> QED
  BY <1>2, <1>3 DEF Bound, SteeringLaw

LEMMA ComputedTurns ==
  ASSUME NEW law, Bound(law), Guarded(law), NEW g \in SteeringConfig,
         g.limit <= Guided.law.limit, g.finalLimit <= Guided.law.limit,
         g.guard = Guided.law.guard, g.slew = Guided.law.slew, NEW in \in SteeringInput, in.gps, NEW dt \in Nat
  PROVE  LET r == ComputeGuidance(law, g, in, dt) IN LawStep(law, r.law, r, dt)
<1> DEFINE step == g.slew * dt
           demand == Demand(g, in)
           wanted == Slewed(law, demand, step)
           n == Turned(law, g, in, dt)
           r == ComputeGuidance(law, g, in, dt)
<1>1. step \in Nat
  BY DEF SteeringConfig
<1>2. demand \in Limits /\ demand \in Int
  BY DemandIsBound DEF Limits
<1>3. n = IF Reverses(wanted, g.guard) THEN Slewed(wanted, 0, step) ELSE Allowed(wanted)
  BY DEF Turned
<1> HIDE DEF step, demand
<1>4. Bound(wanted) /\ wanted.sign = law.sign /\ wanted.turned = law.turned
  BY <1>1, <1>2, SlewedIsBound
<1>5. wanted.value = law.value + Clamp(demand - law.value, step) /\ law.value \in Int
      /\ wanted.value \in Int /\ law.sign \in Int
  BY <1>4 DEF Slewed, Bound, SteeringLaw
<1> HIDE DEF wanted
<1>6. Reverses(wanted, g.guard) => Magnitude(wanted.value) <= step /\ Magnitude(law.value) <= step
  <2> SUFFICES ASSUME Reverses(wanted, g.guard)
               PROVE  Magnitude(wanted.value) <= step /\ Magnitude(law.value) <= step
    OBVIOUS
  <2>1. wanted.value # 0 /\ law.sign # 0 /\ Sign(wanted.value) # law.sign
    BY <1>4 DEF Reverses
  <2>2. law.value = 0 \/ Sign(law.value) # Sign(wanted.value)
    BY <2>1 DEF Guarded
  <2> QED
    BY <1>1, <1>2, <1>5, <2>1, <2>2 DEF Clamp, Sign, Magnitude
<1> HIDE DEF n, r
<1>9. step = Guided.law.slew * dt /\ wanted.value - law.value \in -step .. step
  BY <1>1, <1>2, <1>5 DEF step, Clamp
<1>7. CASE Idles(g, in)
  <2>1. r.law = law /\ r.command = 0 /\ ~r.active
    BY <1>7 DEF ComputeGuidance, r
  <2>2. law.value - law.value \in -step .. step
    BY <1>1, <1>5
  <2>3. Near(law.value, r.law.value, dt)
    BY <1>9, <2>1, <2>2 DEF Near
  <2> QED
    BY <2>1, <2>3 DEF r, LawStep, TurnStep
<1>8. CASE ~Idles(g, in)
  <2>1. r.law = n /\ r.command = n.value
    BY <1>8 DEF ComputeGuidance, r, n
  <2>4. n.value - law.value \in -step .. step
    <3>1. CASE Reverses(wanted, g.guard)
      <4>1. n.value = 0
        BY <1>1, <1>3, <1>4, <1>6, <3>1, SlewedToZero
      <4> QED
        BY <1>1, <1>5, <1>6, <3>1, <4>1 DEF Magnitude
    <3>2. CASE ~Reverses(wanted, g.guard)
      <4>1. n.value = wanted.value
        BY <1>3, <1>4, <3>2, AllowedIsBound
      <4> QED
        BY <1>9, <4>1
    <3> QED
      BY <3>1, <3>2
  <2>5. Near(law.value, r.law.value, dt)
    BY <1>9, <2>1, <2>4 DEF Near
  <2>2. CASE Reverses(wanted, g.guard)
    <3>1. n = Slewed(wanted, 0, step)
      BY <1>3, <2>2
    <3>2. n.value = 0 /\ n.sign = wanted.sign /\ n.turned = wanted.turned
      BY <1>1, <1>4, <1>6, <2>2, <3>1, SlewedToZero
    <3> QED
      BY <1>4, <2>1, <3>2, <2>5 DEF r, LawStep, TurnStep
  <2>3. CASE ~Reverses(wanted, g.guard)
    <3>1. n = Allowed(wanted)
      BY <1>3, <2>3
    <3>2. CASE wanted.value = 0
      <4>1. n.value = 0 /\ n.sign = 0 /\ n.turned = wanted.turned
        BY <1>4, <3>1, <3>2 DEF Allowed, Bound, SteeringLaw
      <4> QED
        BY <1>4, <2>1, <4>1, <2>5 DEF r, LawStep, TurnStep
    <3>3. CASE wanted.value # 0 /\ Sign(wanted.value) = law.sign
      <4>1. n = wanted
        BY <1>4, <3>1, <3>3 DEF Allowed
      <4> QED
        BY <1>4, <2>1, <3>3, <4>1, <2>5 DEF r, LawStep, TurnStep
    <3>4. CASE wanted.value # 0 /\ Sign(wanted.value) # law.sign
      <4>1. n.value = wanted.value /\ n.sign = Sign(wanted.value) /\ n.turned = 0
        BY <1>4, <3>1, <3>4 DEF Allowed, Bound, SteeringLaw
      <4>2. law.sign = 0 \/ ~(law.turned < Guided.law.guard)
        BY <1>4, <2>3, <3>4 DEF Reverses
      <4> QED
        BY <2>1, <3>4, <4>1, <4>2, <2>5 DEF r, LawStep, TurnStep
    <3> QED
      BY <3>2, <3>3, <3>4
  <2> QED
    BY <2>2, <2>3
<1> QED
  BY <1>7, <1>8

LEMMA RunGuidanceTurns ==
  ASSUME NEW c, Sound(c), Guarded(c.law), NEW s \in Flight, NEW distance \in Nat,
         NEW slow \in BOOLEAN, NEW final \in BOOLEAN, NEW most \in Nat,
         most <= Guided.law.limit, NEW status, NEW dt \in Nat
  PROVE  LET r == RunGuidance(c, s, distance, slow, final, most, status, dt) IN
         LawStep(c.law, r.ctl.law, r.out, dt)
<1> DEFINE w == Watch(c, s.error)
           g == Trimmed(w, s, most)
           in == [gps |-> TRUE, final |-> final, alt |-> s.alt, distance |-> distance,
                  error |-> s.error, slow |-> slow]
           q == ComputeGuidance(w.law, g, in, dt)
           law == q.law
           d == [w EXCEPT !.law = law, !.started = TRUE]
           r == RunGuidance(c, s, distance, slow, final, most, status, dt)
<1>1. s.error \in Int /\ s.alt \in Int
  BY DEF Flight
<1>2. r.ctl = d /\ r.out.command = q.command /\ r.out.active = q.active
  BY DEF RunGuidance
<1>3. Sound(w) /\ w.law = c.law
  BY <1>1, WatchSame
<1>4. in \in SteeringInput /\ in.gps
  BY <1>1 DEF SteeringInput
<1>5. g \in SteeringConfig /\ g.limit <= Guided.law.limit /\ g.finalLimit <= Guided.law.limit
  BY TrimmedIsBelow
<1>6. g.guard = Guided.law.guard /\ g.slew = Guided.law.slew
  BY ConfigFacts DEF Trimmed, SteeringConfig
<1> HIDE DEF w, g, in
<1>7. LawStep(w.law, q.law, q, dt)
  BY <1>3, <1>4, <1>5, <1>6, ComputedTurns DEF Sound
<1> HIDE DEF law
<1>8. d.law = law
  BY <1>3 DEF Sound, GuidedDropController
<1> HIDE DEF d, q, r
<1> QED
  BY <1>2, <1>3, <1>7, <1>8 DEF r, law, LawStep

LEMMA NeutralTurns ==
  ASSUME NEW c, Sound(c), NEW status, NEW dt \in Nat
  PROVE  /\ LawStep(c.law, Neutral(c, status).ctl.law, Neutral(c, status).out, dt)
         /\ LawStep(c.law, Faulted(c).ctl.law, Faulted(c).out, dt)
         /\ LawStep(c.law, Unwind(c, dt).ctl.law, Unwind(c, dt).out, dt)
<1>1. /\ Neutral(c, status).ctl = c /\ Neutral(c, status).out.command = 0
      /\ ~Neutral(c, status).out.active
  BY DEF Neutral
<1>2. Faulted(c).ctl.law = c.law /\ Faulted(c).out.command = 0 /\ ~Faulted(c).out.active
  BY DEF Faulted, Neutral, Sound, GuidedDropController
<1> DEFINE step == Guided.law.slew * dt
           l == Slewed(c.law, 0, step)
           d == [c EXCEPT !.law = l]
<1>3. Unwind(c, dt).ctl = d /\ Unwind(c, dt).out.command = l.value
  BY DEF Unwind
<1>4. step \in Nat
  BY ConfigFacts
<1>7. Near(c.law.value, c.law.value, dt)
  <2>1. c.law.value \in Int
    BY DEF Sound, Bound, SteeringLaw
  <2> HIDE DEF step
  <2>2. c.law.value - c.law.value \in -step .. step
    BY <1>4, <2>1
  <2> QED
    BY <2>2 DEF Near, step
<1>8. Near(c.law.value, l.value, dt)
  <2>1. c.law.value \in Int
    BY DEF Sound, Bound, SteeringLaw
  <2> HIDE DEF step
  <2>2. l.value = c.law.value + Clamp(0 - c.law.value, step)
    BY DEF Slewed, Sound, Bound, SteeringLaw
  <2>3. l.value - c.law.value \in -step .. step
    BY <1>4, <2>1, <2>2 DEF Clamp
  <2> HIDE DEF l
  <2> QED
    BY <2>3 DEF Near, step
<1> HIDE DEF step
<1>5. /\ l.sign = c.law.sign /\ l.turned = c.law.turned
      /\ l.value # 0 => Sign(l.value) = Sign(c.law.value) /\ c.law.value # 0
  BY <1>4, SlewedToZero DEF Sound
<1> HIDE DEF l
<1>6. d.law = l
  BY DEF Sound, GuidedDropController
<1> HIDE DEF d
<1> QED
  BY <1>1, <1>2, <1>3, <1>5, <1>6, <1>7, <1>8 DEF LawStep, TurnStep

LEMMA UnguidedTurns ==
  ASSUME NEW c, Sound(c), Guarded(c.law), NEW s \in Flight, NEW dt \in Nat
  PROVE  LET r == Unguided(c, s, dt) IN LawStep(c.law, r.ctl.law, r.out, dt)
<1> DEFINE l == Started(c.loss)
           d == [c EXCEPT !.loss = l]
           r == Unguided(c, s, dt)
           most == Smaller(Guided.law.limit, Guided.holdLimit)
           far == Magnitude(CHOOSE p \in d.accepted : TRUE)
<1>1. r = IF Guided.hold /\ d.accepted # {} /\ d.loss <= Guided.holdTime
          THEN RunGuidance(d, s, far, FALSE, FALSE, most, "GPS_COURSE_HOLD", dt)
          ELSE IF d.loss >= Guided.navLoss THEN Faulted(d) ELSE Unwind(d, dt)
  BY DEF Unguided
<1>2. l \in Timer
  BY TimerFacts DEF Sound, GuidedDropController
<1> HIDE DEF l
<1>3. Sound(d)
  BY <1>2, LossSame
<1>4. d.law = c.law /\ d.accepted \in SUBSET Int
  BY <1>3 DEF Sound, GuidedDropController
<1> HIDE DEF d, r
<1>5. CASE Guided.hold /\ d.accepted # {} /\ d.loss <= Guided.holdTime
  <2>1. most \in Nat /\ most <= Guided.law.limit
    BY ConfigFacts DEF Smaller
  <2>2. far \in Nat
    <3>1. (CHOOSE p \in d.accepted : TRUE) \in Int
      BY <1>4, <1>5
    <3> QED
      BY <3>1 DEF Magnitude
  <2> HIDE DEF most, far
  <2>3. r = RunGuidance(d, s, far, FALSE, FALSE, most, "GPS_COURSE_HOLD", dt)
    BY <1>1, <1>5
  <2>4. \A no \in BOOLEAN :
          LET q == RunGuidance(d, s, far, no, no, most, "GPS_COURSE_HOLD", dt) IN
          LawStep(d.law, q.ctl.law, q.out, dt)
    BY <1>3, <1>4, <2>1, <2>2, RunGuidanceTurns
  <2>5. LawStep(d.law, r.ctl.law, r.out, dt)
    BY <2>3, <2>4, Zenon
  <2> QED
    BY <1>4, <2>5 DEF r
<1>6. CASE ~(Guided.hold /\ d.accepted # {} /\ d.loss <= Guided.holdTime)
  <2>1. r = Faulted(d) \/ r = Unwind(d, dt)
    BY <1>1, <1>6
  <2>2. LawStep(d.law, r.ctl.law, r.out, dt)
    BY <1>3, <2>1, NeutralTurns
  <2> QED
    BY <1>4, <2>2 DEF r
<1> QED
  BY <1>5, <1>6

LEMMA NavigateTurns ==
  ASSUME NEW c, Sound(c), Guarded(c.law), NEW s \in Flight, NEW pos \in Int, NEW dt \in Nat
  PROVE  LET r == Navigate(c, s, pos, dt) IN LawStep(c.law, r.ctl.law, r.out, dt)
<1> DEFINE a == Accept(c, s, pos)
           l == [a EXCEPT !.candidate = Unset]
           t == Started(a.candidate)
           e == [a EXCEPT !.loss = Unset]
           w == [a EXCEPT !.loss = Unset, !.candidate = t]
           r == Navigate(c, s, pos, dt)
           status == IF FinalApproach(s, pos) THEN "FINAL_APPROACH" ELSE "GUIDANCE_ACTIVE"
<1>1. Sound(a)
  BY AcceptSame
<1>2. a.law = c.law
  BY DEF Accept, Sound, GuidedDropController
<1>3. r = IF ~Accepts(c, s, pos)
          THEN IF l.started THEN Unguided(l, s, dt) ELSE Neutral(l, Lost(l))
          ELSE IF a.candidate = Unset \/ a.candidate < Guided.navConfirm
               THEN Neutral([a EXCEPT !.loss = Unset, !.candidate = Started(@)],
                            "WAITING_NAVIGATION")
               ELSE Steer(e, s, pos, dt)
  BY DEF Navigate
<1>4. Steer(e, s, pos, dt) =
        RunGuidance(e, s, Magnitude(pos), s.slow, FinalApproach(s, pos), Guided.law.limit,
                    status, dt)
  BY DEF Steer
<1> HIDE DEF a
<1>5. [a EXCEPT !.loss = Unset, !.candidate = Started(@)] = w
  BY <1>1 DEF Sound, GuidedDropController
<1>6. Unset \in Timer /\ t \in Timer
  BY <1>1, TimerFacts DEF Sound, GuidedDropController
<1> HIDE DEF t
<1>7. Sound(l) /\ l.law = c.law /\ Sound(e) /\ e.law = c.law /\ Sound(w) /\ w.law = c.law
  BY <1>1, <1>2, <1>6 DEF Sound, GuidedDropController
<1>8. /\ Magnitude(pos) \in Nat /\ s.slow \in BOOLEAN /\ FinalApproach(s, pos) \in BOOLEAN
      /\ Guided.law.limit \in Nat /\ Guided.law.limit <= Guided.law.limit
  BY ConfigFacts DEF Magnitude, Flight, FinalApproach
<1> HIDE DEF l, e, w, r, status
<1>9. CASE r = Unguided(l, s, dt)
  <2>1. LawStep(l.law, r.ctl.law, r.out, dt)
    BY <1>7, <1>9, UnguidedTurns
  <2> QED
    BY <1>7, <2>1 DEF r
<1>10. CASE r = Neutral(l, Lost(l)) \/ r = Neutral(w, "WAITING_NAVIGATION")
  <2>1. LawStep(c.law, r.ctl.law, r.out, dt)
    BY <1>7, <1>10, NeutralTurns
  <2> QED
    BY <2>1 DEF r
<1>11. CASE r = Steer(e, s, pos, dt)
  <2>1. LawStep(e.law, r.ctl.law, r.out, dt)
    BY <1>4, <1>7, <1>8, <1>11, RunGuidanceTurns
  <2> QED
    BY <1>7, <2>1 DEF r
<1> QED
  BY <1>3, <1>5, <1>9, <1>10, <1>11

LEMMA StepTurns ==
  ASSUME NEW c, Sound(c), Guarded(c.law), NEW st, NEW both, NEW ago, NEW s \in Flight,
         NEW pos \in Int, NEW dt \in Nat
  PROVE  LET r == GuidedStep(c, st, both, ago, s, pos, dt) IN
         LawStep(c.law, r.ctl.law, r.out, dt)
<1> DEFINE r == GuidedStep(c, st, both, ago, s, pos, dt)
           w == [c EXCEPT !.candidate = Unset, !.loss = Unset]
           n == [c EXCEPT !.candidate = Unset]
           k == [c EXCEPT !.spinning = Unset]
           t == Started(c.spinning)
           p == [c EXCEPT !.spinning = t]
<1>1. Unset \in Timer /\ t \in Timer
  BY TimerFacts DEF Sound, GuidedDropController
<1>2. \/ r = Neutral(c, "LANDED") \/ r = Faulted(c)
      \/ r = Neutral(w, "WAITING_RELEASE") \/ r = Neutral(w, "DEPLOYMENT_NEUTRAL")
      \/ r = Neutral(n, "WAITING_STABLE_DESCENT") \/ r = Neutral(n, "WAITING_ALTITUDE")
      \/ r = Faulted(p) \/ r = Unwind(p, dt)
      \/ r = Navigate(k, s, pos, dt)
  BY DEF GuidedStep, Waiting, Spin
<1> HIDE DEF t
<1>3. /\ Sound(w) /\ w.law = c.law /\ Sound(n) /\ n.law = c.law
      /\ Sound(k) /\ k.law = c.law /\ Sound(p) /\ p.law = c.law
  BY <1>1 DEF Sound, GuidedDropController
<1> HIDE DEF w, n, k, p, r
<1>4. CASE r = Navigate(k, s, pos, dt)
  <2>1. LawStep(k.law, r.ctl.law, r.out, dt)
    BY <1>3, <1>4, NavigateTurns
  <2> QED
    BY <1>3, <2>1 DEF r
<1>5. CASE r # Navigate(k, s, pos, dt)
  <2>1. LawStep(c.law, r.ctl.law, r.out, dt)
    BY <1>2, <1>3, <1>5, NeutralTurns
  <2> QED
    BY <2>1 DEF r
<1> QED
  BY <1>4, <1>5

\* What the history knows of the last turn: a sign the guard remembers is the
\* direction of the last command, and the guard thinks the turn no older.
Turning(law, dir, turn) ==
  /\ Guarded(law)
  /\ dir \in -1 .. 1 /\ turn \in {Unset} \cup Nat
  /\ dir # 0 => turn # Unset
  /\ law.sign # 0 =>
       /\ law.turned # Unset /\ dir = law.sign
       /\ turn >= Guided.law.guard \/ law.turned <= turn

TurnInv ==
  /\ Turning(ctl.law, seen.dir, seen.turn)
  /\ out.active => out.command = ctl.law.value

\* The history of the turn after one more command.
Heading(dir, command) == IF Sign(command) = 0 THEN dir ELSE Sign(command)

TurnAge(dir, turn, command, dt) ==
  IF Sign(command) # 0 /\ Sign(command) # dir THEN 0
  ELSE Run(turn, turn # Unset, dt, Guided.law.guard)

LEMMA LawTurns ==
  ASSUME NEW law, Bound(law), NEW n, Bound(n), NEW command, NEW dt \in Nat,
         TurnStep(AgedLaw(law, dt), n, command), NEW dir, NEW turn, Turning(law, dir, turn)
  PROVE  /\ Turning(n, Heading(dir, command), TurnAge(dir, turn, command, dt))
         /\ \A was \in {0, law.value} :
              was # 0 /\ command # 0 /\ Sign(was) # Sign(command) =>
                turn + dt >= Guided.law.guard
<1> DEFINE l == AgedLaw(law, dt)
           g == Guided.law.guard
           d == Heading(dir, command)
           t == TurnAge(dir, turn, command, dt)
           s == Sign(command)
<1>1. g \in Nat /\ g <= AgeCap /\ AgeCap \in Nat /\ Unset = -1
  BY ConfigFacts, GuidedAssumption, AgeCapIsNat DEF SteeringConfig, Unset
<1>2. /\ l.value = law.value /\ l.sign = law.sign /\ l.turned = Later(law.turned, dt)
      /\ law.value \in Int /\ law.sign \in Int /\ law.turned \in Timer
  BY DEF AgedLaw, Bound, SteeringLaw
<1>3. n.value \in Int /\ n.sign \in Int /\ n.turned \in Timer
  BY DEF Bound, SteeringLaw
<1>4. l.turned = IF law.turned = Unset THEN Unset
                 ELSE IF law.turned + dt > AgeCap THEN AgeCap ELSE law.turned + dt
  BY <1>2 DEF Later
<1>5. TurnStep(l, n, command)
  OBVIOUS
<1> HIDE DEF l
<1>6. command \in {0, n.value} /\ command \in Int
  BY <1>3, <1>5 DEF TurnStep
<1>7. s \in -1 .. 1 /\ (s = 0 <=> command = 0) /\ s = Sign(command)
  BY <1>6 DEF Sign
<1>8. d = IF s = 0 THEN dir ELSE s
  BY DEF Heading
<1>9. t = IF s # 0 /\ s # dir THEN 0
          ELSE IF turn = Unset THEN Unset ELSE Smaller(turn + dt, g)
  BY DEF TurnAge, Run
<1>10. /\ dir \in -1 .. 1 /\ turn \in {Unset} \cup Nat
       /\ dir # 0 => turn # Unset
       /\ law.sign # 0 => law.turned # Unset /\ dir = law.sign /\ (turn >= g \/ law.turned <= turn)
       /\ law.value # 0 => law.sign = Sign(law.value)
  BY DEF Turning, Guarded
<1> HIDE DEF g, d, t, s
<1>11. d \in -1 .. 1 /\ t \in {Unset} \cup Nat /\ (d # 0 => t # Unset)
  BY <1>1, <1>7, <1>8, <1>9, <1>10 DEF Smaller
\* A remembered turn that is kept grows older with the history's.
<1>12. law.sign # 0 /\ s \in {0, law.sign} =>
         /\ l.turned # Unset /\ d = law.sign
         /\ t >= g \/ l.turned <= t
  <2> SUFFICES ASSUME law.sign # 0, s \in {0, law.sign}
               PROVE  /\ l.turned # Unset /\ d = law.sign
                      /\ t >= g \/ l.turned <= t
    OBVIOUS
  <2>1. /\ law.turned # Unset /\ dir = law.sign /\ (turn >= g \/ law.turned <= turn)
        /\ turn \in Nat /\ law.turned \in Nat
    BY <1>1, <1>2, <1>10 DEF Timer, Age
  <2>2. t = Smaller(turn + dt, g) /\ d = law.sign
    BY <1>1, <1>8, <1>9, <2>1
  <2>3. l.turned \in Nat /\ l.turned <= law.turned + dt
    BY <1>1, <1>4, <2>1
  <2>4. l.turned # Unset
    BY <1>1, <2>3
  <2>5. t >= g \/ t = turn + dt
    BY <1>1, <2>1, <2>2 DEF Smaller
  <2> QED
    BY <1>1, <2>1, <2>2, <2>3, <2>4, <2>5
<1>13. law.value # 0 => law.sign # 0 /\ Sign(law.value) \in Int
  BY <1>2, <1>10 DEF Sign
<1>14. Turning(n, d, t)
  <2>1. SUFFICES /\ n.value # 0 => n.sign = Sign(n.value)
                 /\ n.sign # 0 => /\ n.turned # Unset /\ d = n.sign
                                  /\ t >= g \/ n.turned <= t
    BY <1>11 DEF Turning, Guarded, g
  <2>2. CASE n = l /\ command = 0
    BY <1>2, <1>7, <1>10, <1>12, <2>2
  <2>3. CASE /\ n.sign = l.sign /\ n.turned = l.turned /\ command = n.value
             /\ n.value # 0 => Sign(n.value) = Sign(l.value) /\ l.value # 0
    <3>1. n.value # 0 => s = law.sign /\ Sign(n.value) = law.sign
      BY <1>2, <1>7, <1>10, <2>3
    <3>2. n.value = 0 => s = 0
      BY <1>7, <2>3
    <3> QED
      BY <1>2, <1>12, <2>3, <3>1, <3>2
  <2>4. CASE n.value = 0 /\ n.sign = 0 /\ n.turned = l.turned /\ command = 0
    BY <2>4
  <2>5. CASE /\ n.value # 0 /\ Sign(n.value) = l.sign /\ n.sign = l.sign
             /\ n.turned = l.turned /\ command = n.value
    BY <1>2, <1>7, <1>12, <2>5
  <2>6. CASE /\ n.value # 0 /\ Sign(n.value) # l.sign
             /\ l.sign = 0 \/ ~(l.turned < Guided.law.guard)
             /\ n.sign = Sign(n.value) /\ n.turned = 0 /\ command = n.value
    <3>1. s # 0 /\ d = s /\ s = Sign(n.value) /\ t # Unset
      BY <1>7, <1>8, <1>11, <2>6
    <3> QED
      BY <1>1, <1>11, <2>6, <3>1
  <2> QED
    BY <1>5, <2>2, <2>3, <2>4, <2>5, <2>6 DEF TurnStep
<1>15. ASSUME NEW was \in {0, law.value}, was # 0, command # 0, Sign(was) # Sign(command)
       PROVE  turn + dt >= g
  <2>1. law.value # 0 /\ law.sign = Sign(law.value) /\ law.sign # 0 /\ Sign(law.value) # s
    BY <1>7, <1>10, <1>13, <1>15
  <2>2. law.turned \in Nat /\ turn \in Nat /\ (turn >= g \/ law.turned <= turn)
    BY <1>1, <1>2, <1>10, <2>1 DEF Timer, Age
  <2>3. command = n.value /\ n.value # 0 /\ Sign(n.value) = s
    BY <1>6, <1>7, <1>15
  <2>4. ~(l.turned < g)
    BY <1>2, <1>5, <1>15, <2>1, <2>3 DEF TurnStep, g
  <2>5. l.turned <= law.turned + dt /\ l.turned \in Int
    BY <1>1, <1>4, <2>2
  <2> QED
    BY <1>1, <2>2, <2>4, <2>5
<1> QED
  BY <1>14, <1>15 DEF d, t, g

LEMMA SteppedTurns ==
  ASSUME NEW c, Sound(c), NEW s \in Flight, fix' \in Positions, NEW dt \in Nat, StagesFit',
         NEW h, Turning(c.law, h.dir, h.turn), Stepped(c, s, dt, h)
  PROVE  /\ Turning(ctl'.law, seen'.dir, seen'.turn) /\ seen'.tick = dt
         /\ \A was \in {0, c.law.value} :
              was # 0 /\ out'.command # 0 /\ Sign(was) # Sign(out'.command) =>
                h.turn + dt >= Guided.law.guard
         /\ Near(c.law.value, ctl'.law.value, dt)
         /\ out'.active => out'.command = ctl'.law.value
<1> DEFINE o == Older(c, dt)
           l == AgedLaw(c.law, dt)
           both == canopy' /\ stable'
           r == GuidedStep(o, stage', both, since', s, fix', dt)
<1>1. ctl' = r.ctl /\ out' = r.out /\ seen' = Saw(h, c, r.ctl, r.out, s, dt)
  BY DEF Stepped
<1>2. Sound(o)
  BY OlderSound
<1>3. o.law = l
  BY DEF Older, Sound, GuidedDropController
<1>4. l.value = c.law.value /\ l.sign = c.law.sign
  BY DEF AgedLaw, Sound, Bound, SteeringLaw
<1>5. both \in BOOLEAN /\ fix' \in Int
  BY ConfigFacts DEF StagesFit
<1>6. seen'.dir = Heading(h.dir, r.out.command)
  BY <1>1 DEF Saw, Heading
<1>7. seen'.turn = TurnAge(h.dir, h.turn, r.out.command, dt)
  BY <1>1 DEF Saw, TurnAge
<1>8. seen'.tick = dt
  BY <1>1 DEF Saw
<1> HIDE DEF o, l, both
<1>9. Guarded(o.law)
  BY <1>3, <1>4 DEF Turning, Guarded
<1>10. Fits(r)
  BY <1>2, <1>5, StepFits
<1>11. LawStep(l, r.ctl.law, r.out, dt)
  BY <1>2, <1>3, <1>5, <1>9, StepTurns
<1>12. Bound(c.law) /\ Bound(r.ctl.law)
  BY <1>10 DEF Sound, Fits
<1> HIDE DEF r
<1>13. /\ TurnStep(l, r.ctl.law, r.out.command)
       /\ Near(c.law.value, r.ctl.law.value, dt)
       /\ r.out.active => r.out.command = r.ctl.law.value
  BY <1>4, <1>11 DEF LawStep
<1> QED
  BY <1>1, <1>6, <1>7, <1>8, <1>12, <1>13, LawTurns DEF l

LEMMA FreshTurns == Turning(Fresh.law, Unseen.dir, Unseen.turn)
  BY DEF Fresh, Straight, Unseen, Turning, Guarded

LEMMA TurnsStart ==
  ASSUME GuidedInit
  PROVE  TurnInv
BY FreshTurns DEF GuidedInit, TurnInv, Neutral

\* Signs that disagree.
LEMMA Opposed ==
  ASSUME NEW a \in Int, NEW b \in Int, Sign(a) * Sign(b) = -1
  PROVE  a # 0 /\ b # 0 /\ Sign(a) # Sign(b)
BY DEF Sign

\* What SteeringIsGradual says of one step.
SteersGradually ==
  /\ out.active /\ out'.active =>
       Magnitude(out'.command - out.command) <= Guided.law.slew * seen'.tick
  /\ Sign(out.command) * Sign(out'.command) = -1 =>
       seen.turn + seen'.tick >= Guided.law.guard

LEMMA NearIsGradual ==
  ASSUME NEW was \in Int, NEW next \in Int, NEW dt \in Nat, Near(was, next, dt)
  PROVE  Magnitude(next - was) <= Guided.law.slew * dt
<1> DEFINE step == Guided.law.slew * dt
<1>1. step \in Nat
  BY ConfigFacts
<1>2. next - was \in -step .. step
  BY DEF Near
<1> HIDE DEF step
<1>3. Magnitude(next - was) <= step
  BY <1>1, <1>2 DEF Magnitude
<1> QED
  BY <1>3 DEF step

\* A test that is just armed waits for its release.
LEMMA ArmedIsNeutral ==
  ASSUME NEW s, NEW dt, Stepped(Fresh, s, dt, Unseen), stage' = "armed"
  PROVE  ~out'.active /\ out'.command = 0
<1> DEFINE r == GuidedStep(Older(Fresh, dt), stage', canopy' /\ stable', since', s, fix', dt)
<1>1. out' = r.out
  BY DEF Stepped
<1>2. ~r.out.active /\ r.out.command = 0
  BY DEF GuidedStep, Neutral, Faulted
<1> QED
  BY <1>1, <1>2

LEMMA TurnsKeep ==
  ASSUME Inv, Inv', TurnInv, [GuidedNext]_guidedVars
  PROVE  TurnInv' /\ [SteersGradually]_guidedVars
<1>1. /\ out.command \in {0, ctl.law.value} /\ out.command \in Int
      /\ out'.command \in {0, ctl'.law.value} /\ out'.command \in Int
      /\ ctl.law.value \in Int /\ ctl'.law.value \in Int
  BY DEF Inv, GuidedOutput, Sound, Bound, SteeringLaw
<1>2. ASSUME NEW s \in Flights, NEW dt \in Ticks, ArmGuided(s, dt)
      PROVE  TurnInv' /\ SteersGradually
  <2>1. /\ StagesFit' /\ fix' \in Positions /\ Stepped(Fresh, s, dt, Unseen)
        /\ stage = "idle" /\ stage' = "armed"
    BY <1>2 DEF ArmGuided, ArmTest, StagesFit, Locate
  <2>2. Sound(Fresh) /\ s \in Flight /\ dt \in Nat
    BY FreshSound, ConfigFacts
  <2>3. TurnInv'
    BY <2>1, <2>2, FreshTurns, SteppedTurns DEF TurnInv
  <2>4. ~out'.active /\ out'.command = 0
    BY <2>1, ArmedIsNeutral
  <2> QED
    BY <1>1, <2>3, <2>4, Opposed DEF SteersGradually
<1>3. ASSUME NEW s \in Flights, NEW dt \in Ticks, Fly(s, dt)
      PROVE  TurnInv' /\ SteersGradually
  <2>1. StagesFit' /\ fix' \in Positions /\ Stepped(ctl, s, dt, seen)
    BY <1>3 DEF Inv, Fly, Locate, ReleaseTest, Observe, stageVars, StagesFit
  <2>2. Sound(ctl) /\ s \in Flight /\ dt \in Nat
    BY ConfigFacts DEF Inv
  <2>3. /\ TurnInv' /\ seen'.tick = dt
        /\ out.command # 0 /\ out'.command # 0 /\ Sign(out.command) # Sign(out'.command) =>
             seen.turn + dt >= Guided.law.guard
        /\ Near(ctl.law.value, ctl'.law.value, dt)
    BY <1>1, <2>1, <2>2, SteppedTurns DEF TurnInv
  <2>4. out.active /\ out'.active => Near(out.command, out'.command, dt)
    BY <2>3 DEF TurnInv
  <2> QED
    BY <1>1, <2>2, <2>3, <2>4, Opposed, NearIsGradual DEF SteersGradually
<1>4. CASE EndGuided
  <2>1. ctl' = Fresh /\ seen' = Unseen /\ out' = Neutral(Fresh, "WAITING_RELEASE").out
    BY <1>4 DEF EndGuided
  <2>2. TurnInv' /\ out'.command = 0 /\ ~out'.active
    BY <2>1, FreshTurns DEF TurnInv, Neutral
  <2> QED
    BY <1>1, <2>2, Opposed DEF SteersGradually
<1>5. CASE UNCHANGED guidedVars
  <2>1. ctl' = ctl /\ seen' = seen /\ out' = out
    BY <1>5 DEF guidedVars
  <2> QED
    BY <1>5, <2>1 DEF TurnInv
<1> QED
  BY <1>2, <1>3, <1>4, <1>5 DEF GuidedNext, Rest

-----------------------------------------------------------------------------
(* The theorems.                                                            *)

\* The inductive invariant holds in every reachable state.
THEOREM Invariance == GuidedSpec => []Inv
<1>1. Inv /\ [GuidedNext]_guidedVars => Inv'
  BY StepKeeps DEF Kept
<1> QED
  BY Initially, <1>1, PTL DEF GuidedSpec

\* The controller keeps its types, the limiter stays within the authority, and
\* the command of every step is the limiter's or neutral.
THEOREM TypeCorrect == GuidedSpec => []GuidedTypeOK
<1>1. Inv => GuidedTypeOK
  BY DEF Inv, GuidedTypeOK, Sound, Bound, Limits
<1> QED
  BY <1>1, Invariance, PTL

\* No brake is pulled before the gates of step are passed, after the landing,
\* or once a fault is latched.
THEOREM GatesHold == GuidedSpec => []SteersOnlyAfterGates
<1>1. Inv => SteersOnlyAfterGates
  BY DEF Inv
<1> QED
  BY <1>1, Invariance, PTL

\* The first steering of a test follows an uninterrupted run of fixes as long
\* as the confirmation time.
THEOREM Confirmation == GuidedSpec => FirstSteeringIsConfirmed
<1>1. Inv /\ [GuidedNext]_guidedVars =>
        [~ctl.started /\ ctl'.started => seen'.nav >= Guided.navConfirm]_guidedVars
  BY StepKeeps DEF Kept
<1> QED
  BY <1>1, Invariance, PTL DEF GuidedSpec, FirstSteeringIsConfirmed

\* The inductive invariant of a loss: the two timers that interrupt each other
\* account for the time the position has been lost.
THEOREM LossInvariance ==
  ASSUME LossAssumption
  PROVE  GuidedSpec => []LossInv
<1>1. GuidedInit => LossInv
  BY LossStarts
<1>2. Inv /\ LossInv /\ [GuidedNext]_guidedVars => LossInv'
  BY LossKeeps
<1> QED
  BY <1>1, <1>2, Invariance, PTL DEF GuidedSpec

\* A test that has no position for the time of the loss and of the spins between
\* is neutral for good.
THEOREM LossEnds ==
  ASSUME LossAssumption
  PROVE  GuidedSpec => []LossIsBounded
<1>1. Inv /\ LossInv => LossIsBounded
  <2> SUFFICES ASSUME Inv, LossInv
               PROVE  LossIsBounded
    OBVIOUS
  <2>1. /\ ctl.loss \in Timer /\ ctl.spinning \in Timer /\ seen.lost \in {Unset} \cup Nat
        /\ stage = "released" /\ ctl.started /\ ~ctl.fault =>
             Losing(ctl.loss, ctl.spinning, seen.lost)
        /\ stage # "released" \/ ~ctl.started => seen.lost = Unset
    BY DEF Inv, Sound, GuidedDropController, LossInv
  <2>2. LossBound \in Nat /\ Unset = -1
    BY LossConfig DEF Unset
  <2>3. stage = "released" /\ ctl.started /\ ~ctl.fault => seen.lost < LossBound
    BY <2>1, LosingIsBounded
  <2> QED
    BY <2>1, <2>2, <2>3 DEF LossIsBounded
<1> QED
  BY <1>1, Invariance, LossInvariance, PTL

\* A course hold ends in its time, and with it the loss it bridges.
THEOREM HoldEnds ==
  ASSUME LossAssumption
  PROVE  GuidedSpec => []CourseHoldIsBounded
<1>1. Inv /\ LossInv => CourseHoldIsBounded
  <2> SUFFICES ASSUME Inv, LossInv
               PROVE  CourseHoldIsBounded
    OBVIOUS
  <2>1. /\ ctl.loss \in Timer /\ ctl.spinning \in Timer /\ seen.lost \in {Unset} \cup Nat
    BY DEF Inv, Sound, GuidedDropController, LossInv
  <2> QED
    BY <2>1, LosingIsBounded DEF LossInv, CourseHoldIsBounded
<1> QED
  BY <1>1, Invariance, LossInvariance, PTL

\* The accepted position never jumps, and a jump is forgiven only after as many
\* plausible points as configured.
THEOREM JumpsRecover == GuidedSpec => JumpNeedsRecovery
<1>1. GuidedInit => JumpInv
  BY DoubtStarts
<1>2. Inv /\ JumpInv /\ [GuidedNext]_guidedVars => JumpInv'
  BY DoubtKeeps
<1>3. Inv /\ JumpInv /\ [GuidedNext]_guidedVars =>
        [guidedTests' = guidedTests =>
           /\ \A p \in ctl.accepted, q \in ctl'.accepted : Magnitude(q - p) <= Guided.maxJump
           /\ stage' # "idle" /\ ctl.suspect /\ ~ctl'.suspect =>
                seen'.plausible >= Guided.recovery]_guidedVars
  BY DoubtKeeps
<1> QED
  BY <1>1, <1>2, <1>3, Invariance, PTL DEF GuidedSpec, JumpNeedsRecovery

\* As long as the controller steers, the command moves no faster than the slew
\* rate, and a turn from one side straight to the other waits for the guard time
\* since the last turn, whatever interrupts the guidance between them.
THEOREM SteersSlowly == GuidedSpec => SteeringIsGradual
<1>1. GuidedInit => TurnInv
  BY TurnsStart
<1>2. Inv /\ Inv' /\ TurnInv /\ [GuidedNext]_guidedVars => TurnInv'
  BY TurnsKeep
<1>3. Inv /\ Inv' /\ TurnInv /\ [GuidedNext]_guidedVars => [SteersGradually]_guidedVars
  BY TurnsKeep
<1> QED
  BY <1>1, <1>2, <1>3, Invariance, PTL DEF GuidedSpec, SteeringIsGradual, SteersGradually

=============================================================================
