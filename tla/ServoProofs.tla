----------------------------- MODULE ServoProofs -----------------------------
(***************************************************************************)
(* Theorems about the servos, for every slew rate, travel and calibration    *)
(* the dashboard accepts, and for every pair of commands.                   *)
(*                                                                          *)
(* That no pulse leaves its ends is not inductive: the slew limit goes from  *)
(* the pulse towards the target, so both lie between the ends, and the ends  *)
(* around neutral; that a move is gradual needs that no update has waited    *)
(* for longer than Refresh.  That a kept command arrives needs a measure:    *)
(* what is left of the way, with what the slew rate has covered since the     *)
(* command was first given, never exceeds the way from end to end.           *)
(***************************************************************************)
EXTENDS Servo, TLAPS

\* A servo between its ends.
Held(p, c) == p.us \in c.min .. c.max /\ p.target \in c.min .. c.max

\* The way from a pulse to its target.
Way(us, target) == IF target < us THEN us - target ELSE target - us

\* The time of the kept command the updates have used.
Used == last.kept - since

\* The servos are under way to the kept command, and have gone as far as it allows.
UnderWay ==
  last.kind = "moved" =>
    \A s \in Servos :
      /\ servo[s].target = Asked(last.commands, last.owner)[s]
      /\ \/ Way(servo[s].us, servo[s].target) = 0
         \/ Way(servo[s].us, servo[s].target) + SlewRate * Used <= Highest - Lowest

\* The ends of a calibration are the compiled ones.
SameEnds(c) == c.min = Default.min /\ c.max = Default.max

Inv ==
  /\ ServoTypeOK
  /\ \A s \in Servos : Accepted(cal[s]) /\ Held(servo[s], cal[s])
  /\ \A s \in Servos : SameEnds(nvs[s]) /\ Accepted(web.new[s])
  /\ last.kind \in {"moved", "forced"} => since < Refresh
  /\ UnderWay

Position == [us : Int, target : Int]

-----------------------------------------------------------------------------
(* The operators.                                                           *)

LEMMA ConstantFacts ==
  /\ Full \in Nat \ {0} /\ SlewRate \in Nat \ {0} /\ Refresh \in Nat \ {0}
  /\ Ticks \subseteq Nat \ {0} /\ MaxSaves \in Nat
  /\ Limit \in [Owner -> 0 .. Full] /\ Commands \subseteq [Servos -> Int]
  /\ Lowest \in Int /\ Highest \in Int /\ AgeCap \in Nat /\ Refresh <= AgeCap
  /\ SlewRate * (AgeCap - Refresh) >= Highest - Lowest
  BY ServoAssumption, AgeCapIsNat

LEMMA AgesGrow ==
  ASSUME NEW age \in Age, NEW dt \in Nat
  PROVE  Later(age, dt) \in Age /\ 0 \in Age
  BY ConstantFacts DEF Later, Age, Unset

LEMMA ValidIsAccepted ==
  ASSUME NEW c \in Calibration, ValidCalibration(c), SameEnds(c)
  PROVE  Accepted(c)
  BY ConstantFacts DEF Accepted, ValidCalibration, Calibration, SameEnds

LEMMA DefaultEnds ==
  /\ Default \in Calibration /\ ValidCalibration(Default) /\ SameEnds(Default)
  /\ Default.min \in Lowest .. Highest /\ Default.max \in Lowest .. Highest
  /\ Default.min \in Int /\ Default.max \in Int /\ Default.min < Default.max
  BY ServoAssumption DEF ValidCalibration, Calibration, SameEnds

LEMMA ClampedIsWithin ==
  ASSUME NEW x \in Int, NEW low \in Int, NEW high \in Int, low <= high
  PROVE  Clamped(x, low, high) \in low .. high
  BY DEF Clamped

LEMMA CommandIsWithin ==
  ASSUME NEW cmd \in Int, NEW c \in Calibration, Accepted(c)
  PROVE  CommandToUs(cmd, c) \in c.min .. c.max
<1> DEFINE travel == (c.brake * cmd) \div Full
           wanted == c.neutral + (IF c.reversed THEN -1 ELSE 1) * travel
<1>1. c.brake * cmd \in Int
  BY DEF Calibration
<1>2. travel \in Int
  BY <1>1, ConstantFacts
<1> HIDE DEF travel
<1>3. wanted \in Int
  BY <1>2 DEF Calibration
<1>4. CommandToUs(cmd, c) = Clamped(wanted, c.min, c.max)
  BY DEF CommandToUs, travel
<1> HIDE DEF wanted
<1>5. c.min \in Int /\ c.max \in Int /\ c.min <= c.max
  BY ConstantFacts DEF Accepted, Calibration
<1> QED
  BY <1>3, <1>4, <1>5, ClampedIsWithin

LEMMA LimitedIsInt ==
  ASSUME NEW commands \in [Servos -> Int], NEW owner \in Owner, NEW s \in Servos
  PROVE  Clamped(commands[s], -Limit[owner], Limit[owner]) \in Int
  BY ConstantFacts DEF Clamped

\* A step of the slew limit lies between the pulse and the target, and is bounded.
LEMMA SlewedIsBounded ==
  ASSUME NEW us \in Int, NEW target \in Int, NEW dt \in Nat,
         NEW low \in Int, NEW high \in Int, us \in low .. high, target \in low .. high
  PROVE  /\ Slewed(us, target, dt) \in low .. high
         /\ Slewed(us, target, dt) - us \in -(SlewRate * dt) .. SlewRate * dt
<1> DEFINE k == SlewRate * dt
           next == us + Clamped(target - us, -k, k)
<1>1. k \in Nat
  BY ConstantFacts
<1>2. Slewed(us, target, dt) = next
  BY DEF Slewed
<1> HIDE DEF k
<1>3. next \in low .. high
  BY <1>1 DEF Clamped
<1>4. next - us \in -k .. k
  BY <1>1 DEF Clamped
<1> HIDE DEF next
<1>5. Slewed(us, target, dt) \in low .. high /\ Slewed(us, target, dt) - us \in -k .. k
  BY <1>2, <1>3, <1>4
<1> QED
  BY <1>5 DEF k

LEMMA WayIsBounded ==
  ASSUME NEW us \in Int, NEW target \in Int
  PROVE  /\ Way(us, target) \in Nat
         /\ Way(us, target) = 0 => us = target
         /\ us \in Lowest .. Highest /\ target \in Lowest .. Highest =>
              Way(us, target) <= Highest - Lowest
  BY ConstantFacts DEF Way

\* A step of the slew limit arrives, or covers all it was granted.
LEMMA SlewedGoesOn ==
  ASSUME NEW us \in Int, NEW target \in Int, NEW dt \in Nat
  PROVE  \/ Way(Slewed(us, target, dt), target) = 0
         \/ Way(Slewed(us, target, dt), target) + SlewRate * dt <= Way(us, target)
<1> DEFINE k == SlewRate * dt
           next == us + Clamped(target - us, -k, k)
<1>1. k \in Nat
  BY ConstantFacts
<1>2. Slewed(us, target, dt) = next
  BY DEF Slewed
<1> HIDE DEF k
<1>3. Way(next, target) = 0 \/ Way(next, target) + k <= Way(us, target)
  BY <1>1 DEF Clamped, Way
<1> HIDE DEF next
<1> QED
  BY <1>2, <1>3 DEF k

LEMMA Monotone ==
  ASSUME NEW a \in Int, NEW b \in Int, a <= b
  PROVE  SlewRate * a <= SlewRate * b /\ SlewRate * a \in Int /\ SlewRate * b \in Int
<1>1. PICK c \in Nat : b = a + c
  <2>1. b - a \in Nat /\ b = a + (b - a)
    OBVIOUS
  <2> QED
    BY <2>1
<1>2. SlewRate * c \in Nat /\ SlewRate * a \in Int
  BY ConstantFacts
<1>3. SlewRate * b = SlewRate * a + SlewRate * c
  BY <1>1, ConstantFacts
<1> QED
  BY <1>2, <1>3

LEMMA LonglyBounded ==
  ASSUME NEW a \in Nat, NEW b \in Nat, a <= b
  PROVE  SlewRate * a <= SlewRate * b
<1>1. PICK c \in Nat : b = a + c
  <2>1. b - a \in Nat /\ b = a + (b - a)
    OBVIOUS
  <2> QED
    BY <2>1
<1>2. SlewRate * c \in Nat /\ SlewRate * a \in Nat
  BY ConstantFacts
<1>3. SlewRate * b = SlewRate * a + SlewRate * c
  BY <1>1, ConstantFacts
<1> QED
  BY <1>2, <1>3

LEMMA AskedIsWithin ==
  ASSUME NEW commands \in [Servos -> Int], NEW owner \in Owner, NEW s \in Servos,
         cal[s] \in Calibration, Accepted(cal[s])
  PROVE  Asked(commands, owner)[s] \in cal[s].min .. cal[s].max
  BY LimitedIsInt, CommandIsWithin DEF Asked

\* setServoCommandsWithLimit and setBenchServoCommands.
LEMMA TargetedIsHeld ==
  ASSUME NEW ss \in [Servos -> Position], NEW commands \in [Servos -> Int],
         NEW owner \in Owner, cal \in [Servos -> Calibration],
         \A s \in Servos : Accepted(cal[s]) /\ Held(ss[s], cal[s])
  PROVE  /\ Targeted(ss, commands, owner) \in [Servos -> Position]
         /\ \A s \in Servos :
              /\ Held(Targeted(ss, commands, owner)[s], cal[s])
              /\ Targeted(ss, commands, owner)[s].us = ss[s].us
              /\ Targeted(ss, commands, owner)[s].target = Asked(commands, owner)[s]
<1> DEFINE next == Targeted(ss, commands, owner)
           target(s) == Asked(commands, owner)[s]
<1>1. ASSUME NEW s \in Servos
      PROVE  target(s) \in cal[s].min .. cal[s].max /\ cal[s].min \in Int /\ cal[s].max \in Int
  BY AskedIsWithin DEF Calibration
<1>2. next = [s \in Servos |-> [ss[s] EXCEPT !.target = target(s)]]
  BY DEF Targeted
<1> HIDE DEF target, next
<1>3. ASSUME NEW s \in Servos
      PROVE  /\ next[s] \in Position /\ Held(next[s], cal[s])
             /\ next[s].us = ss[s].us /\ next[s].target = target(s)
  BY <1>1, <1>2 DEF Held, Position
<1> QED
  BY <1>2, <1>3 DEF next, target

\* update
LEMMA UpdatedIsHeld ==
  ASSUME NEW ss \in [Servos -> Position], NEW dt \in Nat, cal \in [Servos -> Calibration],
         \A s \in Servos : Held(ss[s], cal[s])
  PROVE  /\ Updated(ss, dt) \in [Servos -> Position]
         /\ \A s \in Servos :
              /\ Held(Updated(ss, dt)[s], cal[s])
              /\ Updated(ss, dt)[s].us - ss[s].us \in -(SlewRate * dt) .. SlewRate * dt
<1>1. SlewRate * dt \in Nat
  BY ConstantFacts
<1>2. CASE dt < Refresh
  <2>1. Updated(ss, dt) = ss
    BY <1>2 DEF Updated
  <2>2. ASSUME NEW s \in Servos
        PROVE  ss[s].us - ss[s].us \in -(SlewRate * dt) .. SlewRate * dt
    BY <1>1 DEF Position
  <2> QED
    BY <2>1, <2>2
<1>3. CASE ~(dt < Refresh)
  <2> DEFINE next == [s \in Servos |-> [ss[s] EXCEPT !.us = Slewed(ss[s].us, ss[s].target, dt)]]
  <2>1. Updated(ss, dt) = next
    BY <1>3 DEF Updated
  <2>2. ASSUME NEW s \in Servos
        PROVE  /\ next[s] \in Position /\ Held(next[s], cal[s])
               /\ next[s].us - ss[s].us \in -(SlewRate * dt) .. SlewRate * dt
    <3> DEFINE us == Slewed(ss[s].us, ss[s].target, dt)
    <3>1. cal[s].min \in Int /\ cal[s].max \in Int /\ ss[s].us \in Int /\ ss[s].target \in Int
      BY DEF Calibration, Position
    <3>2. /\ us \in cal[s].min .. cal[s].max
          /\ us - ss[s].us \in -(SlewRate * dt) .. SlewRate * dt
      BY <3>1, SlewedIsBounded DEF Held
    <3>3. next[s] = [ss[s] EXCEPT !.us = us]
      OBVIOUS
    <3> HIDE DEF us, next
    <3>4. next[s].us = us /\ next[s].target = ss[s].target /\ next[s] \in Position
      BY <3>1, <3>2, <3>3 DEF Position
    <3> QED
      BY <3>2, <3>4 DEF Held
  <2> QED
    BY <2>1, <2>2
<1> QED
  BY <1>2, <1>3

LEMMA UpdatedGoesOn ==
  ASSUME NEW ss \in [Servos -> Position], NEW dt \in Nat, ~(dt < Refresh), NEW s \in Servos
  PROVE  /\ Updated(ss, dt)[s].target = ss[s].target
         /\ \/ Way(Updated(ss, dt)[s].us, ss[s].target) = 0
            \/ Way(Updated(ss, dt)[s].us, ss[s].target) + SlewRate * dt
                  <= Way(ss[s].us, ss[s].target)
<1>1. Updated(ss, dt)[s] = [ss[s] EXCEPT !.us = Slewed(ss[s].us, ss[s].target, dt)]
  BY DEF Updated
<1>2. /\ Updated(ss, dt)[s].us = Slewed(ss[s].us, ss[s].target, dt)
      /\ Updated(ss, dt)[s].target = ss[s].target
      /\ ss[s].us \in Int /\ ss[s].target \in Int
  BY <1>1 DEF Position
<1> QED
  BY <1>2, SlewedGoesOn

LEMMA NeutralIsHeld ==
  ASSUME NEW c \in [Servos -> Calibration], \A s \in Servos : Accepted(c[s])
  PROVE  /\ NeutralOf(c) \in [Servos -> Position]
         /\ \A s \in Servos : Held(NeutralOf(c)[s], c[s])
  BY DEF NeutralOf, Held, Accepted, Calibration, Position

\* The ends do not move with a calibration, so what they held they hold.
LEMMA EndsStay ==
  ASSUME NEW p \in Position, NEW old \in Calibration, NEW new \in Calibration,
         Accepted(old), Accepted(new), Held(p, old)
  PROVE  Held(p, new)
  BY DEF Accepted, Held

\* loadCalibration
LEMMA RestoredIsAccepted ==
  ASSUME NEW store \in [Servos -> Calibration], \A s \in Servos : SameEnds(store[s]),
         NEW opened
  PROVE  /\ Restored(store, opened) \in [Servos -> Calibration]
         /\ \A s \in Servos : Accepted(Restored(store, opened)[s])
<1>1. /\ Restored(store, opened) \in [Servos -> Calibration]
      /\ \A s \in Servos : /\ ValidCalibration(Restored(store, opened)[s])
                          /\ SameEnds(Restored(store, opened)[s])
  BY DefaultEnds DEF Restored
<1> QED
  BY <1>1, ValidIsAccepted

LEMMA MixedIsTyped ==
  ASSUME NEW old \in [Servos -> Calibration], NEW new \in [Servos -> Calibration], NEW k
  PROVE  /\ Mixed(old, new, k) \in [Servos -> Calibration]
         /\ (\A s \in Servos : SameEnds(old[s]) /\ SameEnds(new[s])) =>
              \A s \in Servos : SameEnds(Mixed(old, new, k)[s])
<1> DEFINE early(s, f) == (s - 1) * 5 + (CHOOSE i \in 1 .. 5 : Keys[i] = f) <= k
           mixed(s) == [f \in DOMAIN Default |-> IF early(s, f) THEN new[s][f] ELSE old[s][f]]
<1>1. Mixed(old, new, k) = [s \in Servos |-> mixed(s)]
  BY DEF Mixed
<1>2. DOMAIN Default = {"neutral", "min", "max", "brake", "reversed"}
  BY ServoAssumption DEF Calibration
<1> HIDE DEF early
<1>3. ASSUME NEW s \in Servos
      PROVE  /\ mixed(s) \in Calibration
             /\ SameEnds(old[s]) /\ SameEnds(new[s]) => SameEnds(mixed(s))
  BY <1>2, <1>3 DEF Calibration, SameEnds
<1> HIDE DEF mixed
<1> QED
  BY <1>1, <1>3

-----------------------------------------------------------------------------
(* The steps.                                                               *)

LEMMA InitHolds == ServoInit => Inv
<1> SUFFICES ASSUME ServoInit PROVE Inv
  OBVIOUS
<1>1. /\ cal \in [Servos -> Calibration] /\ nvs \in [Servos -> Calibration]
      /\ \A s \in Servos : Accepted(cal[s]) /\ SameEnds(nvs[s])
  BY DefaultEnds, ValidIsAccepted DEF ServoInit
<1>2. /\ servo \in [Servos -> Position]
      /\ \A s \in Servos : Held(servo[s], cal[s])
  BY <1>1, NeutralIsHeld DEF ServoInit
<1>3. last \in [kind : {"boot", "neutral", "calibrated", "moved", "forced"}, owner : Owner,
                 commands : [Servos -> Int], dt : Nat, kept : Age]
  <2>1. (CHOOSE o \in Owner : TRUE) \in Owner
    BY ServoAssumption
  <2> QED
    BY <2>1, ConstantFacts DEF ServoInit, Age
<1> QED
  BY <1>1, <1>2, <1>3, ConstantFacts
     DEF ServoInit, Inv, UnderWay, ServoTypeOK, SameEnds, Accepted, Position, Age

\* A kept command: an update covers what the slew rate grants it, and between two
\* updates the time that was not used yet is remembered in since.
LEMMA MoveGoesOn ==
  ASSUME Inv, NEW dt \in Ticks, NEW owner \in Owner, NEW commands \in Commands,
         NEW forced \in BOOLEAN, Move(dt, owner, commands, forced),
         servo' \in [Servos -> Position], \A s \in Servos : Held(servo'[s], cal[s])
  PROVE  UnderWay'
<1> SUFFICES ASSUME last'.kind = "moved", NEW s \in Servos
             PROVE  /\ servo'[s].target = Asked(last.commands, last.owner)'[s]
                    /\ \/ Way(servo'[s].us, servo'[s].target) = 0
                       \/ Way(servo'[s].us, servo'[s].target) + SlewRate * Used'
                            <= Highest - Lowest
  BY DEF UnderWay
<1> DEFINE aimed == Targeted(servo, commands, owner)
           age == Later(since, dt)
           target == Asked(commands, owner)[s]
           way == Way(servo[s].us, target)
           left == Way(servo'[s].us, target)
           kept == last'.kept
<1>1. /\ ~forced /\ last'.owner = owner /\ last'.commands = commands /\ cal' = cal
      /\ servo' = Updated(aimed, age)
      /\ since' = IF age < Refresh THEN age ELSE 0
      /\ kept = IF Keeps(owner, commands) THEN Later(last.kept, dt) ELSE 0
  BY DEF Move
<1>2. /\ cal \in [Servos -> Calibration] /\ servo \in [Servos -> Position]
      /\ \A t \in Servos : Accepted(cal[t]) /\ Held(servo[t], cal[t])
      /\ since \in Age /\ dt \in Nat /\ commands \in [Servos -> Int] /\ last.kept \in Age
  BY ConstantFacts DEF Inv, ServoTypeOK, Position
<1>3. /\ aimed \in [Servos -> Position]
      /\ aimed[s].us = servo[s].us /\ aimed[s].target = target
  BY <1>2, TargetedIsHeld
<1>4. /\ age \in Age /\ kept \in Age
      /\ age = since + dt \/ age = AgeCap
      /\ Keeps(owner, commands) => kept <= last.kept + dt
      /\ ~Keeps(owner, commands) => kept = 0
  BY <1>1, <1>2, ConstantFacts DEF Later, Age, Unset
<1>5. Asked(last.commands, last.owner)'[s] = target
  BY <1>1 DEF Asked
<1> HIDE DEF aimed, age
<1>6. /\ age < Refresh => servo'[s].us = servo[s].us
      /\ servo'[s].target = target
      /\ ~(age < Refresh) => left = 0 \/ left + SlewRate * age <= way
  <2>1. CASE age < Refresh
    <3>1. servo' = aimed
      BY <1>1, <2>1 DEF Updated
    <3> QED
      BY <1>3, <2>1, <3>1
  <2>2. CASE ~(age < Refresh)
    BY <1>1, <1>3, <1>4, <2>2, UpdatedGoesOn, ConstantFacts DEF Age
  <2> QED
    BY <2>1, <2>2
<1> HIDE DEF target
<1>7. /\ servo[s].us \in Lowest .. Highest /\ servo'[s].us \in Lowest .. Highest
      /\ target \in Lowest .. Highest /\ servo[s].us \in Int /\ target \in Int
      /\ servo'[s].us \in Int
  <2>1. cal[s] \in Calibration /\ Accepted(cal[s]) /\ Held(servo[s], cal[s]) /\ Held(servo'[s], cal[s])
    BY <1>2
  <2>2. servo'[s] \in Position /\ servo[s] \in Position /\ servo'[s].target = target
    BY <1>2, <1>6
  <2> QED
    BY <2>1, <2>2, ConstantFacts, DefaultEnds DEF Held, Accepted, Calibration, Position
<1>8. way \in Nat /\ left \in Nat /\ way <= Highest - Lowest /\ left <= Highest - Lowest
  BY <1>7, WayIsBounded
<1>9. Keeps(owner, commands) => way = 0 \/ way + SlewRate * (last.kept - since) <= Highest - Lowest
  BY DEF Inv, UnderWay, Keeps, Used, target
<1>10. age < Refresh => left = way
  BY <1>6
<1> HIDE DEF way, left, kept
<1>11. left = 0 \/ left + SlewRate * (kept - since') <= Highest - Lowest
  <2> DEFINE span == Highest - Lowest
  <2>0. span \in Int /\ since' \in Nat /\ since \in Nat /\ age \in Nat /\ kept \in Nat
        /\ last.kept \in Nat
    BY <1>1, <1>2, <1>4, ConstantFacts DEF Age
  <2> HIDE DEF span
  <2>1. CASE ~Keeps(owner, commands)
    <3>0. kept = 0
      BY <1>4, <2>1
    <3> DEFINE waited == since'
    <3>1. waited \in Nat
      BY <2>0
    <3> HIDE DEF waited
    <3>2. kept - waited <= 0 /\ kept - waited \in Int
      BY <2>0, <3>0, <3>1
    <3>3. SlewRate * 0 = 0
      BY ConstantFacts
    <3> DEFINE granted == SlewRate * (kept - waited)
    <3>4. granted <= SlewRate * 0 /\ granted \in Int
      BY <3>2, Monotone
    <3> HIDE DEF granted
    <3>5. left + granted <= span
      BY <1>8, <2>0, <3>3, <3>4 DEF span
    <3> QED
      BY <3>5 DEF granted, span, waited
  <2>2. CASE Keeps(owner, commands) /\ age < Refresh
    <3>1. age = since + dt /\ since' = age /\ kept <= last.kept + dt
      BY <1>1, <1>4, <2>2, ConstantFacts
    <3>2. kept - since' <= last.kept - since /\ kept - since' \in Int /\ last.kept - since \in Int
      BY <1>2, <2>0, <3>1
    <3> DEFINE granted == SlewRate * (kept - since')
               before == SlewRate * (last.kept - since)
    <3>3. granted <= before /\ granted \in Int /\ before \in Int
      BY <3>2, Monotone
    <3>4. way = 0 \/ way + before <= span
      BY <1>9, <2>2 DEF span
    <3> HIDE DEF granted, before
    <3>5. left = 0 \/ left + granted <= span
      BY <1>8, <1>10, <2>0, <2>2, <3>3, <3>4
    <3> QED
      BY <3>5 DEF granted, span
  <2>3. CASE Keeps(owner, commands) /\ ~(age < Refresh) /\ age = since + dt
    <3>1. since' = 0 /\ kept - since' \in Int /\ last.kept + dt \in Int /\ kept - since' <= last.kept + dt
      BY <1>1, <1>2, <1>4, <2>0, <2>3
    <3> DEFINE granted == SlewRate * (kept - since')
               before == SlewRate * (last.kept - since)
               now == SlewRate * age
    <3>2. granted <= SlewRate * (last.kept + dt) /\ granted \in Int
      BY <3>1, Monotone
    <3>3. SlewRate * (last.kept + dt) = before + now /\ before \in Int /\ now \in Nat
      BY <1>2, <2>0, <2>3, ConstantFacts
    <3>4. left = 0 \/ left + now <= way
      BY <1>6, <2>3 DEF left, way
    <3>5. way = 0 \/ way + before <= span
      BY <1>9, <2>3 DEF span
    <3> HIDE DEF granted, before, now
    <3>6. granted <= before + now
      BY <3>2, <3>3
    <3>7. left = 0 \/ left + granted <= span
      BY <1>8, <2>0, <3>2, <3>3, <3>4, <3>5, <3>6
    <3> QED
      BY <3>7 DEF granted, span
  <2>4. CASE Keeps(owner, commands) /\ ~(age < Refresh) /\ age = AgeCap
    <3>1. since' = 0 /\ kept - since' \in Int /\ kept - since' <= age
      BY <1>1, <1>4, <2>0, <2>4, ConstantFacts DEF Age
    <3> DEFINE granted == SlewRate * (kept - since')
               now == SlewRate * age
    <3>2. granted <= now /\ granted \in Int /\ now \in Int
      BY <2>0, <3>1, Monotone
    <3>3. left = 0 \/ left + now <= way
      BY <1>6, <2>4 DEF left, way
    <3> HIDE DEF granted, now
    <3>4. left = 0 \/ left + granted <= span
      BY <1>8, <2>0, <3>2, <3>3 DEF span
    <3> QED
      BY <3>4 DEF granted, span
  <2> QED
    BY <1>4, <2>1, <2>2, <2>3, <2>4
<1> QED
  BY <1>5, <1>6, <1>11 DEF Used, left, kept

\* Move: the step goes on from neutral when something forced it first.
LEMMA MoveSteps ==
  ASSUME Inv, NEW dt \in Ticks, NEW owner \in Owner, NEW commands \in Commands,
         NEW forced \in BOOLEAN, Move(dt, owner, commands, forced)
  PROVE  /\ Inv'
         /\ \A s \in Servos :
              servo'[s].us - (IF forced THEN cal[s].neutral ELSE servo[s].us) \in
                -(SlewRate * Later(since, dt)) .. SlewRate * Later(since, dt)
<1> DEFINE before == IF forced THEN NeutralOf(cal) ELSE servo
           aimed == Targeted(before, commands, owner)
           age == Later(since, dt)
<1>1. /\ cal \in [Servos -> Calibration] /\ servo \in [Servos -> Position]
      /\ \A s \in Servos : Accepted(cal[s]) /\ Held(servo[s], cal[s])
      /\ since \in Age /\ dt \in Nat /\ commands \in [Servos -> Int]
  BY ConstantFacts DEF Inv, ServoTypeOK, Position
<1>2. before \in [Servos -> Position] /\ \A s \in Servos : Held(before[s], cal[s])
  BY <1>1, NeutralIsHeld
<1>3. age \in Age
  BY <1>1, ConstantFacts DEF Later, Age, Unset
<1>4. servo' = Updated(aimed, age) /\ UNCHANGED <<cal, nvs, web, saves>>
  BY DEF Move
<1>5. /\ since' \in Age /\ since' < Refresh /\ last'.kind \in {"moved", "forced"}
      /\ last' \in [kind : {"boot", "neutral", "calibrated", "moved", "forced"}, owner : Owner,
                    commands : [Servos -> Int], dt : Nat, kept : Age]
  <2>1. last.kept \in Age
    BY DEF Inv, ServoTypeOK
  <2>2. Later(last.kept, dt) \in Age /\ 0 \in Age /\ 0 < Refresh
    BY <1>1, <2>1, AgesGrow, ConstantFacts
  <2> HIDE DEF age
  <2>3. since' = (IF age < Refresh THEN age ELSE 0)
    BY DEF Move, age
  <2> QED
    BY <1>1, <1>3, <2>2, <2>3 DEF Move
<1> HIDE DEF before
<1>6. /\ aimed \in [Servos -> Position]
      /\ \A s \in Servos : Held(aimed[s], cal[s]) /\ aimed[s].us = before[s].us
  BY <1>1, <1>2, TargetedIsHeld
<1> HIDE DEF aimed, age
<1>7. age \in Nat
  BY <1>3, ConstantFacts DEF Age
<1>8. /\ servo' \in [Servos -> Position]
      /\ \A s \in Servos :
           /\ Held(servo'[s], cal[s])
           /\ servo'[s].us - aimed[s].us \in -(SlewRate * age) .. SlewRate * age
  BY <1>1, <1>4, <1>6, <1>7, UpdatedIsHeld
<1>9. UnderWay'
  BY <1>8, MoveGoesOn DEF Position
<1>10. Inv'
  BY <1>1, <1>4, <1>5, <1>8, <1>9 DEF Inv, ServoTypeOK, Position
<1>11. ASSUME NEW s \in Servos
       PROVE  before[s].us = IF forced THEN cal[s].neutral ELSE servo[s].us
  BY DEF before, NeutralOf
<1> QED
  BY <1>6, <1>8, <1>10, <1>11 DEF age

LEMMA StepPreserves == Inv /\ [ServoNext]_servoVars => Inv'
<1> SUFFICES ASSUME Inv, [ServoNext]_servoVars PROVE Inv'
  OBVIOUS
<1> USE DEF Inv, ServoTypeOK
<1>1. CASE UNCHANGED servoVars
  BY <1>1 DEF servoVars, UnderWay, Used, Asked
<1>2. ASSUME NEW dt \in Ticks, NEW o \in Owner, NEW c \in Commands, NEW i \in BOOLEAN,
             Move(dt, o, c, i)
      PROVE  Inv'
  BY <1>2, MoveSteps
<1>3. ASSUME NEW dt \in Ticks, Neutral(dt) PROVE Inv'
  <2>1. dt \in Nat /\ Later(since, dt) \in Age
    BY ConstantFacts DEF Later, Age, Unset
  <2>2. /\ servo' \in [Servos -> Position]
        /\ \A s \in Servos : Held(servo'[s], cal[s])
    BY <1>3, NeutralIsHeld DEF Neutral
  <2>3. /\ last' \in [kind : {"boot", "neutral", "calibrated", "moved", "forced"}, owner : Owner,
                      commands : [Servos -> Int], dt : Nat, kept : Age]
        /\ last'.kind = "neutral"
    BY <1>3, <2>1, AgesGrow DEF Neutral
  <2> QED
    BY <1>3, <2>1, <2>2, <2>3 DEF Neutral, Position, UnderWay
<1>4. ASSUME NEW t \in Servos, NEW new \in [Servos -> Calibration],
             \A s \in Servos : Accepted(new[s]), Calibrated(t, new)
      PROVE  /\ cal' \in [Servos -> Calibration]
             /\ \A s \in Servos : Accepted(cal'[s]) /\ Held(servo'[s], cal'[s])
             /\ last' \in [kind : {"boot", "neutral", "calibrated", "moved", "forced"},
                           owner : Owner, commands : [Servos -> Int], dt : Nat, kept : Age]
             /\ last'.kind = "calibrated"
  <2>1. /\ cal' \in [Servos -> Calibration]
        /\ \A s \in Servos : Accepted(cal'[s])
    BY <1>4 DEF Calibrated
  <2>2. \A s \in Servos : Held(servo'[s], cal'[s])
    BY <1>4, <2>1, EndsStay DEF Calibrated, Position
  <2>3. /\ last' \in [kind : {"boot", "neutral", "calibrated", "moved", "forced"},
                      owner : Owner, commands : [Servos -> Int], dt : Nat, kept : Age]
        /\ last'.kind = "calibrated"
    BY <1>4, AgesGrow DEF Calibrated
  <2> QED
    BY <2>1, <2>2, <2>3
<1>5. ASSUME NEW new \in Calibrations, CalibrateLeft(new) PROVE Inv'
  <2>1. new \in [Servos -> Calibration] /\ \A s \in Servos : Accepted(new[s])
    BY ServoAssumption
  <2>2. saves' \in 0 .. MaxSaves
    BY <1>5, ConstantFacts DEF CalibrateLeft
  <2>3. 1 \in Servos
    BY DEF Servos
  <2>4. Calibrated(1, new) /\ web' = [step |-> "left", new |-> new]
    BY <1>5 DEF CalibrateLeft
  <2> HIDE DEF Servos
  <2> QED
    BY <1>4, <2>1, <2>2, <2>3, <2>4 DEF Calibrated, UnderWay
<1>6. CASE CalibrateRight
  <2>1. web.new \in [Servos -> Calibration] /\ \A s \in Servos : Accepted(web.new[s])
    OBVIOUS
  <2>2. 2 \in Servos
    BY DEF Servos
  <2>3. Calibrated(2, web.new) /\ web' = [web EXCEPT !.step = "right"] /\ UNCHANGED saves
    BY <1>6 DEF CalibrateRight
  <2> HIDE DEF Servos
  <2>4. /\ web' \in [step : {"idle", "left", "right", "saved"}, new : [Servos -> Calibration]]
        /\ web'.new = web.new
    BY <2>3
  <2> QED
    BY <1>4, <2>1, <2>2, <2>3, <2>4 DEF Calibrated, UnderWay
<1>7. ASSUME NEW opened \in BOOLEAN, SaveCalibration(opened) PROVE Inv'
  <2>1. /\ web' \in [step : {"idle", "left", "right", "saved"}, new : [Servos -> Calibration]]
        /\ web'.new = web.new
    BY <1>7 DEF SaveCalibration
  <2>2. /\ nvs' \in [Servos -> Calibration]
        /\ \A s \in Servos : SameEnds(nvs'[s])
    BY <1>7 DEF SaveCalibration, Accepted, SameEnds
  <2>3. UnderWay'
    BY <1>7 DEF SaveCalibration, UnderWay, Used, Asked
  <2> QED
    BY <1>7, <2>1, <2>2, <2>3 DEF SaveCalibration
<1>8. CASE NeutralFromWeb
  <2>1. /\ servo' \in [Servos -> Position]
        /\ \A s \in Servos : Held(servo'[s], cal[s])
    BY <1>8, NeutralIsHeld DEF NeutralFromWeb
  <2>2. /\ last' \in [kind : {"boot", "neutral", "calibrated", "moved", "forced"},
                      owner : Owner, commands : [Servos -> Int], dt : Nat, kept : Age]
        /\ last'.kind = "neutral"
    BY <1>8, AgesGrow DEF NeutralFromWeb
  <2>3. /\ web' \in [step : {"idle", "left", "right", "saved"}, new : [Servos -> Calibration]]
        /\ web'.new = web.new
    BY <1>8 DEF NeutralFromWeb
  <2> QED
    BY <1>8, <2>1, <2>2, <2>3 DEF NeutralFromWeb, Position, UnderWay
<1>9. ASSUME NEW store \in [Servos -> Calibration], \A s \in Servos : SameEnds(store[s]),
             NEW opened \in BOOLEAN, Booted(store, opened)
      PROVE  Inv'
  <2>1. /\ cal' \in [Servos -> Calibration]
        /\ \A s \in Servos : Accepted(cal'[s])
    BY <1>9, RestoredIsAccepted DEF Booted
  <2>2. servo' = NeutralOf(cal')
    BY <1>9 DEF Booted
  <2>3. /\ servo' \in [Servos -> Position]
        /\ \A s \in Servos : Held(servo'[s], cal'[s])
    BY <2>1, <2>2, NeutralIsHeld
  <2>4. /\ last' \in [kind : {"boot", "neutral", "calibrated", "moved", "forced"},
                      owner : Owner, commands : [Servos -> Int], dt : Nat, kept : Age]
        /\ last'.kind = "boot" /\ since' \in Age
        /\ nvs' \in [Servos -> Calibration] /\ \A s \in Servos : SameEnds(nvs'[s])
    BY <1>9, AgesGrow DEF Booted
  <2>5. /\ web' \in [step : {"idle", "left", "right", "saved"}, new : [Servos -> Calibration]]
        /\ web'.new = web.new /\ saves' = saves
    BY <1>9 DEF Booted
  <2> QED
    BY <2>1, <2>3, <2>4, <2>5 DEF Position, UnderWay
<1>10. CASE Restart
  BY <1>9, <1>10 DEF Restart
<1>11. ASSUME NEW k \in 0 .. 2 * 5 - 1, LosePowerWhileSaving(k) PROVE Inv'
  <2>1. /\ Mixed(nvs, cal, k) \in [Servos -> Calibration]
        /\ \A s \in Servos : SameEnds(Mixed(nvs, cal, k)[s])
    BY MixedIsTyped DEF Accepted, SameEnds
  <2> QED
    BY <1>9, <1>11, <2>1 DEF LosePowerWhileSaving
<1> QED
  BY <1>1, <1>2, <1>3, <1>5, <1>6, <1>7, <1>8, <1>10, <1>11 DEF ServoNext, Iterate

\* The inductive invariant: pulses and targets lie between ends that are ordered.
THEOREM Invariance == ServoSpec => []Inv
  BY InitHolds, StepPreserves, PTL DEF ServoSpec

\* Types of the controller and of its store.
THEOREM TypeCorrect == ServoSpec => []ServoTypeOK
<1>1. Inv => ServoTypeOK
  BY DEF Inv
<1> QED
  BY <1>1, Invariance, PTL

\* No pulse leaves the ends of its servo, whoever commanded it and however far a
\* calibration is (commandToUs, applySlewLimit, emergencyNeutral, handleConfigPost).
THEOREM EndsHold == ServoSpec => []PulsesWithinEnds
<1>1. Inv => PulsesWithinEnds
  <2> SUFFICES ASSUME Inv, NEW s \in Servos
               PROVE  servo[s].us \in cal[s].min .. cal[s].max /\ servo[s].us \in Lowest .. Highest
    BY DEF PulsesWithinEnds
  <2>1. cal[s].min \in Int /\ cal[s].max \in Int /\ servo[s].us \in Int
    BY DEF Inv, ServoTypeOK, Calibration
  <2> QED
    BY <2>1, ConstantFacts, DefaultEnds DEF Inv, Held, Accepted
<1> QED
  BY <1>1, Invariance, PTL

\* An owner that keeps its command has it after the time the slew rate takes from end
\* to end, and one refresh (setServoCommandsWithLimit, applySlewLimit, update).
THEOREM KeptCommandsArrive == ServoSpec => []CommandArrives
<1>1. Inv => CommandArrives
  <2> SUFFICES ASSUME Inv, last.kind = "moved",
                      SlewRate * (last.kept - Refresh) >= Highest - Lowest, NEW s \in Servos
               PROVE  servo[s].us = Asked(last.commands, last.owner)[s]
    BY DEF CommandArrives
  <2>1. /\ servo[s].us \in Int /\ servo[s].target \in Int
        /\ servo[s].target = Asked(last.commands, last.owner)[s]
        /\ last.kept - Refresh \in Int /\ Used \in Int /\ last.kept - Refresh <= Used
    BY ConstantFacts DEF Inv, ServoTypeOK, UnderWay, Used, Age
  <2> DEFINE way == Way(servo[s].us, servo[s].target)
             enough == SlewRate * (last.kept - Refresh)
             used == SlewRate * Used
  <2>2. way = 0 \/ way + used <= Highest - Lowest
    BY DEF Inv, UnderWay
  <2>3. way \in Nat /\ (way = 0 => servo[s].us = servo[s].target)
    BY <2>1, WayIsBounded
  <2>4. enough <= used /\ enough \in Int /\ used \in Int
    BY <2>1, Monotone
  <2>5. enough >= Highest - Lowest
    OBVIOUS
  <2> HIDE DEF way, enough, used
  <2>6. way = 0
    BY <2>2, <2>3, <2>4, <2>5, ConstantFacts
  <2> QED
    BY <2>1, <2>3, <2>6
<1> QED
  BY <1>1, Invariance, PTL

\* No owner moves a pulse faster than the slew rate allows since the previous move,
\* counted from neutral where something forced neutral in between (applySlewLimit,
\* update, emergencyNeutral).
THEOREM Gradually == ServoSpec => MovesAreGradual
<1> DEFINE gradual == UNCHANGED web /\ {last.kind, last'.kind} \subseteq {"moved", "forced"} =>
                        \A s \in Servos :
                          Gradual(IF last'.kind = "forced" THEN cal[s].neutral ELSE servo[s].us,
                                  servo'[s].us, last'.dt)
<1>1. Inv /\ [ServoNext]_servoVars => [gradual]_servoVars
  <2> SUFFICES ASSUME Inv, ServoNext, UNCHANGED web,
                      last.kind \in {"moved", "forced"}, last'.kind \in {"moved", "forced"},
                      NEW s \in Servos
               PROVE  Gradual(IF last'.kind = "forced" THEN cal[s].neutral ELSE servo[s].us,
                              servo'[s].us, last'.dt)
    OBVIOUS
  <2>1. last \in [kind : {"boot", "neutral", "calibrated", "moved", "forced"}, owner : Owner,
                  commands : [Servos -> Int], dt : Nat, kept : Age]
        /\ web \in [step : {"idle", "left", "right", "saved"}, new : [Servos -> Calibration]]
    BY DEF Inv, ServoTypeOK
  <2>2. PICK dt \in Ticks, o \in Owner, c \in Commands, f \in BOOLEAN : Move(dt, o, c, f)
    BY <2>1 DEF ServoNext, Iterate, Neutral, Restart, Booted, Calibrated, CalibrateLeft,
           CalibrateRight, SaveCalibration, NeutralFromWeb, LosePowerWhileSaving
  <2>3. last'.dt = dt /\ (last'.kind = "forced" <=> f)
    BY <2>2 DEF Move
  <2> DEFINE age == Later(since, dt)
             from == IF f THEN cal[s].neutral ELSE servo[s].us
  <2>4. since \in Age /\ since < Refresh /\ dt \in Nat
    BY ConstantFacts DEF Inv, ServoTypeOK
  <2>5. age \in Nat /\ dt + Refresh \in Nat /\ age <= dt + Refresh
    BY <2>4, ConstantFacts DEF Later, Age, Unset
  <2>6. servo'[s].us - from \in -(SlewRate * age) .. SlewRate * age
    BY <2>2, MoveSteps
  <2>7. servo'[s].us \in Int /\ from \in Int
    BY <2>2, MoveSteps DEF Inv, ServoTypeOK, Calibration
  <2> HIDE DEF age, from
  <2> DEFINE short == SlewRate * age  long == SlewRate * (dt + Refresh)
  <2>8. short <= long /\ short \in Nat /\ long \in Nat
    BY <2>5, LonglyBounded, ConstantFacts
  <2> HIDE DEF short, long
  <2>9. servo'[s].us - from \in -short .. short
    BY <2>6 DEF short
  <2>10. servo'[s].us - from \in -long .. long
    BY <2>7, <2>8, <2>9
  <2> QED
    BY <2>3, <2>10 DEF Gradual, long, from
<1> QED
  BY <1>1, Invariance, PTL DEF ServoSpec, MovesAreGradual
=============================================================================
