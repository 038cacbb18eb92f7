---------------------------- MODULE SensorsProofs ----------------------------
(***************************************************************************)
(* Theorems about the sensors, for every deadline, grace and limit, and      *)
(* whatever is read in whatever surroundings.                               *)
(*                                                                          *)
(* What is published was judged by the drivers in earlier updates: the       *)
(* invariant says what a driver that calls its reading valid has behind it,  *)
(* a baseline that is its reading and, for the GPS, a whole streak.          *)
(***************************************************************************)
EXTENDS Sensors, TLAPS

ImuType  == [rotated : BOOLEAN, valid : BOOLEAN, age : Timer]
BaroType == [valid : BOOLEAN, alt : Int, base : SUBSET Int, failures : 0 .. FailureLimit,
             warm : 0 .. Warmups, tried : Age, age : Timer]
GpsType  == [valid : BOOLEAN, streak : 0 .. FixCount, pos : Int, base : SUBSET Int,
             heard : Int, fix : Timer, nmea : Timer, startup : Age, attempt : Age]

\* What stands behind a reading a driver calls valid.
SoundImu(i)  == i.valid => i.rotated /\ i.age # Unset
SoundBaro(b) == b.valid => b.base = {b.alt} /\ b.age # Unset
BasedGps(g)  == g.valid => g.base = {g.pos} /\ g.streak = FixCount
SoundGps(g)  == BasedGps(g) /\ (g.valid => FixUsable(g))

Inv ==
  /\ SensorsTypeOK
  /\ SoundImu(imu) /\ SoundBaro(baro) /\ SoundGps(gps)
  /\ valid.imu => imu.valid /\ Fresh(imu.age)
  /\ valid.baro => baro.valid /\ Fresh(baro.age)
  /\ valid.gps => gps.valid

-----------------------------------------------------------------------------
(* Time.                                                                    *)

LEMMA ConstantFacts ==
  /\ {SensorTimeout, Warmups, FailureLimit, Cooldown, FixCount, NmeaTimeout, FixTimeout,
      SilenceGrace, RetryInterval, PowerCycle} \subseteq Nat \ {0}
  /\ PowerCycle \in Age /\ AgeCap \in Nat /\ MaxStep \in Nat /\ Ticks \subseteq Nat
  BY SensorsAssumption, AgeCapIsNat DEF Age

LEMMA TimerFacts ==
  /\ Unset \in Timer /\ 0 \in Timer /\ 0 \in Age /\ AgeCap \in Age /\ Age \subseteq Timer
  /\ \A t \in Timer, dt \in Nat :
       /\ Later(t, dt) \in Timer /\ (t # Unset => Later(t, dt) # Unset)
       /\ t \in Age => Later(t, dt) \in Age
  BY AgeCapIsNat DEF Timer, Age, Unset, Later

LEMMA ImuAges ==
  ASSUME NEW i \in ImuType, NEW dt \in Nat
  PROVE  /\ ImuAged(i, dt) \in ImuType
         /\ SoundImu(i) => SoundImu(ImuAged(i, dt))
<1>1. Later(i.age, dt) \in Timer /\ (i.age # Unset => Later(i.age, dt) # Unset)
  BY TimerFacts DEF ImuType
<1> QED
  BY <1>1 DEF ImuAged, ImuType, SoundImu

LEMMA BaroAges ==
  ASSUME NEW b \in BaroType, NEW dt \in Nat
  PROVE  /\ BaroAged(b, dt) \in BaroType
         /\ SoundBaro(b) => SoundBaro(BaroAged(b, dt))
         /\ \A f \in {"valid", "alt", "base", "warm"} : BaroAged(b, dt)[f] = b[f]
         /\ BaroAged(b, dt).age = Later(b.age, dt)
<1>1. /\ Later(b.age, dt) \in Timer /\ (b.age # Unset => Later(b.age, dt) # Unset)
      /\ Later(b.tried, dt) \in Age
  BY TimerFacts DEF BaroType
<1> DEFINE aged == [b EXCEPT !.age = Later(b.age, dt), !.tried = Later(b.tried, dt)]
<1>2. BaroAged(b, dt) = aged
  BY DEF BaroAged
<1>3. aged \in BaroType
  BY <1>1 DEF BaroType
<1>4. /\ aged.valid = b.valid /\ aged.alt = b.alt /\ aged.base = b.base /\ aged.warm = b.warm
      /\ aged.age = Later(b.age, dt)
  BY DEF BaroType
<1> HIDE DEF aged
<1> QED
  BY <1>1, <1>2, <1>3, <1>4 DEF SoundBaro

LEMMA GpsAges ==
  ASSUME NEW g \in GpsType, NEW dt \in Nat
  PROVE  /\ GpsAged(g, dt) \in GpsType
         /\ BasedGps(g) => BasedGps(GpsAged(g, dt))
         /\ \A f \in {"valid", "pos", "base"} : GpsAged(g, dt)[f] = g[f]
<1>1. /\ Later(g.fix, dt) \in Timer /\ Later(g.nmea, dt) \in Timer
      /\ Later(g.startup, dt) \in Age /\ Later(g.attempt, dt) \in Age
  BY TimerFacts DEF GpsType
<1> DEFINE aged == [g EXCEPT !.fix = Later(g.fix, dt), !.nmea = Later(g.nmea, dt),
                             !.startup = Later(g.startup, dt),
                             !.attempt = Later(g.attempt, dt)]
<1>2. GpsAged(g, dt) = aged
  BY DEF GpsAged
<1>3. aged \in GpsType
  BY <1>1 DEF GpsType
<1>4. /\ aged.valid = g.valid /\ aged.pos = g.pos /\ aged.base = g.base
      /\ aged.streak = g.streak
  BY DEF GpsType
<1> HIDE DEF aged
<1> QED
  BY <1>2, <1>3, <1>4 DEF BasedGps

-----------------------------------------------------------------------------
(* The drivers.                                                             *)

LEMMA ImuSound ==
  ASSUME NEW i \in ImuType, NEW reading \in ImuReading, SoundImu(i)
  PROVE  ImuUpdated(i, reading) \in ImuType /\ SoundImu(ImuUpdated(i, reading))
  BY TimerFacts DEF ImuUpdated, ImuType, SoundImu, ImuReading, Unset

LEMMA DistanceToSelf == ASSUME NEW a \in Int PROVE Distance(a, a) <= MaxStep
  BY ConstantFacts DEF Distance

\* A bus error keeps the reading.
LEMMA BusErrorKeeps ==
  ASSUME NEW b \in BaroType, NEW reading \in BaroReading
  PROVE  /\ BusError(b, reading) \in BaroType
         /\ \A f \in {"valid", "alt", "base", "age"} : BusError(b, reading)[f] = b[f]
<1> DEFINE failures == IF b.failures < FailureLimit THEN b.failures + 1 ELSE b.failures
           tries == failures = FailureLimit /\ b.tried >= Cooldown
           recovers == tries /\ reading.kind = "answered"
           f == IF recovers THEN 0 ELSE failures
           w == IF recovers THEN Warmups ELSE b.warm
           t == IF tries THEN 0 ELSE b.tried
           next == [b EXCEPT !.failures = f, !.warm = w, !.tried = t]
<1>1. BusError(b, reading) = next
  BY DEF BusError
<1>2. f \in 0 .. FailureLimit /\ w \in 0 .. Warmups /\ t \in Age
  BY ConstantFacts, TimerFacts DEF BaroType
<1> HIDE DEF f, w, t
<1>3. next \in BaroType
  BY <1>2 DEF BaroType
<1>4. next.valid = b.valid /\ next.alt = b.alt /\ next.base = b.base /\ next.age = b.age
  BY DEF BaroType
<1> HIDE DEF next
<1> QED
  BY <1>1, <1>3, <1>4

\* A conversion that is accepted becomes the baseline.
LEMMA ConversionSound ==
  ASSUME NEW b \in BaroType, NEW reading \in BaroReading
  PROVE  LET c == Conversion(b, reading) IN
         /\ c \in BaroType
         /\ c.valid => /\ c.base = {c.alt} /\ c.age = 0
                       /\ c.alt = reading.alt /\ Plausible(b.base, reading.alt)
         /\ ~c.valid => \/ b.warm > 0
                        \/ reading.kind # "altitude"
                        \/ ~Plausible(b.base, reading.alt)
<1> DEFINE ok == reading.kind = "altitude" /\ Plausible(b.base, reading.alt)
           read == reading.alt
           seen == [b EXCEPT !.failures = 0, !.alt = read]
           c == Conversion(b, reading)
<1>1. read \in Int /\ 0 \in 0 .. FailureLimit /\ b.warm \in 0 .. Warmups /\ Warmups \in Nat /\ FailureLimit \in Nat
      /\ b.base \in SUBSET Int
  <2>1. Warmups \in Nat /\ FailureLimit \in Nat /\ 0 \in 0 .. FailureLimit
    BY ConstantFacts
  <2>2. b.warm \in 0 .. Warmups /\ b.base \in SUBSET Int
    BY DEF BaroType
  <2>3. read \in Int
    BY DEF BaroReading
  <2> QED
    BY <2>1, <2>2, <2>3
<1>2. seen \in BaroType /\ seen.warm = b.warm /\ seen.base = b.base /\ seen.alt = reading.alt
  <2> HIDE DEF read, ok
  <2>1. seen \in BaroType /\ seen.warm = b.warm /\ seen.base = b.base /\ seen.alt = read
    BY <1>1 DEF BaroType
  <2> QED
    BY <2>1 DEF read
<1>3. c = IF b.warm > 0 THEN [seen EXCEPT !.warm = seen.warm - 1, !.valid = FALSE]
          ELSE IF ok THEN [seen EXCEPT !.valid = TRUE, !.base = {reading.alt}, !.age = 0]
          ELSE [seen EXCEPT !.valid = FALSE,
                            !.alt = IF b.base = {} THEN seen.alt ELSE CHOOSE a \in b.base : TRUE]
  BY DEF Conversion
<1> HIDE DEF seen, c
<1>4. CASE b.warm > 0
  <2>1. seen.warm - 1 \in 0 .. Warmups
    BY <1>1, <1>2, <1>4
  <2>2. c = [seen EXCEPT !.warm = seen.warm - 1, !.valid = FALSE]
    BY <1>3, <1>4
  <2>3. c \in BaroType /\ c.valid = FALSE
    BY <1>2, <2>1, <2>2 DEF BaroType
  <2> QED
    BY <1>4, <2>3 DEF c
<1>5. CASE ~(b.warm > 0) /\ ok
  <2>1. c = [seen EXCEPT !.valid = TRUE, !.base = {reading.alt}, !.age = 0]
    BY <1>3, <1>5
  <2>2. {reading.alt} \in SUBSET Int
    BY <1>1
  <2>3. c \in BaroType /\ c.valid = TRUE /\ c.base = {reading.alt} /\ c.age = 0
        /\ c.alt = reading.alt
    BY <1>2, <2>1, <2>2, TimerFacts DEF BaroType
  <2> QED
    BY <1>5, <2>3 DEF c
<1>6. CASE ~(b.warm > 0) /\ ~ok
  <2> DEFINE alt == IF b.base = {} THEN seen.alt ELSE CHOOSE a \in b.base : TRUE
  <2>1. alt \in Int
    BY <1>1, <1>2
  <2>2. c = [seen EXCEPT !.valid = FALSE, !.alt = alt]
    BY <1>3, <1>6
  <2> HIDE DEF alt
  <2>3. c \in BaroType /\ c.valid = FALSE
    BY <1>2, <2>1, <2>2 DEF BaroType
  <2> QED
    BY <1>6, <2>3 DEF c
<1> QED
  BY <1>4, <1>5, <1>6

LEMMA BaroSound ==
  ASSUME NEW b \in BaroType, NEW reading \in BaroReading, SoundBaro(b)
  PROVE  LET c == BaroUpdated(b, reading) IN
         /\ c \in BaroType /\ SoundBaro(c)
         /\ b.valid /\ c.valid => Distance(b.alt, c.alt) <= MaxStep
<1> DEFINE c == BaroUpdated(b, reading)
<1>1. b.alt \in Int
  BY DEF BaroType
<1>2. CASE reading.kind = "none"
  <2>1. c = b
    BY <1>2 DEF BaroUpdated
  <2> QED
    BY <1>1, <2>1, DistanceToSelf
<1>3. CASE reading.kind \in {"error", "answered"}
  <2>1. c = BusError(b, reading)
    BY <1>3 DEF BaroUpdated
  <2> HIDE DEF c
  <2>2. c \in BaroType /\ c.valid = b.valid /\ c.alt = b.alt /\ c.base = b.base /\ c.age = b.age
    BY <2>1, BusErrorKeeps
  <2> QED
    BY <1>1, <2>2, DistanceToSelf DEF SoundBaro, c
<1>4. CASE reading.kind \notin {"none", "error", "answered"}
  <2>1. c = Conversion(b, reading)
    BY <1>4 DEF BaroUpdated
  <2> HIDE DEF c
  <2>2. /\ c \in BaroType
        /\ c.valid => /\ c.base = {c.alt} /\ c.age = 0
                      /\ c.alt = reading.alt /\ Plausible(b.base, reading.alt)
    BY <2>1, ConversionSound
  <2>3. b.valid /\ c.valid => Distance(b.alt, c.alt) <= MaxStep
    BY <2>2 DEF SoundBaro, Plausible
  <2> QED
    BY <2>2, <2>3 DEF SoundBaro, Unset, c
<1> QED
  BY <1>2, <1>3, <1>4

\* A location that is accepted becomes the baseline, whole streaks make it valid.
LEMMA SentenceSound ==
  ASSUME NEW g \in GpsType, NEW reading \in GpsReading, reading.kind # "none"
  PROVE  LET h == Sentence(g, reading) IN
         /\ h \in GpsType /\ SoundGps(h)
         /\ h.valid => Plausible(g.base, h.pos)
<1> DEFINE fix == IF reading.kind = "location" THEN 0 ELSE g.fix
           heard == IF reading.kind = "location" THEN reading.pos ELSE g.heard
           h == [g EXCEPT !.nmea = 0, !.fix = fix, !.heard = heard]
           plausible == h.fix \in 0 .. FixTimeout - 1 /\ reading.good /\ Plausible(g.base, h.heard)
           streak == Lengthened(g.streak)
           e == Sentence(g, reading)
<1>1. /\ fix \in Timer /\ heard \in Int /\ streak \in 0 .. FixCount
      /\ FixCount \in Nat \ {0} /\ NmeaTimeout \in Nat /\ FixTimeout \in Nat /\ g.base \in SUBSET Int
  BY ConstantFacts, TimerFacts DEF GpsReading, GpsType, Lengthened
<1> HIDE DEF fix, heard
<1>2. /\ h \in GpsType /\ h.nmea = 0 /\ h.fix = fix /\ h.heard = heard
  BY <1>1, TimerFacts DEF GpsType
<1>3. e = IF plausible
          THEN [h EXCEPT !.pos = h.heard, !.base = {h.heard}, !.streak = streak,
                         !.valid = streak = FixCount]
          ELSE [h EXCEPT !.pos = IF g.base = {} THEN h.heard ELSE CHOOSE p \in g.base : TRUE,
                         !.streak = 0, !.valid = FALSE]
  BY DEF Sentence, fix, heard
<1> HIDE DEF h, e, streak
<1>4. CASE plausible
  <2>1. (streak = FixCount) \in BOOLEAN /\ {h.heard} \in SUBSET Int
    BY <1>1, <1>2
  <2>2. e = [h EXCEPT !.pos = h.heard, !.base = {h.heard}, !.streak = streak,
                      !.valid = streak = FixCount]
    BY <1>3, <1>4
  <2>3. /\ e \in GpsType /\ e.pos = h.heard /\ e.base = {h.heard} /\ e.streak = streak
        /\ e.valid = (streak = FixCount) /\ e.nmea = h.nmea /\ e.fix = h.fix
    BY <1>1, <1>2, <2>1, <2>2 DEF GpsType
  <2>4. e.nmea \in 0 .. NmeaTimeout /\ e.fix \in 0 .. FixTimeout - 1
    BY <1>1, <1>2, <1>4, <2>3
  <2> QED
    BY <1>4, <2>3, <2>4 DEF SoundGps, BasedGps, FixUsable, e
<1>5. CASE ~plausible
  <2> DEFINE pos == IF g.base = {} THEN h.heard ELSE CHOOSE p \in g.base : TRUE
  <2>1. pos \in Int /\ 0 \in 0 .. FixCount
    BY <1>1, <1>2
  <2>2. e = [h EXCEPT !.pos = pos, !.streak = 0, !.valid = FALSE]
    BY <1>3, <1>5
  <2> HIDE DEF pos
  <2>3. e \in GpsType /\ e.valid = FALSE
    BY <1>2, <2>1, <2>2 DEF GpsType
  <2> QED
    BY <2>3 DEF SoundGps, BasedGps, e
<1> QED
  BY <1>4, <1>5

LEMMA PowerCycledSound ==
  ASSUME NEW g \in GpsType
  PROVE  /\ PowerCycled(g) \in GpsType /\ ~PowerCycled(g).valid
         /\ PowerCycled(g).startup = 0
<1>1. FALSE \in BOOLEAN /\ 0 \in 0 .. FixCount /\ Unset \in Timer /\ 0 \in Age /\ PowerCycle \in Age
  BY ConstantFacts, TimerFacts
<1> QED
  BY <1>1 DEF PowerCycled, GpsType

LEMMA InvalidatedSound ==
  ASSUME NEW g \in GpsType, BasedGps(g)
  PROVE  /\ InvalidateStaleFix(g) \in GpsType /\ SoundGps(InvalidateStaleFix(g))
         /\ InvalidateStaleFix(g).valid => g.valid /\ InvalidateStaleFix(g).pos = g.pos
         /\ RecoveryDue(InvalidateStaleFix(g)) <=> RecoveryDue(g)
<1>1. CASE FixUsable(g)
  BY <1>1 DEF InvalidateStaleFix, SoundGps
<1>2. CASE ~FixUsable(g)
  <2> DEFINE h == [g EXCEPT !.valid = FALSE, !.streak = 0]
  <2>1. InvalidateStaleFix(g) = h
    BY <1>2 DEF InvalidateStaleFix
  <2>2. 0 \in 0 .. FixCount
    BY ConstantFacts
  <2>3. /\ h \in GpsType /\ h.valid = FALSE /\ h.nmea = g.nmea /\ h.startup = g.startup
        /\ h.attempt = g.attempt
    BY <2>2 DEF GpsType
  <2> HIDE DEF h
  <2> QED
    BY <2>1, <2>3 DEF SoundGps, BasedGps, RecoveryDue
<1> QED
  BY <1>1, <1>2

LEMMA GpsSound ==
  ASSUME NEW g \in GpsType, NEW reading \in GpsReading, BasedGps(g)
  PROVE  LET h == GpsUpdated(g, reading) IN
         /\ h \in GpsType /\ SoundGps(h)
         /\ g.valid /\ h.valid => Distance(g.pos, h.pos) <= MaxStep
         /\ reading.kind = "none" /\ RecoveryDue(g) => h.startup = 0
<1> DEFINE h == GpsUpdated(g, reading)
<1>1. CASE reading.kind # "none"
  <2>1. h = Sentence(g, reading)
    BY <1>1 DEF GpsUpdated
  <2> HIDE DEF h
  <2>2. h \in GpsType /\ SoundGps(h) /\ (h.valid => Plausible(g.base, h.pos))
    BY <1>1, <2>1, SentenceSound
  <2>3. g.valid /\ h.valid => Distance(g.pos, h.pos) <= MaxStep
    BY <2>2 DEF BasedGps, Plausible
  <2> QED
    BY <1>1, <2>2, <2>3 DEF h
<1>2. CASE reading.kind = "none"
  <2> DEFINE i == InvalidateStaleFix(g)
  <2>1. h = IF RecoveryDue(i) THEN PowerCycled(i) ELSE i
    BY <1>2 DEF GpsUpdated
  <2>2. /\ i \in GpsType /\ SoundGps(i) /\ (RecoveryDue(i) <=> RecoveryDue(g))
        /\ i.valid => g.valid /\ i.pos = g.pos
    BY InvalidatedSound
  <2>3. g.pos \in Int
    BY DEF GpsType
  <2> HIDE DEF i, h
  <2>4. CASE RecoveryDue(i)
    BY <2>1, <2>2, <2>4, PowerCycledSound DEF SoundGps, BasedGps, h
  <2>5. CASE ~RecoveryDue(i)
    <3>1. g.valid /\ h.valid => Distance(g.pos, h.pos) <= MaxStep
      BY <2>1, <2>2, <2>3, <2>5, DistanceToSelf
    <3> QED
      BY <2>1, <2>2, <2>5, <3>1 DEF h
  <2> QED
    BY <2>4, <2>5
<1> QED
  BY <1>1, <1>2

-----------------------------------------------------------------------------
(* The updates.                                                             *)

LEMMA InitHolds == SensorsInit => Inv
<1> SUFFICES ASSUME SensorsInit PROVE Inv
  OBVIOUS
<1>1. imu \in ImuType /\ SoundImu(imu)
  BY TimerFacts DEF SensorsInit, NoImu, ImuType, SoundImu
<1>2. baro \in BaroType /\ SoundBaro(baro)
  <2>1. PICK warm \in {0, Warmups} : baro = NoBaro(warm)
    BY DEF SensorsInit
  <2>2. warm \in 0 .. Warmups /\ 0 \in 0 .. FailureLimit /\ {} \in SUBSET Int
    BY ConstantFacts
  <2> QED
    BY <2>1, <2>2, TimerFacts DEF NoBaro, BaroType, SoundBaro
<1>3. gps \in GpsType /\ SoundGps(gps)
  BY TimerFacts, ConstantFacts DEF SensorsInit, NoGps, GpsType, SoundGps, BasedGps
<1>4. got \in [baro : BaroReading, gps : GpsReading, odd : BOOLEAN]
  BY DEF SensorsInit, NothingRead, BaroReading, GpsReading
<1> QED
  BY <1>1, <1>2, <1>3, <1>4
     DEF SensorsInit, Inv, SensorsTypeOK, ImuType, BaroType, GpsType

\* One update: what is valid before and after is continuous, and what a driver has
\* accepted ages by the blocking of the GPS.
LEMMA UpdateFollows ==
  ASSUME Inv, NEW dt \in Ticks, NEW i \in here.imu, NEW b \in here.baro, NEW g \in here.gps,
         Update(dt, i, b, g)
  PROVE  /\ Inv'
         /\ baro.valid /\ baro'.valid => Distance(baro.alt, baro'.alt) <= MaxStep
         /\ gps.valid /\ gps'.valid => Distance(gps.pos, gps'.pos) <= MaxStep
<1> DEFINE blocked == IF g.kind = "none" /\ RecoveryDue(GpsAged(gps, dt)) THEN PowerCycle ELSE 0
           ia == ImuAged(imu, dt)
           ba == BaroAged(baro, dt)
           ga == GpsAged(gps, dt)
<1>1. dt \in Nat /\ blocked \in Nat
  BY ConstantFacts
<1>2. i \in ImuReading /\ b \in BaroReading /\ g \in GpsReading
  BY SensorsAssumption DEF Inv, SensorsTypeOK
<1>3. imu \in ImuType /\ baro \in BaroType /\ gps \in GpsType
  BY DEF Inv, SensorsTypeOK, ImuType, BaroType, GpsType
<1>4. /\ imu' = ImuAged(ImuUpdated(ia, i), blocked)
      /\ baro' = BaroAged(BaroUpdated(ba, b), blocked)
      /\ gps' = GpsUpdated(ga, g)
      /\ valid' = [imu |-> imu'.valid /\ Fresh(imu'.age),
                   baro |-> baro'.valid /\ Fresh(baro'.age), gps |-> gps'.valid]
      /\ got' = [baro |-> b, gps |-> g, odd |-> ~got.odd] /\ here' = here
  BY DEF Update
<1> HIDE DEF blocked, ia, ba, ga
<1>5. imu' \in ImuType /\ SoundImu(imu')
  <2>1. ia \in ImuType /\ SoundImu(ia)
    BY <1>1, <1>3, ImuAges DEF ia, Inv
  <2>2. ImuUpdated(ia, i) \in ImuType /\ SoundImu(ImuUpdated(ia, i))
    BY <1>2, <2>1, ImuSound
  <2> QED
    BY <1>1, <1>4, <2>2, ImuAges
<1>6. /\ baro' \in BaroType /\ SoundBaro(baro')
      /\ baro.valid /\ baro'.valid => Distance(baro.alt, baro'.alt) <= MaxStep
  <2>1. ba \in BaroType /\ SoundBaro(ba) /\ ba.valid = baro.valid /\ ba.alt = baro.alt
    BY <1>1, <1>3, BaroAges DEF ba, Inv
  <2> DEFINE c == BaroUpdated(ba, b)
  <2>2. /\ c \in BaroType /\ SoundBaro(c)
        /\ ba.valid /\ c.valid => Distance(ba.alt, c.alt) <= MaxStep
    BY <1>2, <2>1, BaroSound
  <2> HIDE DEF c
  <2>3. /\ baro' \in BaroType /\ SoundBaro(baro')
        /\ baro'.valid = c.valid /\ baro'.alt = c.alt
    BY <1>1, <1>4, <2>2, BaroAges DEF c
  <2> QED
    BY <2>1, <2>2, <2>3
<1>7. /\ gps' \in GpsType /\ SoundGps(gps')
      /\ gps.valid /\ gps'.valid => Distance(gps.pos, gps'.pos) <= MaxStep
  <2>1. ga \in GpsType /\ BasedGps(ga) /\ ga.valid = gps.valid /\ ga.pos = gps.pos
    BY <1>1, <1>3, GpsAges DEF ga, Inv, SoundGps
  <2> QED
    BY <1>2, <1>4, <2>1, GpsSound
<1>8. got' \in [baro : BaroReading, gps : GpsReading, odd : BOOLEAN]
  BY <1>2, <1>4 DEF Inv, SensorsTypeOK
<1>9. valid' \in [imu : BOOLEAN, baro : BOOLEAN, gps : BOOLEAN]
  BY <1>4, <1>5, <1>6, <1>7 DEF ImuType, BaroType, GpsType
<1> QED
  BY <1>4, <1>5, <1>6, <1>7, <1>8, <1>9
     DEF Inv, SensorsTypeOK, ImuType, BaroType, GpsType

LEMMA StepPreserves == Inv /\ [SensorsNext]_sensorVars => Inv'
<1>1. Inv /\ UNCHANGED sensorVars => Inv'
  BY DEF Inv, SensorsTypeOK, sensorVars
<1> QED
  BY <1>1, UpdateFollows DEF SensorsNext

-----------------------------------------------------------------------------
(* The theorems.                                                            *)

\* The inductive invariant: what a driver calls valid has a baseline behind it.
THEOREM Invariance == SensorsSpec => []Inv
  BY InitHolds, StepPreserves, PTL DEF SensorsSpec

\* Types of the drivers and of what the manager publishes.
THEOREM TypeCorrect == SensorsSpec => []SensorsTypeOK
<1>1. Inv => SensorsTypeOK
  BY DEF Inv
<1> QED
  BY <1>1, Invariance, PTL

\* A valid reading was accepted, and not long ago (checkSensorHealth,
\* invalidateStaleFix).
THEOREM NothingStale == SensorsSpec => []NoStaleReading
<1>1. Inv => NoStaleReading
  BY DEF Inv, NoStaleReading, SoundImu, SoundBaro, SoundGps, BasedGps, Fresh
<1> QED
  BY <1>1, Invariance, PTL

\* Two readings that are valid one after the other are plausible neighbours
\* (validateBaro, validateGPS).
THEOREM Continuity == SensorsSpec => ReadingsAreContinuous
<1> DEFINE continuous ==
       /\ valid.baro /\ valid'.baro => Distance(baro.alt, baro'.alt) <= MaxStep
       /\ valid.gps /\ valid'.gps => Distance(gps.pos, gps'.pos) <= MaxStep
<1>1. Inv /\ Inv' /\ [SensorsNext]_sensorVars => [continuous]_sensorVars
  <2> SUFFICES ASSUME Inv, Inv', SensorsNext PROVE continuous
    OBVIOUS
  <2>1. /\ valid.baro => baro.valid
        /\ valid'.baro => baro'.valid
        /\ valid.gps => gps.valid
        /\ valid'.gps => gps'.valid
    BY DEF Inv
  <2> QED
    BY <2>1, UpdateFollows DEF SensorsNext
<1> QED
  BY <1>1, Invariance, PTL DEF SensorsSpec, ReadingsAreContinuous

\* What a barometer that stops being valid was told, and how the age of one that
\* stays valid goes on.
LEMMA BaroWithdraws ==
  ASSUME NEW b \in BaroType, NEW reading \in BaroReading, b.valid
  PROVE  LET c == BaroUpdated(b, reading) IN
         /\ ~c.valid => \/ /\ reading.kind = "altitude"
                           /\ b.warm > 0 \/ ~Plausible(b.base, reading.alt)
                        \/ reading.kind = "out of range"
         /\ c.valid => c.age \in {b.age, 0}
<1> DEFINE c == BaroUpdated(b, reading)
<1>1. CASE reading.kind = "none"
  BY <1>1 DEF BaroUpdated
<1>2. CASE reading.kind \in {"error", "answered"}
  <2>1. c = BusError(b, reading)
    BY <1>2 DEF BaroUpdated
  <2> QED
    BY <2>1, BusErrorKeeps
<1>3. CASE reading.kind \in {"altitude", "out of range"}
  <2>1. c = Conversion(b, reading)
    BY <1>3 DEF BaroUpdated
  <2> HIDE DEF c
  <2>2. /\ c.valid => c.age = 0
        /\ ~c.valid => \/ b.warm > 0
                       \/ reading.kind # "altitude"
                       \/ ~Plausible(b.base, reading.alt)
    BY <2>1, ConversionSound
  <2> QED
    BY <1>3, <2>2 DEF c
<1> QED
  BY <1>1, <1>2, <1>3 DEF BaroReading

\* A valid altitude is withdrawn for a cause: what was converted, or a deadline
\* that passed, the blocking of the GPS included; bus errors alone do not
\* (Barometer::readSensor, checkSensorHealth).
THEOREM Withdrawal == SensorsSpec => WithdrawnForCause
<1> DEFINE caused ==
       valid.baro /\ ~valid'.baro =>
         \/ got'.baro.kind = "altitude" /\ (baro.warm > 0 \/ ~Plausible(baro.base, got'.baro.alt))
         \/ got'.baro.kind = "out of range"
         \/ \E dt \in Ticks :
              baro.age + dt + (IF gps'.startup = 0 THEN PowerCycle ELSE 0) > SensorTimeout
<1>1. Inv /\ [SensorsNext]_sensorVars => [caused]_sensorVars
  <2> SUFFICES ASSUME Inv, SensorsNext, valid.baro, ~valid'.baro PROVE caused
    OBVIOUS
  <2>1. PICK dt \in Ticks, i \in here.imu, b \in here.baro, g \in here.gps :
          Update(dt, i, b, g)
    BY DEF SensorsNext
  <2> DEFINE blocked == IF g.kind = "none" /\ RecoveryDue(GpsAged(gps, dt)) THEN PowerCycle ELSE 0
             ba == BaroAged(baro, dt)
             ga == GpsAged(gps, dt)
             c == BaroUpdated(ba, b)
  <2>2. /\ dt \in Nat /\ blocked \in Nat /\ PowerCycle \in Nat /\ SensorTimeout \in Nat
        /\ b \in BaroReading /\ g \in GpsReading
    BY SensorsAssumption, ConstantFacts DEF Inv, SensorsTypeOK
  <2>3. /\ baro \in BaroType /\ gps \in GpsType /\ baro.valid /\ SoundBaro(baro)
        /\ baro.age \in Age /\ BasedGps(gps)
    BY DEF Inv, SensorsTypeOK, BaroType, GpsType, SoundBaro, SoundGps, Timer
  <2>4. /\ baro' = BaroAged(c, blocked) /\ gps' = GpsUpdated(ga, g) /\ got'.baro = b
        /\ ~(baro'.valid /\ Fresh(baro'.age))
    BY <2>1 DEF Update
  <2>5. /\ ba \in BaroType /\ SoundBaro(ba) /\ ba.valid /\ ba.warm = baro.warm
        /\ ba.base = baro.base /\ ba.age = Later(baro.age, dt)
    BY <2>2, <2>3, BaroAges
  <2>6. ga \in GpsType /\ BasedGps(ga)
    BY <2>2, <2>3, GpsAges
  <2>7. (blocked = PowerCycle /\ gps'.startup = 0) \/ blocked = 0
    <3>1. g.kind = "none" /\ RecoveryDue(ga) => gps'.startup = 0
      BY <2>2, <2>4, <2>6, GpsSound
    <3> QED
      BY <3>1
  <2> HIDE DEF blocked, ba, ga
  <2>8. c \in BaroType
    BY <2>2, <2>5, BaroSound
  <2>9. /\ ~c.valid => \/ b.kind = "altitude" /\ (ba.warm > 0 \/ ~Plausible(ba.base, b.alt))
                       \/ b.kind = "out of range"
        /\ c.valid => c.age \in {ba.age, 0}
    BY <2>2, <2>5, BaroWithdraws
  <2> HIDE DEF c
  <2>10. CASE ~c.valid
    BY <2>4, <2>5, <2>9, <2>10
  <2>11. CASE c.valid
    <3>1. baro'.valid /\ baro'.age = Later(c.age, blocked)
      BY <2>2, <2>4, <2>8, <2>11, BaroAges DEF BaroType
    <3>2. c.age \in Age /\ c.age <= baro.age + dt
      BY <2>2, <2>3, <2>5, <2>9, <2>11, ConstantFacts DEF Later, Age, Unset
    <3>3. baro'.age \in Age /\ baro'.age <= baro.age + dt + blocked
      BY <2>2, <2>3, <3>1, <3>2, ConstantFacts DEF Later, Age, Unset
    <3>4. baro'.age > SensorTimeout
      BY <2>2, <2>4, <3>1, <3>3, ConstantFacts DEF Fresh, Age
    <3>5. baro.age + dt + blocked > SensorTimeout
      BY <2>2, <2>3, <3>3, <3>4, ConstantFacts DEF Age
    <3>6. baro.age + dt + (IF gps'.startup = 0 THEN PowerCycle ELSE 0) > SensorTimeout
      BY <2>2, <2>3, <2>7, <3>5, ConstantFacts DEF Age
    <3> QED
      BY <3>6
  <2> QED
    BY <2>10, <2>11
<1> QED
  BY <1>1, Invariance, PTL DEF SensorsSpec, WithdrawnForCause
=============================================================================
