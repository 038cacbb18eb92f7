--------------------------- MODULE DropTestProofs ---------------------------
(***************************************************************************)
(* Theorems about the drop-test recorder, for every configuration, set of   *)
(* samples and pair of clocks.                                              *)
(*                                                                          *)
(* MilestonesInOrder is not inductive: a rejected landing returns to the    *)
(* state before it, which has to be one whose milestones were passed.  The  *)
(* invariant divides the controllers into the four stages of a test and says *)
(* in each what the states claim, the remembered one included.              *)
(*                                                                          *)
(* MilestonesHadEvidence compares the windows of the controller, which stay   *)
(* open when they are too wide and end with the states they belong to, with   *)
(* the runs of the history, which know of no state: as long as a window is    *)
(* within its range, the run behind it is no shorter and as wide (Witnessed). *)
(***************************************************************************)
EXTENDS DropTest, TLAPS

\* No milestone is claimed without the observation it stands for.
Claim(d, state) ==
  /\ state = "CANOPY_EVENT_SUSPECTED" => d.canopy
  /\ state = "STABLE_DESCENT_OBSERVED" => d.stable

InAir == PostRelease \ {"LANDING_CONFIRM"}

IdleTest(d) ==
  /\ ~d.recording /\ d.state \in Idle
  /\ d.canopy \/ d.stable \/ d.landed # Unset => d.confirmed # Unset

ArmedTest(d) ==
  /\ d.recording /\ d.state \in PreRelease
  /\ d.confirmed = Unset /\ d.landing = Unset /\ d.landed = Unset
  /\ ~d.canopy /\ ~d.stable

ReleasedTest(d) ==
  /\ d.recording /\ d.state \in PostRelease
  /\ d.confirmed # Unset /\ d.landed = Unset
  /\ Claim(d, d.state)
  /\ d.state = "LANDING_CONFIRM" => d.landing # Unset
  /\ d.landing # Unset => d.before \in InAir /\ Claim(d, d.before)

LandedTest(d) ==
  d.recording /\ d.state = "POST_LANDING" /\ d.confirmed # Unset /\ d.landed # Unset

Orderly(d) == IdleTest(d) \/ ArmedTest(d) \/ ReleasedTest(d) \/ LandedTest(d)

\* A recorder whose test goes on.
Going(d) == ArmedTest(d) \/ ReleasedTest(d) \/ LandedTest(d)

-----------------------------------------------------------------------------
(* What the operators of the controller return.                              *)

LEMMA ConfigFacts ==
  /\ Config.maxDuration \in Nat \ {0} /\ Config.releaseConfirm \in Nat \ {0}
  /\ Config.canopyDelay \in Nat \ {0} /\ Config.stableWindow \in Nat \ {0}
  /\ Config.landConfirm \in Nat \ {0}
  BY DropConfigAssumption DEF DropTestConfig

LEMMA TimerFacts ==
  /\ Unset \in Timer /\ 0 \in Timer /\ 0 # Unset
  BY AgeCapIsNat DEF Timer, Age, Unset

LEMMA LaterIsTimer ==
  ASSUME NEW age \in Timer, NEW dt \in Nat
  PROVE  Later(age, dt) \in Timer /\ (Later(age, dt) = Unset <=> age = Unset)
  BY AgeCapIsNat DEF Later, Timer, Age, Unset

LEMMA ComparedIsInt ==
  ASSUME NEW x \in Int, NEW y \in Int
  PROVE  Lower(x, y) \in Int /\ Higher(x, y) \in Int
  BY DEF Lower, Higher

LEMMA AgedIsOrderly ==
  ASSUME NEW d \in DropTestController, NEW dt \in Nat, Orderly(d),
         d.recording => d.armed \in 0 .. Config.maxDuration - 1
  PROVE  /\ Aged(d, dt) \in DropTestController
         /\ IdleTest(d) => Aged(d, dt) = d
         /\ ArmedTest(d) => ArmedTest(Aged(d, dt))
         /\ ReleasedTest(d) => ReleasedTest(Aged(d, dt))
         /\ LandedTest(d) => LandedTest(Aged(d, dt))
         /\ d.recording => Aged(d, dt).armed \in Nat
         /\ Aged(d, dt).canopy = d.canopy /\ Aged(d, dt).stable = d.stable
<1> DEFINE a == Aged(d, dt)
<1>1. CASE ~d.recording
  BY <1>1 DEF Aged, ArmedTest, ReleasedTest, LandedTest
<1>2. CASE d.recording
  <2>1. /\ d.onset \in Timer /\ d.confirmed \in Timer /\ d.window \in Timer
        /\ d.landing \in Timer /\ d.landed \in Timer /\ d.armed \in Nat
    BY <1>2, ConfigFacts DEF DropTestController
  <2>2. d.armed + dt \in Nat
    BY <2>1
  <2> DEFINE armed == d.armed + dt
             onset == Later(d.onset, dt)
             confirmed == Later(d.confirmed, dt)
             window == Later(d.window, dt)
             landing == Later(d.landing, dt)
             landed == Later(d.landed, dt)
  <2>3. /\ onset \in Timer /\ confirmed \in Timer /\ window \in Timer
        /\ landing \in Timer /\ landed \in Timer
        /\ confirmed = Unset <=> d.confirmed = Unset
        /\ landing = Unset <=> d.landing = Unset
        /\ landed = Unset <=> d.landed = Unset
    BY <2>1, LaterIsTimer
  <2>4. a = [d EXCEPT !.armed = armed, !.onset = onset, !.confirmed = confirmed,
                      !.window = window, !.landing = landing, !.landed = landed]
    BY <1>2 DEF Aged
  <2>5. armed \in Nat /\ armed \in Int
    BY <2>2
  <2> HIDE DEF a, armed, onset, confirmed, window, landing, landed
  <2>6. a \in DropTestController
    BY <2>3, <2>4, <2>5 DEF DropTestController
  <2>7. /\ a.recording = d.recording /\ a.state = d.state /\ a.canopy = d.canopy
        /\ a.stable = d.stable /\ a.before = d.before
        /\ a.confirmed = confirmed /\ a.landing = landing /\ a.landed = landed
        /\ a.armed = armed
    BY <2>4 DEF DropTestController
  <2>8. /\ a \in DropTestController /\ a.armed \in Nat /\ ~IdleTest(d)
        /\ a.canopy = d.canopy /\ a.stable = d.stable
    BY <1>2, <2>5, <2>6, <2>7 DEF IdleTest
  <2>9. ArmedTest(d) => ArmedTest(a)
    BY <2>3, <2>7 DEF ArmedTest
  <2>10. ReleasedTest(d) => ReleasedTest(a)
    BY <2>3, <2>7 DEF ReleasedTest, Claim
  <2>11. LandedTest(d) => LandedTest(a)
    BY <2>3, <2>7 DEF LandedTest
  <2> QED
    BY <2>8, <2>9, <2>10, <2>11 DEF a
<1> QED
  BY <1>1, <1>2

-----------------------------------------------------------------------------
(* After the release, each operator keeps the claims of the controller it is *)
(* given, and only adds observations.                                        *)

\* What a step of the descent may do to a released test.
Descends(d, e) ==
  /\ e \in DropTestController /\ ReleasedTest(e)
  /\ d.canopy => e.canopy
  /\ d.stable => e.stable
  /\ e.confirmed = d.confirmed /\ e.armed = d.armed

LEMMA FastestDescends ==
  ASSUME NEW d \in DropTestController, NEW s \in DropSample, ReleasedTest(d)
  PROVE  /\ Descends(d, Fastest(d, s)) /\ Fastest(d, s).window = d.window
         /\ Fastest(d, s).landing = d.landing
         /\ Fastest(d, s).canopy = d.canopy /\ Fastest(d, s).stable = d.stable
<1>1. CASE ~s.baro
  BY <1>1 DEF Fastest, Descends
<1>2. CASE s.baro
  <2> DEFINE fastest == Lower(d.fastest, s.vs)
  <2>1. fastest \in Int
    BY ComparedIsInt DEF DropTestController, DropSample
  <2>2. Fastest(d, s) = [d EXCEPT !.fastest = fastest]
    BY <1>2 DEF Fastest
  <2> HIDE DEF fastest
  <2>3. Fastest(d, s) \in DropTestController
    BY <2>1, <2>2 DEF DropTestController
  <2> QED
    BY <2>2, <2>3 DEF Descends, ReleasedTest, Claim, DropTestController
<1> QED
  BY <1>1, <1>2

LEMMA CanopyDescends ==
  ASSUME NEW d \in DropTestController, NEW s \in DropSample, ReleasedTest(d)
  PROVE  /\ Descends(d, Canopy(d, s)) /\ Canopy(d, s).window = d.window
         /\ Canopy(d, s).stable = d.stable /\ Canopy(d, s).landing = d.landing
         /\ d.confirmed = 0 => Canopy(d, s) = d
<1>1. CASE Canopy(d, s) = d
  BY <1>1 DEF Descends
<1>2. CASE Canopy(d, s) # d
  <2> DEFINE events == d.events \cup {"CANOPY_SIGNATURE"}
             c == Canopy(d, s)
  <2>1. d.confirmed >= Config.canopyDelay
    BY <1>2 DEF Canopy
  <2>2. c = [[d EXCEPT !.canopy = TRUE, !.state = "CANOPY_EVENT_SUSPECTED"]
               EXCEPT !.events = events]
    BY <1>2 DEF Canopy, Emit, DropTestController
  <2>3. events \in SUBSET DropTestEvent
    BY DEF DropTestController, DropTestEvent
  <2> HIDE DEF c, events
  <2>4. c \in DropTestController
    BY <2>2, <2>3 DEF DropTestController, DropTestState, PostRelease
  <2>5. /\ c.canopy /\ c.state = "CANOPY_EVENT_SUSPECTED" /\ c.recording = d.recording
        /\ c.stable = d.stable /\ c.confirmed = d.confirmed /\ c.landed = d.landed
        /\ c.landing = d.landing /\ c.before = d.before /\ c.armed = d.armed
        /\ c.window = d.window
    BY <2>2 DEF DropTestController
  <2>6. ReleasedTest(c)
    BY <2>5 DEF ReleasedTest, Claim, PostRelease
  <2>7. d.confirmed # 0
    BY <2>1, ConfigFacts
  <2> QED
    BY <2>4, <2>5, <2>6, <2>7 DEF Descends, c
<1> QED
  BY <1>1, <1>2

LEMMA StableWindowDescends ==
  ASSUME NEW d \in DropTestController, NEW s \in DropSample, ReleasedTest(d)
  PROVE  /\ Descends(d, StableWindow(d, s))
         /\ StableWindow(d, s).canopy = d.canopy
         /\ StableWindow(d, s).landing = d.landing
         /\ StableWindow(d, s).window = IF d.window = Unset THEN 0 ELSE d.window
<1> DEFINE w == StableWindow(d, s)
           window == IF d.window = Unset THEN 0 ELSE d.window
           slowVs == IF d.window = Unset THEN s.vs ELSE Higher(d.slowVs, s.vs)
           fastVs == IF d.window = Unset THEN s.vs ELSE Lower(d.fastVs, s.vs)
<1>1. slowVs \in Int /\ fastVs \in Int
  BY ComparedIsInt DEF DropTestController, DropSample
<1>2. window \in Timer
  BY TimerFacts DEF DropTestController
<1>3. w = [d EXCEPT !.window = window, !.slowVs = slowVs, !.fastVs = fastVs]
  <2>1. CASE d.window = Unset
    BY <2>1 DEF StableWindow
  <2>2. CASE d.window # Unset
    <3>1. d = [d EXCEPT !.window = d.window]
      BY DEF DropTestController
    <3> QED
      BY <2>2, <3>1 DEF StableWindow, DropTestController
  <2> QED
    BY <2>1, <2>2
<1> HIDE DEF window, slowVs, fastVs, w
<1>4. w \in DropTestController
  BY <1>1, <1>2, <1>3 DEF DropTestController
<1>5. /\ w.recording = d.recording /\ w.state = d.state /\ w.canopy = d.canopy
      /\ w.stable = d.stable /\ w.confirmed = d.confirmed /\ w.landed = d.landed
      /\ w.landing = d.landing /\ w.before = d.before /\ w.armed = d.armed
      /\ w.window = window
  BY <1>3 DEF DropTestController
<1>6. ReleasedTest(w)
  BY <1>5 DEF ReleasedTest, Claim
<1> QED
  BY <1>4, <1>5, <1>6 DEF Descends, w, window

LEMMA ObservedDescends ==
  ASSUME NEW d \in DropTestController, ReleasedTest(d)
  PROVE  /\ Descends(d, Observed(d)) /\ Observed(d).canopy = d.canopy
         /\ Observed(d).landing = d.landing
         /\ d.window = 0 => Observed(d) = d
<1>1. CASE Observed(d) = d
  BY <1>1 DEF Descends
<1>2. CASE Observed(d) # d
  <2> DEFINE events == d.events \cup {"STABLE_DESCENT"}
             o == Observed(d)
  <2>1. d.window >= Config.stableWindow
    BY <1>2 DEF Observed
  <2>2. o = [[d EXCEPT !.stable = TRUE, !.state = "STABLE_DESCENT_OBSERVED"]
               EXCEPT !.events = events]
    BY <1>2 DEF Observed, Emit, DropTestController
  <2>3. events \in SUBSET DropTestEvent
    BY DEF DropTestController, DropTestEvent
  <2> HIDE DEF o, events
  <2>4. o \in DropTestController
    BY <2>2, <2>3 DEF DropTestController, DropTestState, PostRelease
  <2>5. /\ o.stable /\ o.state = "STABLE_DESCENT_OBSERVED" /\ o.recording = d.recording
        /\ o.canopy = d.canopy /\ o.confirmed = d.confirmed /\ o.landed = d.landed
        /\ o.landing = d.landing /\ o.before = d.before /\ o.armed = d.armed
    BY <2>2 DEF DropTestController
  <2>6. ReleasedTest(o)
    BY <2>5 DEF ReleasedTest, Claim, PostRelease
  <2>7. d.window # 0
    BY <2>1, ConfigFacts
  <2> QED
    BY <2>4, <2>5, <2>6, <2>7 DEF Descends, o
<1> QED
  BY <1>1, <1>2

LEMMA StableDescends ==
  ASSUME NEW d \in DropTestController, NEW s \in DropSample, ReleasedTest(d)
  PROVE  /\ Descends(d, Stable(d, s)) /\ Stable(d, s).canopy = d.canopy
         /\ Stable(d, s).landing = d.landing
         /\ d.window = 0 => Stable(d, s).stable = d.stable
<1>1. CASE StableSample(s)
  <2> DEFINE w == StableWindow(d, s)
  <2>1. /\ Descends(d, w) /\ w.canopy = d.canopy /\ w.landing = d.landing
        /\ d.window = 0 => w.window = 0
    BY StableWindowDescends, TimerFacts
  <2>2. Stable(d, s) = Observed(w)
    BY <1>1 DEF Stable
  <2> HIDE DEF w
  <2>3. /\ Descends(w, Observed(w)) /\ Observed(w).canopy = w.canopy
        /\ Observed(w).landing = w.landing
        /\ w.window = 0 => Observed(w) = w
    BY <2>1, ObservedDescends DEF Descends
  <2>4. d.window = 0 => w.stable = d.stable
    BY StableWindowDescends DEF w, StableWindow, DropTestController
  <2> QED
    BY <2>1, <2>2, <2>3, <2>4 DEF Descends
<1>2. CASE ~StableSample(s)
  <2>1. Stable(d, s) = [d EXCEPT !.window = Unset]
    BY <1>2 DEF Stable
  <2>2. Stable(d, s) \in DropTestController
    BY <2>1, TimerFacts DEF DropTestController
  <2> QED
    BY <2>1, <2>2 DEF Descends, ReleasedTest, Claim, DropTestController
<1> QED
  BY <1>1, <1>2

\* A landing candidate is opened, or its span is widened.
LEMMA LandingWindowDescends ==
  ASSUME NEW d \in DropTestController, NEW s \in DropSample, ReleasedTest(d)
  PROVE  /\ Descends(d, LandingWindow(d, s))
         /\ LandingWindow(d, s).canopy = d.canopy /\ LandingWindow(d, s).stable = d.stable
         /\ LandingWindow(d, s).landing # Unset
         /\ d.landing = Unset => LandingWindow(d, s).landing = 0
<1> DEFINE w == LandingWindow(d, s)
<1>1. CASE d.landing = Unset
  <2> DEFINE events == d.events \cup {"LANDING_CANDIDATE"}
  <2>1. w = [[d EXCEPT !.landing = 0, !.before = d.state, !.state = "LANDING_CONFIRM",
                       !.floor = s.alt, !.ceiling = s.alt] EXCEPT !.events = events]
    BY <1>1 DEF LandingWindow, Emit, DropTestController
  <2>2. events \in SUBSET DropTestEvent
    BY DEF DropTestController, DropTestEvent
  <2>3. s.alt \in Int /\ 0 \in Timer
    BY TimerFacts DEF DropSample
  <2> HIDE DEF w, events
  <2>4. w \in DropTestController
    BY <2>1, <2>2, <2>3 DEF DropTestController, DropTestState, PostRelease
  <2>5. /\ w.state = "LANDING_CONFIRM" /\ w.landing = 0 /\ w.before = d.state
        /\ w.recording = d.recording /\ w.canopy = d.canopy /\ w.stable = d.stable
        /\ w.confirmed = d.confirmed /\ w.landed = d.landed /\ w.armed = d.armed
    BY <2>1 DEF DropTestController
  <2>6. d.state \in InAir /\ Claim(d, d.state)
    BY <1>1 DEF ReleasedTest, InAir
  <2>7. ReleasedTest(w)
    BY <2>5, <2>6, TimerFacts DEF ReleasedTest, Claim, PostRelease
  <2> QED
    BY <2>4, <2>5, <2>7, TimerFacts DEF Descends, w
<1>2. CASE d.landing # Unset
  <2> DEFINE floor == Lower(d.floor, s.alt)
             ceiling == Higher(d.ceiling, s.alt)
  <2>1. floor \in Int /\ ceiling \in Int
    BY ComparedIsInt DEF DropTestController, DropSample
  <2>2. w = [d EXCEPT !.floor = floor, !.ceiling = ceiling]
    BY <1>2 DEF LandingWindow
  <2> HIDE DEF w, floor, ceiling
  <2>3. w \in DropTestController
    BY <2>1, <2>2 DEF DropTestController
  <2>4. ReleasedTest(w)
    BY <2>2 DEF ReleasedTest, Claim, DropTestController
  <2> QED
    BY <1>2, <2>2, <2>3, <2>4 DEF Descends, w, DropTestController
<1> QED
  BY <1>1, <1>2

LEMMA ConfirmLandingLands ==
  ASSUME NEW d \in DropTestController, ReleasedTest(d)
  PROVE  /\ ConfirmLanding(d) \in DropTestController
         /\ ConfirmLanding(d) = d \/ LandedTest(ConfirmLanding(d))
         /\ d.landing = 0 => ConfirmLanding(d) = d
         /\ ConfirmLanding(d).canopy = d.canopy /\ ConfirmLanding(d).stable = d.stable
         /\ ConfirmLanding(d).armed = d.armed
<1>1. CASE ConfirmLanding(d) = d
  BY <1>1
<1>2. CASE ConfirmLanding(d) # d
  <2> DEFINE events == d.events \cup {"LANDING_CONFIRMED"}
             c == ConfirmLanding(d)
  <2>1. d.landing >= Config.landConfirm
    BY <1>2 DEF ConfirmLanding
  <2>2. c = [[d EXCEPT !.landed = 0, !.state = "POST_LANDING"] EXCEPT !.events = events]
    BY <1>2 DEF ConfirmLanding, Emit, DropTestController
  <2>3. events \in SUBSET DropTestEvent
    BY DEF DropTestController, DropTestEvent
  <2> HIDE DEF c, events
  <2>4. c \in DropTestController
    BY <2>2, <2>3, TimerFacts DEF DropTestController, DropTestState
  <2>5. /\ c.state = "POST_LANDING" /\ c.landed = 0 /\ c.recording = d.recording
        /\ c.canopy = d.canopy /\ c.stable = d.stable /\ c.confirmed = d.confirmed
        /\ c.armed = d.armed
    BY <2>2 DEF DropTestController
  <2>6. LandedTest(c)
    BY <2>5, TimerFacts DEF LandedTest, ReleasedTest
  <2>7. d.landing # 0
    BY <2>1, ConfigFacts
  <2> QED
    BY <2>4, <2>5, <2>6, <2>7 DEF c
<1> QED
  BY <1>1, <1>2

LEMMA RejectLandingDescends ==
  ASSUME NEW d \in DropTestController, ReleasedTest(d)
  PROVE  /\ Descends(d, RejectLanding(d))
         /\ RejectLanding(d).canopy = d.canopy /\ RejectLanding(d).stable = d.stable
<1>1. CASE d.landing = Unset
  BY <1>1 DEF RejectLanding, Descends
<1>2. CASE d.landing # Unset
  <2> DEFINE events == d.events \cup {"LANDING_REJECTED"}
             r == RejectLanding(d)
  <2>1. r = [[d EXCEPT !.landing = Unset, !.state = d.before] EXCEPT !.events = events]
    BY <1>2 DEF RejectLanding, Emit, DropTestController
  <2>2. events \in SUBSET DropTestEvent
    BY DEF DropTestController, DropTestEvent
  <2>3. d.before \in InAir /\ Claim(d, d.before) /\ d.before \in DropTestState
    BY <1>2 DEF ReleasedTest, DropTestController
  <2> HIDE DEF r, events
  <2>4. r \in DropTestController
    BY <2>1, <2>2, <2>3, TimerFacts DEF DropTestController
  <2>5. /\ r.state = d.before /\ r.landing = Unset /\ r.recording = d.recording
        /\ r.canopy = d.canopy /\ r.stable = d.stable /\ r.confirmed = d.confirmed
        /\ r.landed = d.landed /\ r.armed = d.armed
    BY <2>1 DEF DropTestController
  <2>6. ReleasedTest(r)
    BY <2>3, <2>5 DEF ReleasedTest, Claim, InAir
  <2> QED
    BY <2>4, <2>5, <2>6 DEF Descends, r
<1> QED
  BY <1>1, <1>2

LEMMA LandingDescends ==
  ASSUME NEW d \in DropTestController, NEW s \in DropSample, ReleasedTest(d)
  PROVE  /\ Landing(d, s) \in DropTestController
         /\ ReleasedTest(Landing(d, s)) \/ LandedTest(Landing(d, s))
         /\ d.landing = Unset => ReleasedTest(Landing(d, s))
         /\ Landing(d, s).canopy = d.canopy /\ Landing(d, s).stable = d.stable
         /\ Landing(d, s).armed = d.armed
<1>1. CASE LandingSample(s)
  <2> DEFINE w == LandingWindow(d, s)
  <2>1. /\ Descends(d, w) /\ w.canopy = d.canopy /\ w.stable = d.stable
        /\ d.landing = Unset => w.landing = 0
    BY LandingWindowDescends
  <2>2. Landing(d, s) = ConfirmLanding(w)
    BY <1>1 DEF Landing
  <2> HIDE DEF w
  <2> QED
    BY <2>1, <2>2, ConfirmLandingLands DEF Descends
<1>2. CASE ~LandingSample(s)
  BY <1>2, RejectLandingDescends DEF Landing, Descends
<1> QED
  BY <1>1, <1>2

\* A release that was confirmed in this step: no observation can follow in it.
JustReleased(d) ==
  ReleasedTest(d) /\ d.confirmed = 0 /\ d.window = 0 /\ d.landing = Unset

\* The whole descent.
LEMMA DescendDescends ==
  ASSUME NEW d \in DropTestController, NEW s \in DropSample, ReleasedTest(d)
  PROVE  /\ Descend(d, s) \in DropTestController /\ Descend(d, s).armed = d.armed
         /\ ReleasedTest(Descend(d, s)) \/ LandedTest(Descend(d, s))
         /\ d.canopy => Descend(d, s).canopy
         /\ d.stable => Descend(d, s).stable
         /\ JustReleased(d) => /\ ReleasedTest(Descend(d, s))
                               /\ Descend(d, s).canopy = d.canopy
                               /\ Descend(d, s).stable = d.stable
<1> DEFINE f == Fastest(d, s)
           c == Canopy(f, s)
           w == Stable(c, s)
<1>1. /\ Descends(d, f) /\ f.window = d.window /\ f.landing = d.landing
      /\ f.canopy = d.canopy /\ f.stable = d.stable
  BY FastestDescends
<1>2. Descend(d, s) = Landing(w, s)
  BY DEF Descend, ReleasedTest
<1> HIDE DEF f
<1>3. /\ Descends(f, c) /\ c.window = f.window /\ c.stable = f.stable
      /\ c.landing = f.landing /\ (f.confirmed = 0 => c = f)
  BY <1>1, CanopyDescends DEF Descends
<1> HIDE DEF c
<1>4. /\ Descends(c, w) /\ w.canopy = c.canopy /\ w.landing = c.landing
      /\ c.window = 0 => w.stable = c.stable
  BY <1>3, StableDescends DEF Descends
<1> HIDE DEF w
<1>5. /\ Landing(w, s) \in DropTestController
      /\ ReleasedTest(Landing(w, s)) \/ LandedTest(Landing(w, s))
      /\ w.landing = Unset => ReleasedTest(Landing(w, s))
      /\ Landing(w, s).canopy = w.canopy /\ Landing(w, s).stable = w.stable
      /\ Landing(w, s).armed = w.armed
  BY <1>4, LandingDescends DEF Descends
<1> QED
  BY <1>1, <1>2, <1>3, <1>4, <1>5 DEF Descends, JustReleased

-----------------------------------------------------------------------------
(* Before the release.                                                      *)

LEMMA OnsetWaits ==
  ASSUME NEW d \in DropTestController, NEW s \in DropSample, ArmedTest(d)
  PROVE  /\ Onset(d, s) \in DropTestController /\ ArmedTest(Onset(d, s))
         /\ Onset(d, s).armed = d.armed
         /\ d.state = "ARMED_RECORDING" =>
              Onset(d, s).state = "ARMED_RECORDING" \/ Onset(d, s).onset = 0
<1>1. CASE Onset(d, s) = d
  BY <1>1
<1>2. CASE Onset(d, s) # d
  <2> DEFINE events == d.events \cup {"RELEASE_ONSET"}
             o == Onset(d, s)
  <2>1. o = [[d EXCEPT !.state = "RELEASE_CANDIDATE", !.onset = 0] EXCEPT !.events = events]
    BY <1>2 DEF Onset, Emit, DropTestController
  <2>2. events \in SUBSET DropTestEvent
    BY DEF DropTestController, DropTestEvent
  <2> HIDE DEF o, events
  <2>3. o \in DropTestController
    BY <2>1, <2>2, TimerFacts DEF DropTestController, DropTestState, PreRelease
  <2>4. ArmedTest(o)
    BY <2>1 DEF ArmedTest, DropTestController, PreRelease
  <2> QED
    BY <2>1, <2>3, <2>4 DEF o, DropTestController
<1> QED
  BY <1>1, <1>2

LEMMA ConfirmReleaseReleases ==
  ASSUME NEW d \in DropTestController, NEW s \in DropSample, ArmedTest(d)
  PROVE  /\ ConfirmRelease(d, s) \in DropTestController
         /\ JustReleased(ConfirmRelease(d, s))
         /\ ~ConfirmRelease(d, s).canopy /\ ~ConfirmRelease(d, s).stable
         /\ ConfirmRelease(d, s).armed = d.armed
<1> DEFINE events == d.events \cup {"RELEASE_CONFIRMED"}
           c == ConfirmRelease(d, s)
<1>1. c = [[d EXCEPT !.state = "DROP_CONFIRMED", !.onset = Unset, !.confirmed = 0,
                     !.fastest = s.vs, !.window = 0, !.slowVs = s.vs, !.fastVs = s.vs]
             EXCEPT !.events = events]
  BY DEF ConfirmRelease, Emit, DropTestController
<1>2. events \in SUBSET DropTestEvent
  BY DEF DropTestController, DropTestEvent
<1>3. s.vs \in Int /\ 0 \in Timer /\ Unset \in Timer
  BY TimerFacts DEF DropSample
<1> HIDE DEF c, events
<1>4. c \in DropTestController
  BY <1>1, <1>2, <1>3 DEF DropTestController, DropTestState, PostRelease
<1>5. /\ c.state = "DROP_CONFIRMED" /\ c.confirmed = 0 /\ c.window = 0
      /\ c.recording = d.recording /\ c.canopy = d.canopy /\ c.stable = d.stable
      /\ c.landing = d.landing /\ c.landed = d.landed /\ c.armed = d.armed
  BY <1>1 DEF DropTestController
<1>6. JustReleased(c)
  BY <1>5, TimerFacts DEF JustReleased, ReleasedTest, ArmedTest, Claim, PostRelease
<1> QED
  BY <1>4, <1>5, <1>6 DEF ArmedTest, c

LEMMA RejectReleaseWaits ==
  ASSUME NEW d \in DropTestController, ArmedTest(d)
  PROVE  /\ RejectRelease(d) \in DropTestController /\ ArmedTest(RejectRelease(d))
         /\ RejectRelease(d).armed = d.armed
<1> DEFINE events == d.events \cup {"RELEASE_REJECTED"}
           r == RejectRelease(d)
<1>1. r = [[d EXCEPT !.state = "ARMED_RECORDING", !.onset = Unset] EXCEPT !.events = events]
  BY DEF RejectRelease, Emit, DropTestController
<1>2. events \in SUBSET DropTestEvent
  BY DEF DropTestController, DropTestEvent
<1> HIDE DEF r, events
<1>3. r \in DropTestController
  BY <1>1, <1>2, TimerFacts DEF DropTestController, DropTestState, PreRelease
<1>4. ArmedTest(r)
  BY <1>1 DEF ArmedTest, DropTestController, PreRelease
<1> QED
  BY <1>1, <1>3, <1>4 DEF r, DropTestController

\* A test stays armed, or is released with nothing observed; a test whose
\* candidate is opened only now stays armed.
LEMMA ReleaseReleases ==
  ASSUME NEW d \in DropTestController, NEW s \in DropSample, ArmedTest(d)
  PROVE  /\ Release(d, s) \in DropTestController
         /\ \/ ArmedTest(Release(d, s))
            \/ /\ JustReleased(Release(d, s))
               /\ ~Release(d, s).canopy /\ ~Release(d, s).stable
         /\ d.state = "ARMED_RECORDING" => ArmedTest(Release(d, s))
         /\ Release(d, s).armed = d.armed
<1> DEFINE o == Onset(d, s)
<1>1. /\ o \in DropTestController /\ ArmedTest(o) /\ o.armed = d.armed
      /\ d.state = "ARMED_RECORDING" => o.state = "ARMED_RECORDING" \/ o.onset = 0
  BY OnsetWaits
<1>2. Release(d, s) = Candidate(o, s)
  BY DEF Release
<1> HIDE DEF o
<1>3. CASE Candidate(o, s) = o
  BY <1>1, <1>2, <1>3
<1>4. CASE Candidate(o, s) = RejectRelease(o)
  BY <1>1, <1>2, <1>4, RejectReleaseWaits
<1>5. CASE /\ Candidate(o, s) = ConfirmRelease(o, s)
           /\ o.state = "RELEASE_CANDIDATE" /\ o.onset >= Config.releaseConfirm
  <2>1. o.onset # 0
    BY <1>5, ConfigFacts
  <2>2. d.state # "ARMED_RECORDING"
    BY <1>1, <1>5, <2>1
  <2> QED
    BY <1>1, <1>2, <1>5, <2>2, ConfirmReleaseReleases
<1> QED
  BY <1>3, <1>4, <1>5 DEF Candidate

-----------------------------------------------------------------------------
(* A whole step of the recorder.                                             *)

LEMMA BeginChangesNothing ==
  ASSUME NEW d \in DropTestController
  PROVE  /\ Begin(d) \in DropTestController /\ Begin(d).armed = d.armed
         /\ Begin(d).state = d.state
         /\ Begin(d).canopy = d.canopy /\ Begin(d).stable = d.stable
         /\ ArmedTest(d) => ArmedTest(Begin(d))
         /\ ReleasedTest(d) => ReleasedTest(Begin(d))
         /\ LandedTest(d) => LandedTest(Begin(d))
<1>1. Begin(d) \in DropTestController
  BY DEF Begin, DropTestController
<1>2. ArmedTest(d) => ArmedTest(Begin(d))
  BY DEF Begin, DropTestController, ArmedTest
<1>3. ReleasedTest(d) => ReleasedTest(Begin(d))
  BY DEF Begin, DropTestController, ReleasedTest, Claim
<1>4. LandedTest(d) => LandedTest(Begin(d))
  BY DEF Begin, DropTestController, LandedTest
<1> QED
  BY <1>1, <1>2, <1>3, <1>4 DEF Begin, DropTestController

LEMMA FinishEnds ==
  ASSUME NEW d \in DropTestController, Going(d),
         NEW state \in {"TEST_COMPLETE", "TEST_ABORTED"},
         NEW events \in SUBSET DropTestEvent
  PROVE  Finish(d, state, events) \in DropTestController /\ IdleTest(Finish(d, state, events))
<1> DEFINE f == Finish(d, state, events)
<1>1. f = [d EXCEPT !.state = state, !.recording = FALSE, !.closeLog = TRUE,
                    !.events = events]
  BY DEF Finish
<1>2. state \in DropTestState /\ state \in Idle
  BY DEF DropTestState, Idle
<1> HIDE DEF f
<1>3. f \in DropTestController
  BY <1>1, <1>2 DEF DropTestController
<1>4. /\ ~f.recording /\ f.state = state /\ f.canopy = d.canopy /\ f.stable = d.stable
      /\ f.landed = d.landed /\ f.confirmed = d.confirmed
  BY <1>1 DEF DropTestController
<1>5. d.canopy \/ d.stable \/ d.landed # Unset => d.confirmed # Unset
  BY DEF Going, ArmedTest, ReleasedTest, LandedTest
<1> QED
  BY <1>2, <1>3, <1>4, <1>5 DEF IdleTest, f

LEMMA PostLandingEnds ==
  ASSUME NEW d \in DropTestController, Going(d)
  PROVE  /\ PostLanding(d) \in DropTestController
         /\ PostLanding(d) = d \/ IdleTest(PostLanding(d))
         /\ ~LandedTest(d) => PostLanding(d) = d
<1>1. CASE d.state = "POST_LANDING" /\ d.landed >= Config.postLanding
  <2>1. d.events \cup {"COMPLETE"} \in SUBSET DropTestEvent
    BY DEF DropTestController, DropTestEvent
  <2>2. LandedTest(d)
    BY <1>1 DEF Going, ArmedTest, ReleasedTest, PreRelease, PostRelease
  <2> QED
    BY <1>1, <2>1, <2>2, FinishEnds DEF PostLanding
<1>2. CASE ~(d.state = "POST_LANDING" /\ d.landed >= Config.postLanding)
  BY <1>2 DEF PostLanding
<1> QED
  BY <1>1, <1>2

\* How a test that goes on looks after a step with a sample.
Follows(d, e) ==
  \/ IdleTest(e)
  \/ /\ Going(e) /\ e.armed = d.armed /\ d.armed \in 0 .. Config.maxDuration - 1
     /\ ArmedTest(d) => \/ ArmedTest(e)
                        \/ /\ d.state = "RELEASE_CANDIDATE" /\ ReleasedTest(e)
                           /\ ~e.canopy /\ ~e.stable
     /\ ReleasedTest(d) => /\ ReleasedTest(e) \/ LandedTest(e)
                           /\ d.canopy => e.canopy
                           /\ d.stable => e.stable
     /\ LandedTest(d) => LandedTest(e) /\ e.canopy = d.canopy /\ e.stable = d.stable

LEMMA RecordedFollows ==
  ASSUME NEW d \in DropTestController, NEW s \in DropSample, Going(d)
  PROVE  Recorded(d, s) \in DropTestController /\ Follows(d, Recorded(d, s))
<1>1. d.recording
  BY DEF Going, ArmedTest, ReleasedTest, LandedTest
<1>2. CASE TimedOut(d)
  <2>1. {"TIMEOUT", "COMPLETE"} \in SUBSET DropTestEvent
    BY DEF DropTestEvent
  <2>2. Recorded(d, s) = Finish(d, "TEST_COMPLETE", {"TIMEOUT", "COMPLETE"})
    BY <1>1, <1>2 DEF Recorded
  <2> QED
    BY <2>1, <2>2, FinishEnds DEF Follows
<1>3. CASE ~TimedOut(d)
  <2>1. d.armed \in 0 .. Config.maxDuration - 1
    BY <1>3, ConfigFacts DEF TimedOut, DropTestController
  <2> DEFINE b == Begin(d)
             r == IF d.state \in PreRelease THEN Release(b, s) ELSE b
             e == Descend(r, s)
  <2>2. /\ b \in DropTestController /\ b.armed = d.armed /\ b.state = d.state
        /\ b.canopy = d.canopy /\ b.stable = d.stable
        /\ ArmedTest(d) => ArmedTest(b)
        /\ ReleasedTest(d) => ReleasedTest(b)
        /\ LandedTest(d) => LandedTest(b)
    BY BeginChangesNothing
  <2>3. Recorded(d, s) = PostLanding(e)
    BY <1>1, <1>3 DEF Recorded
  <2> HIDE DEF b
  <2>4. CASE ArmedTest(d)
    <3>1. /\ r \in DropTestController /\ r.armed = d.armed
          /\ \/ ArmedTest(r)
             \/ /\ JustReleased(r) /\ ~r.canopy /\ ~r.stable
                /\ d.state = "RELEASE_CANDIDATE"
      BY <2>2, <2>4, ReleaseReleases DEF ArmedTest, PreRelease
    <3> HIDE DEF r
    <3>2. CASE ArmedTest(r)
      <4>1. e = r
        BY <3>2 DEF Descend, ArmedTest, PreRelease, PostRelease
      <4>2. ~LandedTest(r) /\ Going(r)
        BY <3>2 DEF ArmedTest, LandedTest, Going
      <4> QED
        BY <2>1, <2>3, <2>4, <3>1, <3>2, <4>1, <4>2, PostLandingEnds
        DEF Follows, ArmedTest, ReleasedTest, LandedTest, PreRelease, PostRelease
    <3>3. CASE /\ JustReleased(r) /\ ~r.canopy /\ ~r.stable
               /\ d.state = "RELEASE_CANDIDATE"
      <4>1. /\ e \in DropTestController /\ e.armed = d.armed /\ ReleasedTest(e)
            /\ ~e.canopy /\ ~e.stable
        BY <3>1, <3>3, DescendDescends DEF JustReleased
      <4> HIDE DEF e
      <4>2. ~LandedTest(e) /\ Going(e)
        BY <4>1 DEF ReleasedTest, LandedTest, Going
      <4> QED
        BY <2>1, <2>3, <2>4, <3>3, <4>1, <4>2, PostLandingEnds
        DEF Follows, ArmedTest, ReleasedTest, LandedTest
    <3> QED
      BY <3>1, <3>2, <3>3
  <2>5. CASE ReleasedTest(d)
    <3>1. r = b
      BY <2>5 DEF ReleasedTest, PreRelease, PostRelease
    <3>2. /\ e \in DropTestController /\ e.armed = d.armed
          /\ ReleasedTest(e) \/ LandedTest(e)
          /\ d.canopy => e.canopy
          /\ d.stable => e.stable
      BY <2>2, <2>5, <3>1, DescendDescends
    <3> HIDE DEF e
    <3>3. Going(e)
      BY <3>2 DEF Going
    <3> QED
      BY <2>1, <2>3, <2>5, <3>2, <3>3, PostLandingEnds
      DEF Follows, ArmedTest, ReleasedTest, LandedTest
  <2>6. CASE LandedTest(d)
    <3>1. r = b
      BY <2>6 DEF LandedTest, PreRelease
    <3>2. e = b
      BY <2>2, <2>6, <3>1 DEF Descend, LandedTest
    <3>3. Going(b)
      BY <2>2, <2>6 DEF Going
    <3> QED
      BY <2>1, <2>2, <2>3, <2>6, <3>2, <3>3, PostLandingEnds
      DEF Follows, ArmedTest, ReleasedTest, LandedTest
  <2> QED
    BY <2>4, <2>5, <2>6 DEF Going
<1> QED
  BY <1>2, <1>3

-----------------------------------------------------------------------------
(* The types of the history.                                                *)

SpanType == [age : Timer, lo : Int, hi : Int]
History  ==
  [jolt : Timer, fall : Timer, glide : SpanType, rest : SpanType]

LEMMA SpanIsTyped ==
  ASSUME NEW run \in SpanType, NEW ok \in BOOLEAN, NEW value \in Int, NEW dt \in Nat
  PROVE  Span(run, ok, value, dt) \in SpanType /\ NoSpan \in SpanType
<1>1. NoSpan \in SpanType
  BY TimerFacts DEF NoSpan, SpanType
<1>2. /\ Later(run.age, dt) \in Timer
      /\ Lower(run.lo, value) \in Int /\ Higher(run.hi, value) \in Int
  BY LaterIsTimer, ComparedIsInt DEF SpanType
<1> QED
  BY <1>1, <1>2, TimerFacts DEF Span, SpanType

LEMMA WatchedIsTyped ==
  ASSUME NEW was \in History, NEW d \in DropTestController, NEW s \in DropSample,
         NEW dt \in Nat
  PROVE  Watched(was, d, s, dt) \in History
<1>1. s.vs \in Int /\ s.alt \in Int
  BY DEF DropSample
<1>2. /\ was.jolt \in Timer /\ was.fall \in Timer
      /\ was.glide \in SpanType /\ was.rest \in SpanType
  BY DEF History
<1> DEFINE gliding == d.confirmed # Unset /\ StableSample(s)
           resting == d.confirmed # Unset /\ LandingSample(s)
<1>3. gliding \in BOOLEAN /\ resting \in BOOLEAN
  BY DEF StableSample, LandingSample
<1> HIDE DEF gliding, resting
<1>4. Steady(was.glide, gliding, s.vs, Config.stableRange, dt) \in SpanType
  BY <1>1, <1>2, <1>3, SpanIsTyped DEF Steady
<1>5. Span(was.rest, resting, s.alt, dt) \in SpanType
  BY <1>1, <1>2, <1>3, SpanIsTyped
<1>6. Later(was.jolt, dt) \in Timer /\ Later(was.fall, dt) \in Timer
  BY <1>2, LaterIsTimer
<1> QED
  BY <1>4, <1>5, <1>6, TimerFacts DEF Watched, History, gliding, resting

-----------------------------------------------------------------------------
(* The invariant.                                                           *)

Inv ==
  /\ drop \in DropTestController /\ Orderly(drop)
  /\ drop.recording => drop.armed \in 0 .. Config.maxDuration - 1
  /\ seen \in History
  /\ tests \in 0 .. MaxTests /\ seals \in Nat

LEMMA NoTestIsIdle == NoTest \in DropTestController /\ IdleTest(NoTest)
<1>1. NoTest \in DropTestController
  BY TimerFacts DEF NoTest, DropTestController, DropTestState, Idle, PostRelease
<1> QED
  BY <1>1 DEF NoTest, IdleTest, Idle

LEMMA ArmedIsArmed ==
  ASSUME NEW alt \in Int, NEW lead \in Nat
  PROVE  /\ Armed(alt, lead) \in DropTestController /\ ArmedTest(Armed(alt, lead))
         /\ Armed(alt, lead).state = "ARMED_RECORDING"
<1> DEFINE a == Armed(alt, lead)
<1>1. -lead \in Int
  OBVIOUS
<1>2. a = [NoTest EXCEPT !.state = "ARMED_RECORDING", !.recording = TRUE,
                         !.armed = -lead, !.armAlt = alt]
  BY DEF Armed
<1> HIDE DEF a
<1>3. a \in DropTestController
  BY <1>1, <1>2, NoTestIsIdle DEF DropTestController, DropTestState, PreRelease
<1>4. /\ a.state = "ARMED_RECORDING" /\ a.recording /\ a.confirmed = Unset
      /\ a.landing = Unset /\ a.landed = Unset /\ ~a.canopy /\ ~a.stable
  BY <1>2 DEF NoTest
<1> QED
  BY <1>3, <1>4 DEF a, ArmedTest, PreRelease

LEMMA EnvironmentIsTyped ==
  /\ DropSamples \subseteq DropSample /\ Ticks \subseteq Nat /\ Leads \subseteq Nat
  /\ MaxTests \in Nat
  BY DropConfigAssumption

LEMMA InitHolds == Init => Inv
<1>1. Nothing \in History
  BY TimerFacts DEF Nothing, NoSpan, History, SpanType
<1> QED
  BY <1>1, NoTestIsIdle, EnvironmentIsTyped DEF Init, Inv, Orderly, IdleTest

\* What an iteration without a command does to a test that goes on.
LEMMA IterateFollows ==
  ASSUME Inv, NEW s \in DropSamples, NEW dt \in Ticks, Iterate(s, dt)
  PROVE  /\ IdleTest(drop) => drop' = drop /\ seen' = seen
         /\ Going(drop) =>
              \E a \in DropTestController :
                /\ Going(a) /\ a.canopy = drop.canopy /\ a.stable = drop.stable
                /\ ArmedTest(drop) => ArmedTest(a)
                /\ ReleasedTest(drop) => ReleasedTest(a)
                /\ LandedTest(drop) => LandedTest(a)
                /\ drop' = Recorded(a, s)
                /\ drop' \in DropTestController /\ Follows(a, drop')
<1>1. s \in DropSample /\ dt \in Nat
  BY EnvironmentIsTyped
<1>2. CASE IdleTest(drop)
  <2>1. Aged(drop, dt) = drop
    BY <1>1, <1>2, AgedIsOrderly DEF Inv
  <2> QED
    BY <1>2, <2>1 DEF Iterate, Record, IdleTest, Going, ArmedTest, ReleasedTest, LandedTest
<1>3. CASE Going(drop)
  <2> DEFINE a == Aged(drop, dt)
  <2>1. /\ a \in DropTestController
        /\ ArmedTest(drop) => ArmedTest(a)
        /\ ReleasedTest(drop) => ReleasedTest(a)
        /\ LandedTest(drop) => LandedTest(a)
        /\ a.canopy = drop.canopy /\ a.stable = drop.stable
    BY <1>1, AgedIsOrderly DEF Inv
  <2>2. drop' = Record(a, s)
    BY DEF Iterate
  <2> HIDE DEF a
  <2>3. Going(a)
    BY <1>3, <2>1 DEF Going
  <2>4. drop' = Recorded(a, s)
    BY <2>2, <2>3 DEF Record, Going, ArmedTest, ReleasedTest, LandedTest
  <2>5. drop' \in DropTestController /\ Follows(a, drop')
    BY <1>1, <2>1, <2>3, <2>4, RecordedFollows
  <2>6. ~IdleTest(drop)
    BY <1>3 DEF IdleTest, Going, ArmedTest, ReleasedTest, LandedTest
  <2> QED
    BY <2>1, <2>3, <2>4, <2>5, <2>6
<1> QED
  BY <1>2, <1>3 DEF Inv, Orderly, Going

LEMMA ArmFollows ==
  ASSUME Inv, NEW s \in DropSamples, NEW lead \in Leads, Arm(s, lead)
  PROVE  /\ drop' \in DropTestController /\ IdleTest(drop)
         /\ IdleTest(drop') \/ ArmedTest(drop')
         /\ drop'.recording => drop'.armed \in 0 .. Config.maxDuration - 1
<1> DEFINE a == Armed(s.alt, lead)
<1>1. s \in DropSample /\ lead \in Nat /\ s.alt \in Int
  BY EnvironmentIsTyped DEF DropSample
<1>2. a \in DropTestController /\ ArmedTest(a) /\ a.state = "ARMED_RECORDING"
  BY <1>1, ArmedIsArmed
<1>3. drop' = Record(a, s)
  BY DEF Arm
<1> HIDE DEF a
<1>4. drop' = Recorded(a, s)
  BY <1>2, <1>3 DEF Record, ArmedTest
<1>5. drop' \in DropTestController /\ Follows(a, drop')
  BY <1>1, <1>2, <1>4, RecordedFollows DEF Going
<1>6. IdleTest(drop)
  BY DEF Arm, Inv, Orderly, ArmedTest, ReleasedTest, LandedTest, Idle, PreRelease, PostRelease
<1> QED
  BY <1>2, <1>5, <1>6 DEF Follows, IdleTest

LEMMA AbortFollows ==
  ASSUME Inv, NEW dt \in Ticks, Abort(dt)
  PROVE  drop' \in DropTestController /\ Going(drop) /\ IdleTest(drop')
<1> DEFINE a == Aged(drop, dt)
<1>1. dt \in Nat
  BY EnvironmentIsTyped
<1>2. Going(drop)
  BY DEF Abort, Inv, Orderly, Going, IdleTest
<1>3. a \in DropTestController /\ Going(a)
  BY <1>1, <1>2, AgedIsOrderly DEF Inv, Going
<1>4. drop' = Aborted(a)
  BY DEF Abort
<1> HIDE DEF a
<1>5. drop' = Finish(a, "TEST_ABORTED", {"ABORTED"})
  BY <1>3, <1>4 DEF Aborted, Going, ArmedTest, ReleasedTest, LandedTest
<1>6. {"ABORTED"} \in SUBSET DropTestEvent
  BY DEF DropTestEvent
<1> QED
  BY <1>2, <1>3, <1>5, <1>6, FinishEnds

LEMMA StepPreserves == Inv /\ [Next]_dropVars => Inv'
<1> SUFFICES ASSUME Inv, [Next]_dropVars PROVE Inv'
  OBVIOUS
<1>1. CASE UNCHANGED dropVars
  BY <1>1 DEF Inv, dropVars, Orderly, IdleTest, ArmedTest, ReleasedTest, LandedTest, Claim
<1>2. ASSUME NEW s \in DropSamples, NEW dt \in Ticks, Iterate(s, dt) PROVE Inv'
  <2>1. /\ drop' \in DropTestController /\ Orderly(drop')
        /\ drop'.recording => drop'.armed \in 0 .. Config.maxDuration - 1
    <3>1. CASE IdleTest(drop)
      BY <1>2, <3>1, IterateFollows DEF Inv
    <3>2. CASE Going(drop)
      <4>1. PICK a \in DropTestController :
              drop' \in DropTestController /\ Follows(a, drop')
        BY <1>2, <3>2, IterateFollows
      <4> QED
        BY <4>1 DEF Follows, Orderly, Going, IdleTest
    <3> QED
      BY <3>1, <3>2 DEF Inv, Orderly, Going
  <2>2. seen' \in History
    BY <1>2, <2>1, EnvironmentIsTyped, WatchedIsTyped DEF Iterate, Inv
  <2>3. seals' \in Nat
    BY <1>2 DEF Iterate, Published, Inv
  <2> QED
    BY <1>2, <2>1, <2>2, <2>3 DEF Iterate, Inv, Orderly, IdleTest, ArmedTest, ReleasedTest,
                            LandedTest, Claim
<1>3. ASSUME NEW s \in DropSamples, NEW lead \in Leads, Arm(s, lead) PROVE Inv'
  <2>1. /\ drop' \in DropTestController /\ Orderly(drop')
        /\ drop'.recording => drop'.armed \in 0 .. Config.maxDuration - 1
    BY <1>3, ArmFollows DEF Orderly
  <2>2. Nothing \in History
    BY TimerFacts DEF Nothing, NoSpan, History, SpanType
  <2>3. seen' \in History
    BY <1>3, <2>1, <2>2, EnvironmentIsTyped, WatchedIsTyped DEF Arm
  <2>4. tests' \in 0 .. MaxTests
    BY <1>3, EnvironmentIsTyped DEF Arm, Inv
  <2>5. seals' \in Nat
    BY <1>3 DEF Arm, Published, Inv
  <2> QED
    BY <2>1, <2>3, <2>4, <2>5 DEF Inv, Orderly, IdleTest, ArmedTest, ReleasedTest, LandedTest, Claim
<1>4. ASSUME NEW dt \in Ticks, Abort(dt) PROVE Inv'
  <2>1. drop' \in DropTestController /\ Orderly(drop') /\ ~drop'.recording
    BY <1>4, AbortFollows DEF Orderly, IdleTest
  <2>2. seals' \in Nat
    BY <1>4 DEF Abort, Published, Inv
  <2> QED
    BY <1>4, <2>1, <2>2 DEF Abort, Inv, Orderly, IdleTest, ArmedTest, ReleasedTest, LandedTest, Claim
<1> QED
  BY <1>1, <1>2, <1>3, <1>4 DEF Next, Loop

-----------------------------------------------------------------------------
(* The closing output.  Whatever a sample shows, an output that does not end   *)
(* the recording leaves the log open, and one that ends it closes the log.     *)

\* A recording whose log is open.
Open(d) ==
  /\ {"recording", "closeLog"} \subseteq DOMAIN d
  /\ d.recording = TRUE /\ d.closeLog = FALSE

\* An output that closes the log of a recording that has ended.
Sealed(d) == d.recording = FALSE /\ d.closeLog = TRUE

LEMMA BeginOpens ==
  ASSUME NEW d \in DropTestController, d.recording
  PROVE  Open(Begin(d))
  BY DEF Begin, Open, DropTestController

LEMMA ReleaseStaysOpen ==
  ASSUME NEW d, NEW s, Open(d)
  PROVE  Open(Release(d, s))
<1> DEFINE o == Onset(d, s)
<1>1. Open(o)
  BY DEF Onset, Emit, Open
<1> HIDE DEF o
<1>2. Open(ConfirmRelease(o, s))
  BY <1>1 DEF ConfirmRelease, Emit, Open
<1>3. Open(RejectRelease(o))
  BY <1>1 DEF RejectRelease, Emit, Open
<1>4. Open(Candidate(o, s))
  BY <1>1, <1>2, <1>3 DEF Candidate
<1> QED
  BY <1>4 DEF Release, o

LEMMA DescendStaysOpen ==
  ASSUME NEW d, NEW s, Open(d)
  PROVE  Open(Descend(d, s))
<1> DEFINE f == Fastest(d, s)
           c == Canopy(f, s)
           w == StableWindow(c, s)
           t == Stable(c, s)
           l == LandingWindow(t, s)
<1>1. Open(f)
  BY DEF Fastest, Open
<1> HIDE DEF f
<1>2. Open(c)
  BY <1>1 DEF Canopy, Emit, Open
<1> HIDE DEF c
<1>3. Open(w)
  BY <1>2 DEF StableWindow, Open
<1>4. Open([c EXCEPT !.window = Unset])
  BY <1>2 DEF Open
<1> HIDE DEF w
<1>5. Open(Observed(w))
  BY <1>3 DEF Observed, Emit, Open
<1>6. Open(t)
  BY <1>4, <1>5 DEF Stable, w
<1> HIDE DEF t
<1>7. Open(l) /\ Open(RejectLanding(t))
  BY <1>6 DEF LandingWindow, RejectLanding, Emit, Open
<1> HIDE DEF l
<1>8. Open(ConfirmLanding(l))
  BY <1>7 DEF ConfirmLanding, Emit, Open
<1>9. Open(Landing(t, s))
  BY <1>7, <1>8 DEF Landing, l
<1> QED
  BY <1>9 DEF Descend, t, c, f

LEMMA RecordedSealsAnEnd ==
  ASSUME NEW d \in DropTestController, NEW s, d.recording
  PROVE  Open(Recorded(d, s)) \/ Sealed(Recorded(d, s))
<1>1. CASE TimedOut(d)
  <2>1. Recorded(d, s) = Finish(d, "TEST_COMPLETE", {"TIMEOUT", "COMPLETE"})
    BY <1>1 DEF Recorded
  <2> QED
    BY <2>1 DEF Finish, Sealed, DropTestController
<1>2. CASE ~TimedOut(d)
  <2> DEFINE b == Begin(d)
             r == IF d.state \in PreRelease THEN Release(b, s) ELSE b
             e == Descend(r, s)
  <2>1. Recorded(d, s) = PostLanding(e)
    BY <1>2 DEF Recorded
  <2>2. Open(b)
    BY BeginOpens
  <2> HIDE DEF b
  <2>3. Open(r)
    BY <2>2, ReleaseStaysOpen
  <2> HIDE DEF r
  <2>4. Open(e)
    BY <2>3, DescendStaysOpen
  <2> HIDE DEF e
  <2>5. Open(PostLanding(e)) \/ Sealed(PostLanding(e))
    BY <2>4 DEF PostLanding, Finish, Open, Sealed
  <2> QED
    BY <2>1, <2>5
<1> QED
  BY <1>1, <1>2

LEMMA SealsStep == Inv /\ EndSealsOnce /\ [Next]_dropVars => EndSealsOnce'
<1> SUFFICES ASSUME Inv, EndSealsOnce, [Next]_dropVars PROVE EndSealsOnce'
  OBVIOUS
<1>1. /\ drop \in DropTestController /\ Orderly(drop) /\ tests \in Nat /\ seals \in Nat
      /\ tests = seals + (IF drop.recording THEN 1 ELSE 0)
  BY EnvironmentIsTyped DEF Inv, EndSealsOnce
<1>2. CASE UNCHANGED dropVars
  BY <1>1, <1>2 DEF dropVars, EndSealsOnce
<1>3. ASSUME NEW s \in DropSamples, NEW dt \in Ticks, Iterate(s, dt) PROVE EndSealsOnce'
  <2>1. CASE IdleTest(drop)
    <3>1. drop' = drop /\ ~drop.recording
      BY <1>3, <2>1, IterateFollows DEF IdleTest
    <3>2. seals' = seals /\ tests' = tests
      BY <1>3, <3>1 DEF Iterate
    <3> QED
      BY <1>1, <3>1, <3>2 DEF EndSealsOnce
  <2>2. CASE Going(drop)
    <3>1. PICK a \in DropTestController : Going(a) /\ drop' = Recorded(a, s)
      BY <1>3, <2>2, IterateFollows
    <3>2. Open(drop') \/ Sealed(drop')
      BY <3>1, RecordedSealsAnEnd DEF Going, ArmedTest, ReleasedTest, LandedTest
    <3>3. drop.recording
      BY <2>2 DEF Going, ArmedTest, ReleasedTest, LandedTest
    <3>4. Published(drop') /\ tests' = tests
      BY <1>3, <3>3 DEF Iterate
    <3> QED
      BY <1>1, <3>2, <3>3, <3>4 DEF Published, Open, Sealed, EndSealsOnce
  <2> QED
    BY <1>1, <2>1, <2>2 DEF Orderly, Going
<1>4. ASSUME NEW s \in DropSamples, NEW lead \in Leads, Arm(s, lead) PROVE EndSealsOnce'
  <2> DEFINE a == Armed(s.alt, lead)
  <2>1. s.alt \in Int /\ lead \in Nat
    BY EnvironmentIsTyped DEF DropSample
  <2>2. a \in DropTestController /\ a.recording
    BY <2>1, ArmedIsArmed DEF ArmedTest
  <2>3. /\ drop' = Record(a, s) /\ Published(drop') /\ tests' = tests + 1
    BY <1>4 DEF Arm
  <2> HIDE DEF a
  <2>4. Open(drop') \/ Sealed(drop')
    BY <2>2, <2>3, RecordedSealsAnEnd DEF Record
  <2>5. ~drop.recording
    BY <1>4, ArmFollows DEF IdleTest
  <2> QED
    BY <1>1, <2>3, <2>4, <2>5 DEF Published, Open, Sealed, EndSealsOnce
<1>5. ASSUME NEW dt \in Ticks, Abort(dt) PROVE EndSealsOnce'
  <2> DEFINE a == Aged(drop, dt)
  <2>1. Going(drop) /\ drop.recording
    BY <1>5, AbortFollows DEF Abort
  <2>2. a \in DropTestController /\ Going(a)
    <3>1. dt \in Nat
      BY EnvironmentIsTyped
    <3> QED
      BY <1>1, <2>1, <3>1, AgedIsOrderly DEF Inv, Going
  <2>3. drop' = Aborted(a) /\ Published(drop') /\ tests' = tests
    BY <1>5 DEF Abort
  <2> HIDE DEF a
  <2>4. Sealed(drop')
    BY <2>2, <2>3 DEF Aborted, Finish, Sealed, DropTestController, Going, ArmedTest,
                      ReleasedTest, LandedTest
  <2> QED
    BY <1>1, <2>1, <2>3, <2>4 DEF Published, Sealed, EndSealsOnce
<1> QED
  BY <1>2, <1>3, <1>4, <1>5 DEF Next, Loop

-----------------------------------------------------------------------------
(* The evidence of the milestones.  The windows of the controller are        *)
(* followed by the runs of the history, sample by sample.                    *)

\* The speeds of the stable window: it opens with a quiet sample, each further
\* one widens it, any other closes it.
Glided(window, slow, fast, s, e) ==
  IF StableSample(s)
  THEN IF window = Unset THEN e.window = 0 /\ e.slowVs = s.vs /\ e.fastVs = s.vs
       ELSE /\ e.window = window
            /\ e.slowVs = Higher(slow, s.vs) /\ e.fastVs = Lower(fast, s.vs)
  ELSE e.window = Unset

\* The altitudes of the landing candidate.
Rested(landing, floor, ceiling, s, e) ==
  IF LandingSample(s)
  THEN IF landing = Unset THEN e.landing = 0 /\ e.floor = s.alt /\ e.ceiling = s.alt
       ELSE /\ e.landing = landing
            /\ e.floor = Lower(floor, s.alt) /\ e.ceiling = Higher(ceiling, s.alt)
  ELSE e.landing = Unset

\* An observation has its window.
StableShown(d, e) ==
  ~d.stable /\ e.stable =>
    e.window >= Config.stableWindow /\ e.slowVs - e.fastVs <= Config.stableRange

LandingShown(d, e) ==
  d.landed = Unset /\ e.landed # Unset =>
    e.landing >= Config.landConfirm /\ e.ceiling - e.floor <= Config.landSpan

SameGlide(d, e) ==
  e.window = d.window /\ e.slowVs = d.slowVs /\ e.fastVs = d.fastVs /\ e.stable = d.stable

SameRest(d, e) ==
  /\ e.landing = d.landing /\ e.floor = d.floor /\ e.ceiling = d.ceiling
  /\ e.landed = d.landed

SameBase(d, e) == e.confirmed = d.confirmed /\ e.armAlt = d.armAlt

LEMMA FastestSame ==
  ASSUME NEW d \in DropTestController, NEW s
  PROVE  LET e == Fastest(d, s) IN SameGlide(d, e) /\ SameRest(d, e) /\ SameBase(d, e)
<1> DEFINE v == Lower(d.fastest, s.vs)
<1>1. Fastest(d, s) = d \/ Fastest(d, s) = [d EXCEPT !.fastest = v]
  BY DEF Fastest
<1> HIDE DEF v
<1> QED
  BY <1>1 DEF SameGlide, SameRest, SameBase, DropTestController

LEMMA CanopySame ==
  ASSUME NEW d \in DropTestController, NEW s
  PROVE  LET e == Canopy(d, s) IN SameGlide(d, e) /\ SameRest(d, e) /\ SameBase(d, e)
<1> DEFINE events == d.events \cup {"CANOPY_SIGNATURE"}
<1>1. \/ Canopy(d, s) = d
      \/ Canopy(d, s) = [[d EXCEPT !.canopy = TRUE, !.state = "CANOPY_EVENT_SUSPECTED"]
                           EXCEPT !.events = events]
  BY DEF Canopy, Emit, DropTestController
<1> HIDE DEF events
<1> QED
  BY <1>1 DEF SameGlide, SameRest, SameBase, DropTestController

LEMMA StableShows ==
  ASSUME NEW d \in DropTestController, NEW s \in DropSample
  PROVE  LET e == Stable(d, s) IN
         /\ Glided(d.window, d.slowVs, d.fastVs, s, e) /\ StableShown(d, e)
         /\ SameRest(d, e) /\ SameBase(d, e)
<1> DEFINE e == Stable(d, s)
<1>1. CASE ~StableSample(s)
  <2>1. e = [d EXCEPT !.window = Unset]
    BY <1>1 DEF Stable
  <2> HIDE DEF e
  <2>2. e.window = Unset /\ e.stable = d.stable /\ SameRest(d, e) /\ SameBase(d, e)
    BY <2>1 DEF SameRest, SameBase, DropTestController
  <2> QED
    BY <1>1, <2>2 DEF e, Glided, StableShown
<1>2. CASE StableSample(s)
  <2> DEFINE w == StableWindow(d, s)
             events == w.events \cup {"STABLE_DESCENT"}
             high == Higher(d.slowVs, s.vs)
             low == Lower(d.fastVs, s.vs)
  <2>1. e = Observed(w)
    BY <1>2 DEF Stable
  <2>2. \/ d.window = Unset /\ w = [d EXCEPT !.window = 0, !.slowVs = s.vs, !.fastVs = s.vs]
        \/ d.window # Unset /\ w = [d EXCEPT !.slowVs = high, !.fastVs = low]
    BY DEF StableWindow
  <2>3. \/ Observed(w) = w
        \/ /\ w.window >= Config.stableWindow /\ w.slowVs - w.fastVs <= Config.stableRange
           /\ Observed(w) = Emit([w EXCEPT !.stable = TRUE, !.state = "STABLE_DESCENT_OBSERVED"],
                                 "STABLE_DESCENT")
    BY DEF Observed
  <2> HIDE DEF e, w, events
  <2>4. /\ d.window = Unset => w.window = 0 /\ w.slowVs = s.vs /\ w.fastVs = s.vs
        /\ d.window # Unset => w.window = d.window /\ w.slowVs = high /\ w.fastVs = low
        /\ w.stable = d.stable /\ SameRest(d, w) /\ SameBase(d, w)
        /\ DOMAIN w = DOMAIN d
    <3> HIDE DEF high, low
    <3> QED
      BY <2>2 DEF SameRest, SameBase, DropTestController
  <2>5. \/ e = w
        \/ /\ w.window >= Config.stableWindow /\ w.slowVs - w.fastVs <= Config.stableRange
           /\ SameRest(w, e) /\ SameBase(w, e)
           /\ e.window = w.window /\ e.slowVs = w.slowVs /\ e.fastVs = w.fastVs
    <3> HIDE DEF high, low
    <3>1. \/ w = [d EXCEPT !.window = 0, !.slowVs = s.vs, !.fastVs = s.vs]
          \/ w = [d EXCEPT !.slowVs = high, !.fastVs = low]
      BY <2>2
    <3> DEFINE x == [w EXCEPT !.stable = TRUE, !.state = "STABLE_DESCENT_OBSERVED"]
               more == x.events \cup {"STABLE_DESCENT"}
    <3>2. Emit(x, "STABLE_DESCENT") = [x EXCEPT !.events = more]
      BY DEF Emit
    <3> HIDE DEF more
    <3>3. LET o == [x EXCEPT !.events = more] IN
          /\ SameRest(w, o) /\ SameBase(w, o)
          /\ o.window = w.window /\ o.slowVs = w.slowVs /\ o.fastVs = w.fastVs
      BY <3>1 DEF SameRest, SameBase, DropTestController
    <3> QED
      BY <2>1, <2>3, <3>2, <3>3
  <2>6. Glided(d.window, d.slowVs, d.fastVs, s, e)
    BY <1>2, <2>4, <2>5 DEF Glided
  <2>7. StableShown(d, e)
    BY <2>4, <2>5 DEF StableShown
  <2>8. SameRest(d, e) /\ SameBase(d, e)
    BY <2>4, <2>5 DEF SameRest, SameBase
  <2> QED
    BY <2>6, <2>7, <2>8 DEF e
<1> QED
  BY <1>1, <1>2

LEMMA LandingShows ==
  ASSUME NEW d \in DropTestController, NEW s \in DropSample
  PROVE  LET e == Landing(d, s) IN
         /\ Rested(d.landing, d.floor, d.ceiling, s, e) /\ LandingShown(d, e)
         /\ SameGlide(d, e) /\ SameBase(d, e)
<1> DEFINE e == Landing(d, s)
<1>1. CASE ~LandingSample(s)
  <2> DEFINE events == d.events \cup {"LANDING_REJECTED"}
  <2>1. e = RejectLanding(d)
    BY <1>1 DEF Landing
  <2>2. \/ d.landing = Unset /\ e = d
        \/ e = [[d EXCEPT !.landing = Unset, !.state = d.before] EXCEPT !.events = events]
    BY <2>1 DEF RejectLanding, Emit, DropTestController
  <2> HIDE DEF e, events
  <2>3. e.landing = Unset /\ e.landed = d.landed /\ SameGlide(d, e) /\ SameBase(d, e)
    BY <2>2 DEF SameGlide, SameBase, DropTestController
  <2> QED
    BY <1>1, <2>3 DEF e, Rested, LandingShown
<1>2. CASE LandingSample(s)
  <2> DEFINE w == LandingWindow(d, s)
             events == d.events \cup {"LANDING_CANDIDATE"}
             low == Lower(d.floor, s.alt)
             high == Higher(d.ceiling, s.alt)
  <2>1. e = ConfirmLanding(w)
    BY <1>2 DEF Landing
  <2>2. \/ /\ d.landing = Unset
           /\ w = [[d EXCEPT !.landing = 0, !.before = d.state, !.state = "LANDING_CONFIRM",
                             !.floor = s.alt, !.ceiling = s.alt] EXCEPT !.events = events]
        \/ d.landing # Unset /\ w = [d EXCEPT !.floor = low, !.ceiling = high]
    BY DEF LandingWindow, Emit, DropTestController
  <2>3. \/ ConfirmLanding(w) = w
        \/ /\ w.landing >= Config.landConfirm /\ w.ceiling - w.floor <= Config.landSpan
           /\ ConfirmLanding(w) = Emit([w EXCEPT !.landed = 0, !.state = "POST_LANDING"],
                                       "LANDING_CONFIRMED")
    BY DEF ConfirmLanding
  <2> HIDE DEF e, w, events, low, high
  <2>4. /\ d.landing = Unset => w.landing = 0 /\ w.floor = s.alt /\ w.ceiling = s.alt
        /\ d.landing # Unset => w.landing = d.landing /\ w.floor = low /\ w.ceiling = high
        /\ w.landed = d.landed /\ SameGlide(d, w) /\ SameBase(d, w)
    BY <2>2 DEF SameGlide, SameBase, DropTestController
  <2>5. \/ e = w
        \/ /\ w.landing >= Config.landConfirm /\ w.ceiling - w.floor <= Config.landSpan
           /\ SameGlide(w, e) /\ SameBase(w, e)
           /\ e.landing = w.landing /\ e.floor = w.floor /\ e.ceiling = w.ceiling
    <3> DEFINE x == [w EXCEPT !.landed = 0, !.state = "POST_LANDING"]
               more == x.events \cup {"LANDING_CONFIRMED"}
    <3>1. Emit(x, "LANDING_CONFIRMED") = [x EXCEPT !.events = more]
      BY DEF Emit
    <3> HIDE DEF more
    <3>2. LET o == [x EXCEPT !.events = more] IN
          /\ SameGlide(w, o) /\ SameBase(w, o)
          /\ o.landing = w.landing /\ o.floor = w.floor /\ o.ceiling = w.ceiling
      BY <2>2 DEF SameGlide, SameBase, DropTestController
    <3> QED
      BY <2>1, <2>3, <3>1, <3>2
  <2>6. Rested(d.landing, d.floor, d.ceiling, s, e)
    BY <1>2, <2>4, <2>5 DEF Rested, low, high
  <2>7. LandingShown(d, e)
    BY <2>4, <2>5 DEF LandingShown
  <2>8. SameGlide(d, e) /\ SameBase(d, e)
    BY <2>4, <2>5 DEF SameGlide, SameBase
  <2> QED
    BY <2>6, <2>7, <2>8 DEF e
<1> QED
  BY <1>1, <1>2

\* What the whole descent leaves of the windows.
Reveals(d, s, e) ==
  /\ Glided(d.window, d.slowVs, d.fastVs, s, e) /\ StableShown(d, e)
  /\ Rested(d.landing, d.floor, d.ceiling, s, e) /\ LandingShown(d, e)
  /\ SameBase(d, e)

LEMMA DescendShows ==
  ASSUME NEW d \in DropTestController, NEW s \in DropSample, ReleasedTest(d)
  PROVE  Reveals(d, s, Descend(d, s))
<1> DEFINE f == Fastest(d, s)
           c == Canopy(f, s)
           w == Stable(c, s)
           e == Landing(w, s)
<1>1. Descend(d, s) = e
  BY DEF Descend, ReleasedTest
<1>2. Descends(d, f) /\ SameGlide(d, f) /\ SameRest(d, f) /\ SameBase(d, f)
  BY FastestDescends, FastestSame
<1> HIDE DEF f
<1>3. Descends(f, c) /\ SameGlide(f, c) /\ SameRest(f, c) /\ SameBase(f, c)
  BY <1>2, CanopyDescends, CanopySame DEF Descends
<1> HIDE DEF c
<1>4. /\ Descends(c, w) /\ Glided(c.window, c.slowVs, c.fastVs, s, w) /\ StableShown(c, w)
      /\ SameRest(c, w) /\ SameBase(c, w)
  BY <1>3, StableDescends, StableShows DEF Descends
<1> HIDE DEF w
<1>5. /\ Rested(w.landing, w.floor, w.ceiling, s, e) /\ LandingShown(w, e)
      /\ SameGlide(w, e) /\ SameBase(w, e)
  BY <1>4, LandingShows DEF Descends
<1> HIDE DEF e
<1>6. SameGlide(d, c) /\ SameRest(d, c) /\ SameBase(d, e)
  BY <1>2, <1>3, <1>4, <1>5 DEF SameGlide, SameRest, SameBase
<1>7. Glided(d.window, d.slowVs, d.fastVs, s, e)
  BY <1>4, <1>5, <1>6 DEF Glided, SameGlide
<1>8. StableShown(d, e)
  BY <1>4, <1>5, <1>6 DEF StableShown, SameGlide
<1>9. Rested(d.landing, d.floor, d.ceiling, s, e)
  BY <1>4, <1>5, <1>6 DEF Rested, SameRest
<1>10. LandingShown(d, e)
  BY <1>4, <1>5, <1>6 DEF LandingShown, SameRest
<1> QED
  BY <1>1, <1>6, <1>7, <1>8, <1>9, <1>10 DEF Reveals

-----------------------------------------------------------------------------
(* A whole step, and the runs beside it.                                     *)

\* What a step may do to an armed test.
Onsets(d, s, e) ==
  e.onset = Unset \/ e.onset = d.onset \/ (e.onset = 0 /\ ImuRelease(s))

Quietly(d, e) ==
  e.confirmed = Unset /\ e.landed = Unset /\ ~e.stable /\ e.armAlt = d.armAlt

\* A release shown by both sensors.
ReleaseShown(d, s, e) ==
  /\ BaroRelease(d, s) /\ e.armAlt = d.armAlt
  /\ \/ d.onset >= Config.releaseConfirm
     \/ ImuRelease(s) /\ 0 >= Config.releaseConfirm

LEMMA ReleaseShows ==
  ASSUME NEW d \in DropTestController, NEW s \in DropSample, ArmedTest(d)
  PROVE  LET e == Release(d, s) IN
         \/ ArmedTest(e) /\ Onsets(d, s, e) /\ e.armAlt = d.armAlt
         \/ /\ JustReleased(e) /\ ReleaseShown(d, s, e) /\ ~e.stable
            /\ e.slowVs = s.vs /\ e.fastVs = s.vs
<1> DEFINE o == Onset(d, s)
           e == Release(d, s)
           begun == d.events \cup {"RELEASE_ONSET"}
<1>1. o \in DropTestController /\ ArmedTest(o)
  BY OnsetWaits
<1>2. e = Candidate(o, s)
  BY DEF Release
<1>3. \/ o = d
      \/ /\ ImuRelease(s)
         /\ o = [[d EXCEPT !.state = "RELEASE_CANDIDATE", !.onset = 0] EXCEPT !.events = begun]
  BY DEF Onset, Emit, DropTestController
<1> HIDE DEF o, begun
<1>4. o.armAlt = d.armAlt /\ (o.onset = d.onset \/ (o.onset = 0 /\ ImuRelease(s)))
  BY <1>3 DEF DropTestController
<1>5. BaroRelease(o, s) = BaroRelease(d, s)
  BY <1>4 DEF BaroRelease
<1> HIDE DEF e
<1>6. CASE e = o
  BY <1>1, <1>4, <1>6 DEF e, Onsets
<1>7. CASE e = RejectRelease(o)
  <2> DEFINE events == o.events \cup {"RELEASE_REJECTED"}
  <2>1. ArmedTest(e)
    BY <1>1, <1>7, RejectReleaseWaits
  <2>2. e = [[o EXCEPT !.state = "ARMED_RECORDING", !.onset = Unset] EXCEPT !.events = events]
    BY <1>1, <1>7 DEF RejectRelease, Emit, DropTestController
  <2> HIDE DEF events
  <2>3. e.onset = Unset /\ e.armAlt = o.armAlt
    BY <1>1, <2>2 DEF DropTestController
  <2> QED
    BY <1>4, <2>1, <2>3 DEF e, Onsets
<1>8. CASE /\ e = ConfirmRelease(o, s)
           /\ BaroRelease(o, s) /\ o.onset >= Config.releaseConfirm
  <2> DEFINE events == o.events \cup {"RELEASE_CONFIRMED"}
  <2>1. JustReleased(e) /\ ~e.stable
    BY <1>1, <1>8, ConfirmReleaseReleases
  <2>2. e = [[o EXCEPT !.state = "DROP_CONFIRMED", !.onset = Unset, !.confirmed = 0,
                       !.fastest = s.vs, !.window = 0, !.slowVs = s.vs, !.fastVs = s.vs]
               EXCEPT !.events = events]
    BY <1>1, <1>8 DEF ConfirmRelease, Emit, DropTestController
  <2> HIDE DEF events
  <2>3. e.armAlt = o.armAlt /\ e.slowVs = s.vs /\ e.fastVs = s.vs
    BY <1>1, <2>2 DEF DropTestController
  <2> QED
    BY <1>4, <1>5, <1>8, <2>1, <2>3 DEF e, ReleaseShown
<1> QED
  BY <1>2, <1>6, <1>7, <1>8 DEF Candidate

\* The end of a recording leaves what was observed.
Kept(d, e) == SameGlide(d, e) /\ SameRest(d, e) /\ SameBase(d, e) /\ e.onset = d.onset

LEMMA EndsKeep ==
  ASSUME NEW d \in DropTestController
  PROVE  /\ Kept(d, Begin(d)) /\ Kept(d, PostLanding(d))
         /\ \A state, events : Kept(d, Finish(d, state, events))
<1>1. Kept(d, Begin(d))
  BY DEF Begin, Kept, SameGlide, SameRest, SameBase, DropTestController
<1>2. ASSUME NEW state, NEW events PROVE Kept(d, Finish(d, state, events))
  BY DEF Finish, Kept, SameGlide, SameRest, SameBase, DropTestController
<1>3. PostLanding(d) = d \/ PostLanding(d) = Finish(d, "TEST_COMPLETE", d.events \cup {"COMPLETE"})
  BY DEF PostLanding
<1>4. Kept(d, d)
  BY DEF Kept, SameGlide, SameRest, SameBase
<1> QED
  BY <1>1, <1>2, <1>3, <1>4

\* A step of an armed, of a released and of a landed test.
FromArmed(d, s, e) ==
  \/ Quietly(d, e) /\ (ArmedTest(e) => Onsets(d, s, e)) /\ ~ReleasedTest(e)
  \/ /\ e.confirmed # Unset /\ e.landed = Unset /\ ~e.stable /\ ~ArmedTest(e)
     /\ ReleaseShown(d, s, e)
     /\ Glided(Unset, s.vs, s.vs, s, e) /\ Rested(Unset, s.alt, s.alt, s, e)

FromReleased(d, s, e) ==
  /\ e.confirmed # Unset /\ ~ArmedTest(e) /\ StableShown(d, e) /\ LandingShown(d, e)
  /\ e.stable # d.stable \/ e.landed # d.landed \/ ReleasedTest(e) =>
       /\ Glided(d.window, d.slowVs, d.fastVs, s, e)
       /\ Rested(d.landing, d.floor, d.ceiling, s, e)

FromLanded(d, e) ==
  /\ e.stable = d.stable /\ e.landed # Unset /\ d.landed # Unset
  /\ e.confirmed # Unset /\ ~ArmedTest(e) /\ ~ReleasedTest(e)

LEMMA RecordedShows ==
  ASSUME NEW d \in DropTestController, NEW s \in DropSample, Going(d)
  PROVE  LET e == Recorded(d, s) IN
         /\ ArmedTest(d) => FromArmed(d, s, e)
         /\ ReleasedTest(d) => FromReleased(d, s, e)
         /\ LandedTest(d) => FromLanded(d, e)
<1> DEFINE e == Recorded(d, s)
<1>1. d.recording
  BY DEF Going, ArmedTest, ReleasedTest, LandedTest
<1>2. CASE TimedOut(d)
  <2>1. {"TIMEOUT", "COMPLETE"} \in SUBSET DropTestEvent
    BY DEF DropTestEvent
  <2>2. e = Finish(d, "TEST_COMPLETE", {"TIMEOUT", "COMPLETE"})
    BY <1>1, <1>2 DEF Recorded
  <2> HIDE DEF e
  <2>3. IdleTest(e) /\ Kept(d, e)
    BY <2>1, <2>2, FinishEnds, EndsKeep
  <2>4. ~ArmedTest(e) /\ ~ReleasedTest(e)
    BY <2>3 DEF IdleTest, ArmedTest, ReleasedTest
  <2>5. ArmedTest(d) => FromArmed(d, s, e)
    BY <2>3, <2>4 DEF Kept, SameGlide, SameRest, SameBase, ArmedTest, FromArmed, Quietly
  <2>6. ReleasedTest(d) => FromReleased(d, s, e)
    BY <2>3, <2>4 DEF Kept, SameGlide, SameRest, SameBase, ReleasedTest, FromReleased,
                      StableShown, LandingShown
  <2>7. LandedTest(d) => FromLanded(d, e)
    BY <2>3, <2>4 DEF Kept, SameGlide, SameRest, SameBase, LandedTest, FromLanded
  <2> QED
    BY <2>5, <2>6, <2>7 DEF e
<1>3. CASE ~TimedOut(d)
  <2> DEFINE b == Begin(d)
             r == IF d.state \in PreRelease THEN Release(b, s) ELSE b
             f == Descend(r, s)
  <2>1. e = PostLanding(f)
    BY <1>1, <1>3 DEF Recorded
  <2>2. /\ b \in DropTestController /\ b.state = d.state /\ Kept(d, b)
        /\ ArmedTest(d) => ArmedTest(b)
        /\ ReleasedTest(d) => ReleasedTest(b)
        /\ LandedTest(d) => LandedTest(b)
    BY BeginChangesNothing, EndsKeep
  <2> HIDE DEF e, b
  <2>3. CASE ArmedTest(d)
    <3>1. r = Release(b, s)
      BY <2>3 DEF ArmedTest
    <3>2. r \in DropTestController
      BY <2>2, <2>3, <3>1, ReleaseReleases
    <3>3. \/ ArmedTest(r) /\ Onsets(b, s, r) /\ r.armAlt = b.armAlt
          \/ /\ JustReleased(r) /\ ReleaseShown(b, s, r) /\ ~r.stable
             /\ r.slowVs = s.vs /\ r.fastVs = s.vs
      BY <2>2, <2>3, <3>1, ReleaseShows
    <3> HIDE DEF r
    <3>4. CASE ArmedTest(r) /\ Onsets(b, s, r) /\ r.armAlt = b.armAlt
      <4>1. f = r
        BY <3>4 DEF Descend, ArmedTest, PreRelease, PostRelease
      <4>2. ~LandedTest(r) /\ Going(r)
        BY <3>4 DEF ArmedTest, LandedTest, Going
      <4>3. e = r
        BY <2>1, <3>2, <4>1, <4>2, PostLandingEnds
      <4>4. /\ Quietly(d, r) /\ Onsets(d, s, r) /\ ~ReleasedTest(r)
        BY <2>2, <3>4 DEF Quietly, Onsets, ArmedTest, ReleasedTest, Kept, SameBase
      <4> QED
        BY <2>3, <4>3, <4>4 DEF e, FromArmed, ReleasedTest, LandedTest, ArmedTest
    <3>5. CASE /\ JustReleased(r) /\ ReleaseShown(b, s, r) /\ ~r.stable
               /\ r.slowVs = s.vs /\ r.fastVs = s.vs
      <4>1. ReleasedTest(r) /\ r.window = 0 /\ r.landing = Unset /\ r.landed = Unset
        BY <3>5 DEF JustReleased, ReleasedTest
      <4>2. /\ f \in DropTestController /\ ReleasedTest(f) /\ f.stable = r.stable
        BY <3>2, <3>5, <4>1, DescendDescends
      <4>3. Reveals(r, s, f)
        BY <3>2, <4>1, DescendShows
      <4> HIDE DEF f
      <4>4. ~LandedTest(f) /\ Going(f)
        BY <4>2 DEF ReleasedTest, LandedTest, Going
      <4>5. e = f
        BY <2>1, <4>2, <4>4, PostLandingEnds
      <4>6. Glided(Unset, s.vs, s.vs, s, f)
        <5>1. s.vs \in Int
          BY DEF DropSample
        <5>2. Higher(s.vs, s.vs) = s.vs /\ Lower(s.vs, s.vs) = s.vs /\ 0 # Unset
          BY <5>1, TimerFacts DEF Higher, Lower
        <5> QED
          BY <3>5, <4>1, <4>3, <5>2 DEF Reveals, Glided
      <4>7. Rested(Unset, s.alt, s.alt, s, f)
        BY <4>1, <4>3 DEF Reveals, Rested
      <4>8. /\ f.confirmed # Unset /\ f.landed = Unset /\ ~f.stable /\ ~ArmedTest(f)
        BY <3>5, <4>2 DEF ReleasedTest, ArmedTest
      <4>9. ReleaseShown(d, s, f)
        BY <2>2, <3>5, <4>3 DEF ReleaseShown, Reveals, Kept, SameBase, BaroRelease
      <4> QED
        BY <2>3, <4>5, <4>6, <4>7, <4>8, <4>9
        DEF e, FromArmed, ArmedTest, ReleasedTest, LandedTest
    <3> QED
      BY <3>3, <3>4, <3>5
  <2>4. CASE ReleasedTest(d)
    <3>1. r = b
      BY <2>4 DEF ReleasedTest, PreRelease, PostRelease
    <3>2. /\ f \in DropTestController /\ (ReleasedTest(f) \/ LandedTest(f))
          /\ Reveals(b, s, f)
      BY <2>2, <2>4, <3>1, DescendDescends, DescendShows
    <3> HIDE DEF f, r
    <3>3. Kept(f, e) /\ (e = f \/ IdleTest(e))
      BY <2>1, <3>2, PostLandingEnds, EndsKeep DEF Going
    <3>4. e.confirmed # Unset /\ ~ArmedTest(e)
      BY <3>2, <3>3 DEF Kept, SameBase, ReleasedTest, LandedTest, ArmedTest
    <3>5. Glided(d.window, d.slowVs, d.fastVs, s, e) /\ StableShown(d, e)
      BY <2>2, <3>2, <3>3 DEF Reveals, Kept, SameGlide, Glided, StableShown
    <3>6. Rested(d.landing, d.floor, d.ceiling, s, e) /\ LandingShown(d, e)
      BY <2>2, <3>2, <3>3 DEF Reveals, Kept, SameRest, Rested, LandingShown
    <3> QED
      BY <2>4, <3>4, <3>5, <3>6 DEF e, FromReleased, ArmedTest, ReleasedTest, LandedTest
  <2>5. CASE LandedTest(d)
    <3>1. r = b
      BY <2>5 DEF LandedTest, PreRelease
    <3>2. f = b
      BY <2>2, <2>5, <3>1 DEF Descend, LandedTest
    <3>3. Going(b) /\ LandedTest(b)
      BY <2>2, <2>5 DEF Going
    <3>4. Kept(b, e) /\ (e = b \/ IdleTest(e))
      BY <2>1, <2>2, <3>2, <3>3, PostLandingEnds, EndsKeep
    <3>5. FromLanded(d, e)
      BY <2>2, <2>5, <3>3, <3>4 DEF FromLanded, Kept, SameGlide, SameRest, SameBase,
         LandedTest, IdleTest, ArmedTest, ReleasedTest
    <3> QED
      BY <2>5, <3>5 DEF e, ArmedTest, ReleasedTest, LandedTest
  <2> QED
    BY <2>3, <2>4, <2>5 DEF Going
<1> QED
  BY <1>2, <1>3

\* The runs of the history and the windows of the controller.  A run within the
\* range is the whole window; a window that is too wide has lost it.
Glides(window, slow, fast, run) ==
  /\ window = Unset <=> run.age = Unset
  /\ window # Unset /\ slow - fast <= Config.stableRange =>
       run.age >= window /\ run.hi = slow /\ run.lo = fast

Rests(landing, floor, ceiling, run) ==
  /\ landing = Unset <=> run.age = Unset
  /\ landing # Unset => run.age >= landing /\ run.hi = ceiling /\ run.lo = floor

LEMMA LaterIsLater ==
  ASSUME NEW a \in Timer, NEW b \in Timer, a <= b, NEW dt \in Nat
  PROVE  Later(a, dt) <= Later(b, dt)
BY AgeCapIsNat DEF Later, Timer, Age, Unset

LEMMA RunsAsGlides ==
  ASSUME NEW window \in Timer, NEW slow \in Int, NEW fast \in Int, NEW run \in SpanType,
         Glides(window, slow, fast, run), NEW s \in DropSample, NEW dt \in Nat, NEW e,
         Glided(Later(window, dt), slow, fast, s, e)
  PROVE  Glides(e.window, e.slowVs, e.fastVs,
                Steady(run, StableSample(s), s.vs, Config.stableRange, dt))
<1> DEFINE w == Later(window, dt)
           width == Config.stableRange
           high == Higher(run.hi, s.vs)
           low == Lower(run.lo, s.vs)
           anew == [age |-> 0, lo |-> s.vs, hi |-> s.vs]
           n == Steady(run, StableSample(s), s.vs, width, dt)
<1>1. /\ s.vs \in Int /\ run.age \in Timer /\ run.lo \in Int /\ run.hi \in Int
      /\ Unset = -1 /\ width \in Int
  BY DropConfigAssumption DEF DropSample, SpanType, Unset, DropTestConfig
<1>2. w \in Timer /\ (w = Unset <=> window = Unset)
  BY LaterIsTimer
<1>3. Later(run.age, dt) \in Timer /\ (Later(run.age, dt) = Unset <=> run.age = Unset)
  BY <1>1, LaterIsTimer
<1>4. CASE ~StableSample(s)
  <2>1. n.age = Unset
    BY <1>4 DEF Steady, Span, NoSpan
  <2> HIDE DEF n
  <2>2. e.window = Unset
    BY <1>4 DEF Glided
  <2> QED
    BY <2>1, <2>2 DEF n, Glides
<1>5. CASE StableSample(s) /\ window = Unset
  <2>1. run.age = Unset
    BY <1>5 DEF Glides
  <2>2. n = anew
    BY <1>5, <2>1 DEF Steady, Span, NoSpan
  <2>3. e.window = 0 /\ e.slowVs = s.vs /\ e.fastVs = s.vs
    BY <1>2, <1>5 DEF Glided
  <2> HIDE DEF n
  <2> QED
    BY <1>1, <2>2, <2>3 DEF n, Glides
<1>6. CASE StableSample(s) /\ window # Unset
  <2>1. run.age # Unset
    BY <1>6 DEF Glides
  <2> DEFINE later == Later(run.age, dt)
             r == [age |-> later, lo |-> low, hi |-> high]
  <2>2. n = IF high - low <= width THEN r ELSE anew
    BY <1>6, <2>1 DEF Steady, Span, NoSpan
  <2>3. /\ e.window = w /\ e.slowVs = Higher(slow, s.vs) /\ e.fastVs = Lower(fast, s.vs)
    BY <1>2, <1>6 DEF Glided
  <2>4. later # Unset /\ 0 # Unset /\ w # Unset
    BY <1>1, <1>2, <1>3, <1>6, <2>1
  <2>5. ASSUME e.slowVs - e.fastVs <= width
        PROVE  n = r /\ high = e.slowVs /\ low = e.fastVs /\ later >= w
    <3>1. slow - fast <= width
      BY <1>1, <2>3, <2>5 DEF Higher, Lower
    <3>2. run.hi = slow /\ run.lo = fast /\ run.age >= window
      BY <1>6, <3>1 DEF Glides
    <3>3. high = e.slowVs /\ low = e.fastVs
      BY <2>3, <3>2
    <3>4. later >= w
      BY <1>1, <1>2, <1>3, <3>2, LaterIsLater DEF Timer, Age
    <3> HIDE DEF n
    <3> QED
      BY <2>2, <2>5, <3>3, <3>4
  <2>6. n.age # Unset
    BY <2>2, <2>4
  <2> HIDE DEF n, w, later, high, low
  <2> QED
    BY <2>3, <2>4, <2>5, <2>6 DEF Glides, n
<1> QED
  BY <1>4, <1>5, <1>6

LEMMA RunsAsRests ==
  ASSUME NEW landing \in Timer, NEW floor \in Int, NEW ceiling \in Int, NEW run \in SpanType,
         Rests(landing, floor, ceiling, run), NEW s \in DropSample, NEW dt \in Nat, NEW e,
         Rested(Later(landing, dt), floor, ceiling, s, e)
  PROVE  Rests(e.landing, e.floor, e.ceiling, Span(run, LandingSample(s), s.alt, dt))
<1> DEFINE w == Later(landing, dt)
           n == Span(run, LandingSample(s), s.alt, dt)
<1>1. s.alt \in Int /\ run.age \in Timer /\ run.lo \in Int /\ run.hi \in Int /\ Unset = -1
  BY DEF DropSample, SpanType, Unset
<1>2. w \in Timer /\ (w = Unset <=> landing = Unset)
  BY LaterIsTimer
<1>3. Later(run.age, dt) \in Timer /\ (Later(run.age, dt) = Unset <=> run.age = Unset)
  BY <1>1, LaterIsTimer
<1>4. CASE ~LandingSample(s)
  BY <1>4 DEF Span, NoSpan, Rested, Rests
<1>5. CASE LandingSample(s) /\ landing = Unset
  <2>1. n = [age |-> 0, lo |-> s.alt, hi |-> s.alt]
    BY <1>5 DEF Span, Rests
  <2>2. e.landing = 0 /\ e.floor = s.alt /\ e.ceiling = s.alt
    BY <1>2, <1>5 DEF Rested
  <2> QED
    BY <1>1, <2>1, <2>2 DEF Rests
<1>6. CASE LandingSample(s) /\ landing # Unset
  <2>1. run.age # Unset /\ run.hi = ceiling /\ run.lo = floor /\ run.age >= landing
    BY <1>6 DEF Rests
  <2>2. n = [age |-> Later(run.age, dt), lo |-> Lower(floor, s.alt), hi |-> Higher(ceiling, s.alt)]
    BY <1>6, <2>1 DEF Span
  <2>3. e.landing = w /\ e.floor = Lower(floor, s.alt) /\ e.ceiling = Higher(ceiling, s.alt)
    BY <1>2, <1>6 DEF Rested
  <2>4. Later(run.age, dt) >= w
    BY <1>1, <1>2, <1>3, <2>1, LaterIsLater DEF Timer, Age
  <2> DEFINE age == Later(run.age, dt)
             low == Lower(floor, s.alt)
             high == Higher(ceiling, s.alt)
  <2> HIDE DEF w, n, age, low, high
  <2>5. n.age = age /\ n.hi = high /\ n.lo = low
    BY <2>2 DEF age, low, high
  <2>6. age # Unset /\ w # Unset
    BY <1>2, <1>3, <1>6, <2>1 DEF age
  <2>7. Rests(e.landing, e.floor, e.ceiling, n)
    BY <2>3, <2>4, <2>5, <2>6 DEF Rests, age, low, high
  <2> QED
    BY <2>7 DEF n
<1> QED
  BY <1>4, <1>5, <1>6

\* What the history knows of a test.
Witnessed(d, h) ==
  /\ ArmedTest(d) => /\ d.onset # Unset => h.jolt # Unset /\ h.jolt >= d.onset
                     /\ h.glide = NoSpan /\ h.rest = NoSpan
  /\ ReleasedTest(d) => /\ Glides(d.window, d.slowVs, d.fastVs, h.glide)
                        /\ Rests(d.landing, d.floor, d.ceiling, h.rest)

\* A milestone passed from d to e has its evidence in h.
Evident(d, e, h) ==
  /\ d.confirmed = Unset /\ e.confirmed # Unset =>
       h.jolt >= Config.releaseConfirm /\ h.fall # Unset
  /\ ~d.stable /\ e.stable => h.glide.age >= Config.stableWindow
  /\ d.landed = Unset /\ e.landed # Unset =>
       /\ h.rest.age >= Config.landConfirm
       /\ h.rest.hi - h.rest.lo <= Config.landSpan

\* a is d with its timers older by dt.
OlderTest(d, a, dt) ==
  /\ a.onset = Later(d.onset, dt) /\ a.window = Later(d.window, dt)
  /\ a.landing = Later(d.landing, dt)
  /\ a.slowVs = d.slowVs /\ a.fastVs = d.fastVs /\ a.floor = d.floor
  /\ a.ceiling = d.ceiling /\ a.stable = d.stable

LEMMA SampleWitnesses ==
  ASSUME NEW d \in DropTestController, NEW h \in History, Witnessed(d, h),
         NEW a \in DropTestController, NEW dt \in Nat, OlderTest(d, a, dt), Going(a),
         ArmedTest(a) => ArmedTest(d), ReleasedTest(a) => ReleasedTest(d),
         NEW s \in DropSample, NEW e \in DropTestController, e = Recorded(a, s)
  PROVE  LET n == Watched(h, e, s, dt) IN Witnessed(e, n) /\ Evident(a, e, n)
<1> DEFINE n == Watched(h, e, s, dt)
           flying == e.confirmed # Unset
           jolt == IF h.jolt # Unset THEN Later(h.jolt, dt)
                   ELSE IF ImuRelease(s) THEN 0 ELSE Unset
           fall == IF ~BaroRelease(e, s) THEN Unset
                   ELSE IF h.fall = Unset THEN 0 ELSE Later(h.fall, dt)
           glide == Steady(h.glide, flying /\ StableSample(s), s.vs, Config.stableRange, dt)
           rest == Span(h.rest, flying /\ LandingSample(s), s.alt, dt)
<1>1. n.jolt = jolt /\ n.fall = fall /\ n.glide = glide /\ n.rest = rest
  BY DEF Watched
<1>2. /\ ArmedTest(a) => FromArmed(a, s, e)
      /\ ReleasedTest(a) => FromReleased(a, s, e)
      /\ LandedTest(a) => FromLanded(a, e)
  BY RecordedShows
<1>3. /\ d.onset \in Timer /\ d.window \in Timer /\ d.landing \in Timer
      /\ d.slowVs \in Int /\ d.fastVs \in Int /\ d.floor \in Int /\ d.ceiling \in Int
      /\ h.jolt \in Timer /\ h.fall \in Timer /\ h.glide \in SpanType /\ h.rest \in SpanType
      /\ Unset = -1 /\ 0 # Unset /\ Config.releaseConfirm \in Nat \ {0}
  BY ConfigFacts DEF DropTestController, History, Unset
<1>4. ~flying => glide = NoSpan /\ rest = NoSpan
  BY DEF Steady, Span, NoSpan
<1> HIDE DEF n
<1>5. CASE ArmedTest(a)
  <2>1. /\ d.onset # Unset => h.jolt # Unset /\ h.jolt >= d.onset
        /\ h.glide = NoSpan /\ h.rest = NoSpan
    BY <1>5 DEF Witnessed
  <2>2. a.onset = Later(d.onset, dt) /\ a.confirmed = Unset /\ ~a.stable
    BY <1>5 DEF OlderTest, ArmedTest
  <2>3. a.onset \in Timer /\ (a.onset # Unset => jolt # Unset /\ jolt >= a.onset)
    <3>1. a.onset \in Timer /\ (a.onset = Unset <=> d.onset = Unset)
      BY <1>3, <2>2, LaterIsTimer
    <3>2. Later(h.jolt, dt) \in Timer /\ (Later(h.jolt, dt) = Unset <=> h.jolt = Unset)
      BY <1>3, LaterIsTimer
    <3>3. d.onset # Unset => a.onset <= Later(h.jolt, dt)
      BY <1>3, <2>1, <2>2, LaterIsLater DEF Timer, Age
    <3> QED
      BY <1>3, <2>1, <3>1, <3>2, <3>3 DEF Timer, Age
  <2>4. ImuRelease(s) => jolt # Unset /\ jolt >= 0
    <3>1. Later(h.jolt, dt) \in Timer /\ (Later(h.jolt, dt) = Unset <=> h.jolt = Unset)
      BY <1>3, LaterIsTimer
    <3> QED
      BY <1>3, <3>1 DEF Timer, Age
  <2> HIDE DEF jolt, fall, glide, rest
  <2>5. CASE Quietly(a, e) /\ (ArmedTest(e) => Onsets(a, s, e)) /\ ~ReleasedTest(e)
    <3>1. ~flying /\ e.landed = Unset /\ ~e.stable
      BY <2>5 DEF Quietly
    <3>2. ArmedTest(e) => (e.onset # Unset => jolt # Unset /\ jolt >= e.onset)
      BY <2>3, <2>4, <2>5 DEF Onsets
    <3>3. Witnessed(e, n)
      BY <1>1, <1>4, <2>5, <3>1, <3>2 DEF Witnessed
    <3>4. Evident(a, e, n)
      BY <3>1 DEF Evident
    <3> QED
      BY <3>3, <3>4 DEF n
  <2>6. CASE /\ e.confirmed # Unset /\ e.landed = Unset /\ ~e.stable /\ ~ArmedTest(e)
             /\ ReleaseShown(a, s, e)
             /\ Glided(Unset, s.vs, s.vs, s, e) /\ Rested(Unset, s.alt, s.alt, s, e)
    <3>1. NoSpan \in SpanType /\ NoSpan.age = Unset /\ s.vs \in Int /\ s.alt \in Int
      BY TimerFacts DEF NoSpan, SpanType, DropSample
    <3>2. Glides(Unset, s.vs, s.vs, NoSpan) /\ Rests(Unset, s.alt, s.alt, NoSpan)
      BY <3>1 DEF Glides, Rests
    <3>3. Later(Unset, dt) = Unset /\ Unset \in Timer
      BY TimerFacts DEF Later
    <3>4. Glides(e.window, e.slowVs, e.fastVs,
                 Steady(NoSpan, StableSample(s), s.vs, Config.stableRange, dt))
      BY <2>6, <3>1, <3>2, <3>3, RunsAsGlides
    <3>5. Rests(e.landing, e.floor, e.ceiling, Span(NoSpan, LandingSample(s), s.alt, dt))
      BY <2>6, <3>1, <3>2, <3>3, RunsAsRests
    <3>6. /\ glide = Steady(NoSpan, StableSample(s), s.vs, Config.stableRange, dt)
          /\ rest = Span(NoSpan, LandingSample(s), s.alt, dt)
      <4>1. (flying /\ StableSample(s)) = StableSample(s)
            /\ (flying /\ LandingSample(s)) = LandingSample(s)
        BY <2>6 DEF StableSample, LandingSample
      <4> QED
        BY <2>1, <4>1 DEF glide, rest
    <3>7. Witnessed(e, n)
      BY <1>1, <2>6, <3>4, <3>5, <3>6 DEF Witnessed
    <3>8. fall # Unset
      <4>1. BaroRelease(e, s)
        BY <2>6 DEF ReleaseShown, BaroRelease
      <4>2. h.fall # Unset => Later(h.fall, dt) # Unset
        BY <1>3, LaterIsTimer
      <4> QED
        BY <1>3, <4>1, <4>2 DEF fall
    <3>9. jolt >= Config.releaseConfirm
      <4>1. a.onset >= Config.releaseConfirm
        BY <1>3, <2>6 DEF ReleaseShown
      <4>2. jolt \in Timer
        BY <1>3, LaterIsTimer, TimerFacts DEF jolt
      <4>3. AgeCap \in Nat
        BY AgeCapIsNat
      <4> QED
        BY <1>3, <2>3, <4>1, <4>2, <4>3 DEF Timer, Age
    <3>10. Evident(a, e, n)
      BY <1>1, <2>6, <3>8, <3>9 DEF Evident
    <3> QED
      BY <3>7, <3>10 DEF n
  <2> QED
    BY <1>2, <1>5, <2>5, <2>6 DEF FromArmed
<1>6. CASE ReleasedTest(a)
  <2>1. /\ Glides(d.window, d.slowVs, d.fastVs, h.glide)
        /\ Rests(d.landing, d.floor, d.ceiling, h.rest)
    BY <1>6 DEF Witnessed
  <2>2. FromReleased(a, s, e) /\ a.confirmed # Unset
    BY <1>2, <1>6 DEF ReleasedTest
  <2>3. flying /\ ~ArmedTest(e) /\ StableShown(a, e) /\ LandingShown(a, e)
    BY <2>2 DEF FromReleased
  <2>4. /\ glide = Steady(h.glide, StableSample(s), s.vs, Config.stableRange, dt)
        /\ rest = Span(h.rest, LandingSample(s), s.alt, dt)
    <3>1. (flying /\ StableSample(s)) = StableSample(s)
          /\ (flying /\ LandingSample(s)) = LandingSample(s)
      BY <2>3 DEF StableSample, LandingSample
    <3> QED
      BY <3>1
  <2> HIDE DEF jolt, fall, glide, rest
  <2>5. ASSUME e.stable # a.stable \/ e.landed # a.landed \/ ReleasedTest(e)
        PROVE  /\ Glides(e.window, e.slowVs, e.fastVs, n.glide)
               /\ Rests(e.landing, e.floor, e.ceiling, n.rest)
    <3>1. /\ Glided(Later(d.window, dt), d.slowVs, d.fastVs, s, e)
          /\ Rested(Later(d.landing, dt), d.floor, d.ceiling, s, e)
      BY <2>2, <2>5 DEF FromReleased, OlderTest
    <3>2. Glides(e.window, e.slowVs, e.fastVs, glide)
      BY <1>3, <2>1, <2>4, <3>1, RunsAsGlides
    <3>3. Rests(e.landing, e.floor, e.ceiling, rest)
      BY <1>3, <2>1, <2>4, <3>1, RunsAsRests
    <3> QED
      BY <1>1, <3>2, <3>3
  <2>6. Witnessed(e, n)
    BY <2>3, <2>5 DEF Witnessed
  <2>7. /\ e.window \in Timer /\ e.landing \in Timer /\ AgeCap \in Nat
        /\ e.slowVs \in Int /\ e.fastVs \in Int /\ e.floor \in Int /\ e.ceiling \in Int
        /\ Config.stableWindow \in Nat \ {0} /\ Config.landConfirm \in Nat \ {0}
    BY ConfigFacts, AgeCapIsNat DEF DropTestController
  <2>8. glide.age \in Timer
    <3>1. StableSample(s) \in BOOLEAN /\ s.vs \in Int
      BY DEF StableSample, DropSample
    <3> QED
      BY <1>3, <2>4, <3>1, SpanIsTyped DEF Steady, SpanType
  <2>9. rest.age \in Timer
    <3>1. LandingSample(s) \in BOOLEAN /\ s.alt \in Int
      BY DEF LandingSample, DropSample
    <3> QED
      BY <1>3, <2>4, <3>1, SpanIsTyped DEF SpanType
  <2>10. ~a.stable /\ e.stable => n.glide.age >= Config.stableWindow
    <3> SUFFICES ASSUME ~a.stable, e.stable PROVE n.glide.age >= Config.stableWindow
      OBVIOUS
    <3>1. e.window >= Config.stableWindow /\ e.slowVs - e.fastVs <= Config.stableRange
      BY <2>3 DEF StableShown
    <3>2. e.window # Unset
      BY <1>3, <2>7, <3>1
    <3>3. n.glide.age >= e.window
      BY <2>5, <3>1, <3>2 DEF Glides
    <3> QED
      BY <1>1, <1>3, <2>7, <2>8, <3>1, <3>3 DEF Timer, Age
  <2>11. a.landed = Unset /\ e.landed # Unset =>
           /\ n.rest.age >= Config.landConfirm
           /\ n.rest.hi - n.rest.lo <= Config.landSpan
    <3> SUFFICES ASSUME a.landed = Unset, e.landed # Unset
                 PROVE  /\ n.rest.age >= Config.landConfirm
                        /\ n.rest.hi - n.rest.lo <= Config.landSpan
      OBVIOUS
    <3>1. e.landing >= Config.landConfirm /\ e.ceiling - e.floor <= Config.landSpan
      BY <2>3 DEF LandingShown
    <3>2. e.landing # Unset
      BY <1>3, <2>7, <3>1
    <3>3. n.rest.age >= e.landing /\ n.rest.hi = e.ceiling /\ n.rest.lo = e.floor
      BY <2>5, <3>2 DEF Rests
    <3> QED
      BY <1>1, <1>3, <2>7, <2>9, <3>1, <3>3 DEF Timer, Age
  <2>12. Evident(a, e, n)
    BY <2>2, <2>10, <2>11 DEF Evident
  <2> QED
    BY <2>6, <2>12 DEF n
<1>7. CASE LandedTest(a)
  <2>1. FromLanded(a, e) /\ a.confirmed # Unset
    BY <1>2, <1>7 DEF LandedTest
  <2>2. Witnessed(e, n) /\ Evident(a, e, n)
    BY <2>1 DEF FromLanded, Witnessed, Evident
  <2> QED
    BY <2>2 DEF n
<1> QED
  BY <1>5, <1>6, <1>7 DEF Going

LEMMA AgedIsOlder ==
  ASSUME NEW d \in DropTestController, NEW dt \in Nat, d.recording
  PROVE  LET a == Aged(d, dt) IN
         /\ OlderTest(d, a, dt)
         /\ a.confirmed = Later(d.confirmed, dt) /\ a.landed = Later(d.landed, dt)
<1> DEFINE armed == d.armed + dt
           onset == Later(d.onset, dt)
           confirmed == Later(d.confirmed, dt)
           window == Later(d.window, dt)
           landing == Later(d.landing, dt)
           landed == Later(d.landed, dt)
           a == Aged(d, dt)
<1>1. a = [d EXCEPT !.armed = armed, !.onset = onset, !.confirmed = confirmed,
                    !.window = window, !.landing = landing, !.landed = landed]
  BY DEF Aged
<1> HIDE DEF a, armed, onset, confirmed, window, landing, landed
<1>2. /\ a.onset = onset /\ a.window = window /\ a.landing = landing
      /\ a.confirmed = confirmed /\ a.landed = landed
      /\ a.slowVs = d.slowVs /\ a.fastVs = d.fastVs /\ a.floor = d.floor
      /\ a.ceiling = d.ceiling /\ a.stable = d.stable
  BY <1>1 DEF DropTestController
<1> QED
  BY <1>2 DEF a, OlderTest, onset, confirmed, window, landing, landed

\* The inductive invariant of the evidence.
WitnessInv == Witnessed(drop, seen)

\* The evidence a step must have, given its invariant.
HadEvidence ==
  /\ tests' = tests /\ drop.confirmed = Unset /\ drop'.confirmed # Unset =>
       seen'.jolt >= Config.releaseConfirm /\ seen'.fall # Unset
  /\ ~drop.stable /\ drop'.stable => seen'.glide.age >= Config.stableWindow
  /\ drop.landed = Unset /\ drop'.landed # Unset =>
       /\ seen'.rest.age >= Config.landConfirm
       /\ seen'.rest.hi - seen'.rest.lo <= Config.landSpan

LEMMA WitnessStarts == Init => WitnessInv
<1>1. ~ArmedTest(NoTest) /\ ~ReleasedTest(NoTest)
  BY NoTestIsIdle DEF IdleTest, ArmedTest, ReleasedTest
<1> QED
  BY <1>1 DEF Init, WitnessInv, Witnessed

LEMMA WitnessKeeps ==
  ASSUME Inv, Inv', WitnessInv, [Next]_dropVars
  PROVE  WitnessInv' /\ HadEvidence
<1>1. drop \in DropTestController /\ seen \in History /\ Orderly(drop)
      /\ drop' \in DropTestController /\ seen' \in History
  BY DEF Inv
<1>2. ASSUME NEW s \in DropSamples, NEW dt \in Ticks, Iterate(s, dt)
      PROVE  WitnessInv' /\ HadEvidence
  <2>1. s \in DropSample /\ dt \in Nat
    BY EnvironmentIsTyped
  <2>2. CASE IdleTest(drop)
    <3>1. drop' = drop /\ seen' = seen
      BY <1>2, <2>2, IterateFollows
    <3> QED
      BY <3>1 DEF WitnessInv, HadEvidence
  <2>3. CASE Going(drop)
    <3> DEFINE a == Aged(drop, dt)
    <3>1. drop.recording
      BY <2>3 DEF Going, ArmedTest, ReleasedTest, LandedTest
    <3>2. /\ a \in DropTestController /\ a.stable = drop.stable
          /\ ArmedTest(drop) => ArmedTest(a)
          /\ ReleasedTest(drop) => ReleasedTest(a)
          /\ LandedTest(drop) => LandedTest(a)
      BY <2>1, AgedIsOrderly DEF Inv
    <3>3. /\ OlderTest(drop, a, dt)
          /\ a.confirmed = Later(drop.confirmed, dt) /\ a.landed = Later(drop.landed, dt)
      BY <1>1, <2>1, <3>1, AgedIsOlder
    <3>4. drop' = Record(a, s) /\ seen' = Watched(seen, drop', s, dt) /\ tests' = tests
      BY <1>2, <3>1 DEF Iterate
    <3> HIDE DEF a
    <3>5. Going(a) /\ (ArmedTest(a) => ArmedTest(drop)) /\ (ReleasedTest(a) => ReleasedTest(drop))
      BY <2>3, <3>2 DEF Going, ArmedTest, ReleasedTest, LandedTest, PreRelease, PostRelease
    <3>6. drop' = Recorded(a, s)
      BY <3>4, <3>5 DEF Record, Going, ArmedTest, ReleasedTest, LandedTest
    <3>7. Witnessed(drop', seen') /\ Evident(a, drop', seen')
      BY <1>1, <2>1, <3>2, <3>3, <3>4, <3>5, <3>6, SampleWitnesses DEF WitnessInv
    <3>8. /\ a.confirmed = Unset <=> drop.confirmed = Unset
          /\ a.landed = Unset <=> drop.landed = Unset
      BY <1>1, <2>1, <3>3, LaterIsTimer DEF DropTestController
    <3> QED
      BY <3>2, <3>7, <3>8 DEF WitnessInv, HadEvidence, Evident
  <2> QED
    BY <1>1, <2>2, <2>3 DEF Orderly, Going
<1>3. ASSUME NEW s \in DropSamples, NEW lead \in Leads, Arm(s, lead)
      PROVE  WitnessInv' /\ HadEvidence
  <2> DEFINE a == Armed(s.alt, lead)
  <2>1. s \in DropSample /\ lead \in Nat /\ s.alt \in Int /\ 0 \in Nat
    BY EnvironmentIsTyped DEF DropSample
  <2>2. a \in DropTestController /\ ArmedTest(a)
    BY <2>1, ArmedIsArmed
  <2>3. /\ drop' = Record(a, s) /\ seen' = Watched(Nothing, drop', s, 0)
        /\ tests' = tests + 1
    BY <1>3 DEF Arm
  <2>4. a.onset = Unset
    BY DEF Armed, NoTest
  <2> HIDE DEF a
  <2>5. drop' = Recorded(a, s) /\ Going(a) /\ ~ReleasedTest(a)
    BY <2>2, <2>3 DEF Record, Going, ArmedTest, ReleasedTest, PreRelease, PostRelease
  <2>6. Nothing \in History /\ Nothing.glide = NoSpan /\ Nothing.rest = NoSpan
    BY TimerFacts DEF Nothing, NoSpan, History, SpanType
  <2>7. Witnessed(a, Nothing)
    BY <2>4, <2>5, <2>6 DEF Witnessed
  <2>8. OlderTest(a, a, 0)
    <3>1. \A t \in Timer : Later(t, 0) = t
      BY AgeCapIsNat DEF Later, Timer, Age, Unset
    <3> QED
      BY <2>2, <3>1 DEF OlderTest, DropTestController
  <2>9. Witnessed(drop', seen') /\ Evident(a, drop', seen')
    BY <1>1, <2>1, <2>2, <2>3, <2>5, <2>6, <2>7, <2>8, SampleWitnesses
  <2>10. ~a.stable /\ a.landed = Unset
    BY <2>2 DEF ArmedTest
  <2>11. tests' # tests
    <3>1. tests \in Int
      BY DEF Inv
    <3> QED
      BY <2>3, <3>1
  <2> QED
    BY <2>9, <2>10, <2>11 DEF WitnessInv, HadEvidence, Evident
<1>4. ASSUME NEW dt \in Ticks, Abort(dt)
      PROVE  WitnessInv' /\ HadEvidence
  <2> DEFINE a == Aged(drop, dt)
  <2>1. Going(drop) /\ IdleTest(drop')
    BY <1>4, AbortFollows
  <2>2. ~ArmedTest(drop') /\ ~ReleasedTest(drop') /\ drop.recording /\ dt \in Nat
    BY <2>1, EnvironmentIsTyped
    DEF Going, IdleTest, ArmedTest, ReleasedTest, LandedTest
  <2>3. /\ OlderTest(drop, a, dt) /\ a \in DropTestController
        /\ a.confirmed = Later(drop.confirmed, dt) /\ a.landed = Later(drop.landed, dt)
    BY <1>1, <2>2, AgedIsOlder, AgedIsOrderly DEF Inv
  <2>4. drop' = Aborted(a)
    BY <1>4 DEF Abort
  <2> HIDE DEF a
  <2>5. drop' = a \/ drop' = Finish(a, "TEST_ABORTED", {"ABORTED"})
    BY <2>4 DEF Aborted
  <2>6. drop'.confirmed = a.confirmed /\ drop'.landed = a.landed /\ drop'.stable = a.stable
    BY <2>3, <2>5, EndsKeep DEF Kept, SameGlide, SameRest, SameBase
  <2>7. /\ a.confirmed = Unset <=> drop.confirmed = Unset
        /\ a.landed = Unset <=> drop.landed = Unset
    BY <1>1, <2>2, <2>3, LaterIsTimer DEF DropTestController
  <2> QED
    BY <2>2, <2>3, <2>6, <2>7 DEF WitnessInv, Witnessed, HadEvidence, OlderTest
<1>5. CASE UNCHANGED dropVars
  BY <1>5 DEF dropVars, WitnessInv, HadEvidence
<1> QED
  BY <1>2, <1>3, <1>4, <1>5 DEF Next, Loop

-----------------------------------------------------------------------------
(* The theorems.                                                            *)

\* The inductive invariant: a test is always in one of its four stages, with what
\* the stage claims.
THEOREM Invariance == Spec => []Inv
  BY InitHolds, StepPreserves, PTL DEF Spec

\* The recorder's record keeps its type (DropTestController).
THEOREM TypeCorrect == Spec => []TypeOK
<1>1. Inv => TypeOK
  BY DEF Inv, TypeOK, History, SpanType
<1> QED
  BY <1>1, Invariance, PTL

\* No milestone without those before it, whatever the samples, and whichever
\* candidates were rejected; and no recording is older than the longest test
\* (DropTestController::step).
THEOREM MilestonesHold == Spec => []MilestonesInOrder
<1>1. Inv => MilestonesInOrder
  BY DEF Inv, MilestonesInOrder, Orderly, IdleTest, ArmedTest, ReleasedTest, LandedTest,
         Claim, Idle, PreRelease, PostRelease
<1> QED
  BY <1>1, Invariance, PTL

\* Every test that ended sealed its log, once (DropTestController::step and abort,
\* publishDropTestOutput).
THEOREM SealedOnce == Spec => []EndSealsOnce
<1>1. Init => EndSealsOnce
  BY DEF Init, EndSealsOnce, NoTest
<1> QED
  BY <1>1, Invariance, SealsStep, PTL DEF Spec

-----------------------------------------------------------------------------
(* The recorder implements DropStages.                                       *)

\* The abstract state a controller stands for.
StageIn(d) ==
  CASE ~d.recording -> "idle"
    [] d.recording /\ d.state \in PreRelease -> "armed"
    [] d.recording /\ d.landed # Unset -> "landed"
    [] OTHER -> "released"

Shows(d, stage, canopy, stable) ==
  /\ StageIn(d) = stage
  /\ (d.recording /\ d.canopy) = canopy /\ (d.recording /\ d.stable) = stable

LEMMA StageOf ==
  ASSUME NEW d \in DropTestController
  PROVE  /\ IdleTest(d) => Shows(d, "idle", FALSE, FALSE)
         /\ ArmedTest(d) => Shows(d, "armed", FALSE, FALSE)
         /\ ReleasedTest(d) => Shows(d, "released", d.canopy, d.stable)
         /\ LandedTest(d) => Shows(d, "landed", d.canopy, d.stable)
<1>1. d.recording \in BOOLEAN /\ d.canopy \in BOOLEAN /\ d.stable \in BOOLEAN
  BY DEF DropTestController
<1>2. IdleTest(d) => Shows(d, "idle", FALSE, FALSE)
  BY <1>1 DEF IdleTest, Shows, StageIn
<1>3. ArmedTest(d) => Shows(d, "armed", FALSE, FALSE)
  BY <1>1 DEF ArmedTest, Shows, StageIn
<1>4. ReleasedTest(d) => Shows(d, "released", d.canopy, d.stable)
  BY <1>1 DEF ReleasedTest, Shows, StageIn, PreRelease, PostRelease
<1>5. LandedTest(d) => Shows(d, "landed", d.canopy, d.stable)
  BY <1>1 DEF LandedTest, Shows, StageIn, PreRelease
<1> QED
  BY <1>2, <1>3, <1>4, <1>5

\* A step between two controllers is a step between what they show.
LEMMA ShownStep ==
  ASSUME NEW STATE s1, NEW STATE c1, NEW STATE b1, c1 \in BOOLEAN, b1 \in BOOLEAN,
         NEW ACTION s2, NEW ACTION c2, NEW ACTION b2, c2 \in BOOLEAN, b2 \in BOOLEAN,
         Shows(drop, s1, c1, b1), Shows(drop', s2, c2, b2)
  PROVE  /\ s1 = "idle" /\ s2 = "armed" /\ c2 = FALSE /\ b2 = FALSE => Stages!ArmTest
         /\ s1 = "armed" /\ s2 = "released" /\ c2 = FALSE /\ b2 = FALSE
              => Stages!ReleaseTest
         /\ s1 = "released" /\ s2 \in {"released", "landed"} /\ c2 \in {c1, TRUE}
              /\ b2 \in {b1, TRUE} => Stages!Observe
         /\ s1 # "idle" /\ s2 = "idle" /\ c2 = FALSE /\ b2 = FALSE => Stages!EndTest
         /\ s1 = s2 /\ c1 = c2 /\ b1 = b2 => UNCHANGED Stages!stageVars
<1>1. Stage = s1 /\ Stage' = s2
  BY DEF Shows, Stage, StageIn
<1>2. /\ (drop.recording /\ drop.canopy) = c1 /\ (drop.recording /\ drop.stable) = b1
      /\ (drop.recording /\ drop.canopy)' = c2 /\ (drop.recording /\ drop.stable)' = b2
  BY DEF Shows
<1>3. s1 = s2 /\ c1 = c2 /\ b1 = b2 => UNCHANGED Stages!stageVars
  BY <1>1, <1>2 DEF Stages!stageVars
<1>4. s1 = "released" /\ s2 \in {"released", "landed"} /\ c2 \in {c1, TRUE}
        /\ b2 \in {b1, TRUE} => Stages!Observe
  <2> SUFFICES ASSUME s1 = "released", s2 \in {"released", "landed"},
                      c2 \in {c1, TRUE}, b2 \in {b1, TRUE}
               PROVE  Stages!Observe
    OBVIOUS
  <2> QED
    BY <1>1, <1>2 DEF Stages!Observe
<1>5. /\ s1 = "idle" /\ s2 = "armed" /\ c2 = FALSE /\ b2 = FALSE => Stages!ArmTest
      /\ s1 = "armed" /\ s2 = "released" /\ c2 = FALSE /\ b2 = FALSE
           => Stages!ReleaseTest
      /\ s1 # "idle" /\ s2 = "idle" /\ c2 = FALSE /\ b2 = FALSE => Stages!EndTest
  BY <1>1, <1>2 DEF Stages!ArmTest, Stages!ReleaseTest, Stages!EndTest
<1> QED
  BY <1>3, <1>4, <1>5

LEMMA StepImplements == Inv /\ [Next]_dropVars => [Stages!StagesNext]_Stages!stageVars
<1> SUFFICES ASSUME Inv, Next PROVE Stages!StagesNext \/ UNCHANGED Stages!stageVars
  BY DEF dropVars, Stages!stageVars, Stage
<1> USE DEF Stages!StagesNext
<1>0. drop \in DropTestController /\ drop.canopy \in BOOLEAN /\ drop.stable \in BOOLEAN
  BY DEF Inv, DropTestController
<1>1. ASSUME Going(drop), drop' \in DropTestController, IdleTest(drop')
      PROVE  Stages!EndTest
  <2>1. drop.recording /\ ~drop'.recording
    BY <1>1 DEF Going, ArmedTest, ReleasedTest, LandedTest, IdleTest
  <2>2. Stage # "idle" /\ Stage' = "idle"
    BY <2>1 DEF Stage
  <2> QED
    BY <2>1, <2>2 DEF Stages!EndTest
<1>2. ASSUME NEW s \in DropSamples, NEW dt \in Ticks, Iterate(s, dt)
      PROVE  Stages!StagesNext \/ UNCHANGED Stages!stageVars
  <2>1. CASE IdleTest(drop)
    <3>1. drop' = drop
      BY <1>2, <2>1, IterateFollows
    <3> QED
      BY <3>1 DEF Stages!stageVars, Stage
  <2>2. CASE Going(drop)
    <3>1. PICK a \in DropTestController :
            /\ a.canopy = drop.canopy /\ a.stable = drop.stable
            /\ ArmedTest(drop) => ArmedTest(a)
            /\ ReleasedTest(drop) => ReleasedTest(a)
            /\ LandedTest(drop) => LandedTest(a)
            /\ drop' \in DropTestController /\ Follows(a, drop')
      BY <1>2, <2>2, IterateFollows
    <3> drop'.canopy \in BOOLEAN /\ drop'.stable \in BOOLEAN
      BY <3>1 DEF DropTestController
    <3>2. CASE IdleTest(drop')
      BY <1>1, <2>2, <3>1, <3>2
    <3>3. CASE ~IdleTest(drop') /\ ArmedTest(drop)
      <4>1. Shows(drop, "armed", FALSE, FALSE)
        BY <1>0, <3>3, StageOf
      <4>2. \/ ArmedTest(drop')
            \/ ReleasedTest(drop') /\ ~drop'.canopy /\ ~drop'.stable
        BY <3>1, <3>3 DEF Follows
      <4>3. CASE ArmedTest(drop')
        BY <3>1, <4>1, <4>3, StageOf, ShownStep
      <4>4. CASE ReleasedTest(drop') /\ ~drop'.canopy /\ ~drop'.stable
        <5>1. drop'.canopy = FALSE /\ drop'.stable = FALSE
          BY <3>1, <4>4 DEF DropTestController
        <5>2. Shows(drop', "released", FALSE, FALSE)
          BY <3>1, <4>4, <5>1, StageOf
        <5> QED
          BY <4>1, <5>2, ShownStep
      <4> QED
        BY <4>2, <4>3, <4>4
    <3>4. CASE ~IdleTest(drop') /\ ReleasedTest(drop)
      <4>1. Shows(drop, "released", drop.canopy, drop.stable)
        BY <1>0, <3>4, StageOf
      <4>2. /\ ReleasedTest(drop') \/ LandedTest(drop')
            /\ drop.canopy => drop'.canopy
            /\ drop.stable => drop'.stable
        BY <3>1, <3>4 DEF Follows
      <4>3. drop'.canopy \in {drop.canopy, TRUE} /\ drop'.stable \in {drop.stable, TRUE}
        BY <1>0, <3>1, <4>2 DEF DropTestController
      <4>4. \E stage \in {"released", "landed"} :
              Shows(drop', stage, drop'.canopy, drop'.stable)
        BY <3>1, <4>2, StageOf
      <4> QED
        BY <1>0, <4>1, <4>3, <4>4, ShownStep
    <3>5. CASE ~IdleTest(drop') /\ LandedTest(drop)
      <4>1. Shows(drop, "landed", drop.canopy, drop.stable)
        BY <1>0, <3>5, StageOf
      <4>2. LandedTest(drop') /\ drop'.canopy = drop.canopy /\ drop'.stable = drop.stable
        BY <3>1, <3>5 DEF Follows
      <4>3. Shows(drop', "landed", drop.canopy, drop.stable)
        BY <3>1, <4>2, StageOf
      <4>4. UNCHANGED Stages!stageVars
        BY <1>0, <4>1, <4>3, ShownStep
      <4> QED
        BY <4>4
    <3> QED
      BY <2>2, <3>2, <3>3, <3>4, <3>5 DEF Going
  <2> QED
    BY <2>1, <2>2 DEF Inv, Orderly, Going
<1>3. ASSUME NEW s \in DropSamples, NEW lead \in Leads, Arm(s, lead)
      PROVE  Stages!StagesNext \/ UNCHANGED Stages!stageVars
  <2>1. /\ drop' \in DropTestController /\ IdleTest(drop)
        /\ IdleTest(drop') \/ ArmedTest(drop')
    BY <1>3, ArmFollows
  <2>2. Shows(drop, "idle", FALSE, FALSE)
    BY <1>0, <2>1, StageOf
  <2>3. CASE IdleTest(drop')
    BY <2>1, <2>2, <2>3, StageOf, ShownStep
  <2>4. CASE ArmedTest(drop')
    BY <2>1, <2>2, <2>4, StageOf, ShownStep
  <2> QED
    BY <2>1, <2>3, <2>4
<1>4. ASSUME NEW dt \in Ticks, Abort(dt) PROVE Stages!StagesNext
  BY <1>1, <1>4, AbortFollows
<1> QED
  BY <1>2, <1>3, <1>4 DEF Next, Loop

\* What the rest of the payload sees of the recorder is an orderly test: the
\* stages follow each other, the observations are made in the air and kept
\* (DropTestController::step, armDropTest, abortDropTest).
THEOREM Refinement == Spec => ImplementsStages
<1>1. Init => Stages!StagesInit
  <2>1. ASSUME Init PROVE Shows(drop, "idle", FALSE, FALSE)
    BY <2>1, NoTestIsIdle, StageOf DEF Init
  <2> QED
    BY <2>1 DEF Stages!StagesInit, Shows, Stage, StageIn
<1> QED
  BY <1>1, Invariance, StepImplements, PTL DEF Spec, ImplementsStages, Stages!StagesSpec

\* A release, a stable descent and a landing are each confirmed by samples that
\* show them by themselves, whatever candidates were rejected and whatever tests
\* were recorded before (DropTestController::step).
THEOREM MilestonesShown == Spec => MilestonesHadEvidence
<1>1. Inv /\ Inv' /\ WitnessInv /\ [Next]_dropVars => WitnessInv'
  BY WitnessKeeps
<1>2. Inv /\ Inv' /\ WitnessInv /\ [Next]_dropVars => [HadEvidence]_dropVars
  BY WitnessKeeps
<1>3. [][HadEvidence]_dropVars => MilestonesHadEvidence
  BY DEF HadEvidence, MilestonesHadEvidence
<1> QED
  BY WitnessStarts, <1>1, <1>2, <1>3, Invariance, PTL DEF Spec

=============================================================================
