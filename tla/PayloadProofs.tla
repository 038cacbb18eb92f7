---------------------------- MODULE PayloadProofs ----------------------------
(***************************************************************************)
(* Theorems about the payload loop, for every timeout, loop period and lead *)
(* of a command's clock.                                                    *)
(*                                                                          *)
(* OneMovement is not inductive: MANUAL_BRAKE leaves a bench command alone, *)
(* and relies on the gate having ended it when the flight began.  The       *)
(* invariant therefore adds that a bench movement has an open gate, and     *)
(* that a flight in the air has been launched.                              *)
(* MovementsExpire needs, besides, what each age says of the last grant.    *)
(* RemoteMoves is implemented command by command: the record it sees is a   *)
(* view of the operator's settings, and every operator of Payload on them   *)
(* has its counterpart on the view.  That view needs one more invariant, no *)
(* tilt request beside a recording.                                         *)
(***************************************************************************)
EXTENDS Payload, TLAPS

-----------------------------------------------------------------------------
(* What the operator has set going, command by command.                      *)

\* Settings the commands may leave, and those the bench gate has passed.
Sound(o)       == o \in Operator /\ Exclusive(o)
OnBench(o)     == o.bench.on \/ o.retract \in Moving
Within(o, was) == OnBench(o) => OnBench(was)

\* Settings as a command leaves them: no tilt request is past its timeout.
Fresh(o) == o.request.on => o.request.age < TiltTimeout
Ready(o) == Sound(o) /\ Fresh(o)

LEMMA OffIsMovement == Off \in Movement /\ ~Off.on
  BY DEF Off, Movement

\* A command's instant is an integer, whatever the lead.
LEMMA AskedIsMovement ==
  ASSUME NEW lead \in Leads
  PROVE  Asked(lead) \in Movement /\ Asked(lead).on
  BY PayloadAssumption DEF Asked, Movement, Off

LEMMA GrownIsMovement ==
  ASSUME NEW m \in Movement, NEW dt \in Ticks
  PROVE  Grown(m, dt) \in Movement /\ Grown(m, dt).on = m.on
<1>1. dt \in Int
  BY PayloadAssumption
<1>2. CASE ~m.on
  BY <1>2 DEF Grown
<1>3. CASE m.on
  <2>1. m \in [on : {TRUE}, age : Int]
    BY <1>3, OffIsMovement DEF Movement
  <2>2. m.age + dt \in Int
    BY <1>1, <2>1
  <2>3. [m EXCEPT !.age = m.age + dt] \in [on : {TRUE}, age : Int]
    BY <2>1, <2>2
  <2> QED
    BY <1>3, <2>1, <2>3 DEF Grown, Movement
<1> QED
  BY <1>2, <1>3

LEMMA NoOperatorIsSound == Sound(NoOperator) /\ ~OnBench(NoOperator)
  BY OffIsMovement
  DEF Sound, Exclusive, OnBench, NoOperator, Operator, RetractPhase, Moving

\* Time alone starts nothing.
LEMMA AgedIsSound ==
  ASSUME NEW o, Sound(o), NEW dt \in Ticks
  PROVE  Sound(Aged(o, dt)) /\ Within(Aged(o, dt), o)
<1> DEFINE a == Aged(o, dt)
<1>1. o \in Operator /\ Exclusive(o)
  BY DEF Sound
<1>2. /\ Grown(o.manual, dt) \in Movement /\ Grown(o.manual, dt).on = o.manual.on
      /\ Grown(o.bench, dt) \in Movement /\ Grown(o.bench, dt).on = o.bench.on
      /\ Grown(o.request, dt) \in Movement /\ Grown(o.request, dt).on = o.request.on
      /\ Grown(o.armed, dt) \in Movement /\ Grown(o.armed, dt).on = o.armed.on
  BY <1>1, GrownIsMovement DEF Operator
<1> DEFINE since == IF o.retract \in Moving THEN o.since + dt ELSE 0
<1>5. since \in Int
  BY <1>1, PayloadAssumption DEF Operator
<1>3. a \in Operator
  <2> HIDE DEF since
  <2>1. a = [o EXCEPT !.manual = Grown(o.manual, dt), !.bench = Grown(o.bench, dt),
                      !.request = Grown(o.request, dt), !.armed = Grown(o.armed, dt),
                      !.since = since]
    BY DEF Aged, since
  <2> QED
    BY <1>1, <1>2, <1>5, <2>1 DEF Operator
<1>4. /\ a.manual.on = o.manual.on /\ a.bench.on = o.bench.on
      /\ a.request.on = o.request.on /\ a.armed.on = o.armed.on
      /\ a.retract = o.retract
  BY <1>1, <1>2 DEF Aged, Operator
<1> QED
  BY <1>1, <1>3, <1>4 DEF Sound, Exclusive, Within, OnBench

\* Timeouts only end movements; the tilt test ends as a whole.
LEMMA ExpiredIsSound ==
  ASSUME NEW o, Sound(o), NEW lead \in Leads
  PROVE  Sound(Expired(o, lead)) /\ Within(Expired(o, lead), o)
<1> DEFINE e == Expired(o, lead)
<1>1. o \in Operator /\ Exclusive(o)
  BY DEF Sound
<1>2. e \in Operator
  BY <1>1, OffIsMovement DEF Expired, Operator
<1>3. /\ e.manual.on => o.manual.on
      /\ e.bench.on => o.bench.on
      /\ e.request.on => o.request.on
      /\ e.request.on <=> e.armed.on
      /\ e.retract = o.retract
  BY <1>1, OffIsMovement DEF Expired, Operator, Exclusive
<1> QED
  BY <1>1, <1>2, <1>3 DEF Sound, Exclusive, Within, OnBench

LEMMA ExpiredIsFresh ==
  ASSUME NEW o, Sound(o), NEW lead \in Leads
  PROVE  Fresh(Expired(o, lead))
<1> DEFINE e == Expired(o, lead)
<1>1. CASE Over(o.request, TiltTimeout, lead)
  <2>1. e.request = Off
    BY <1>1 DEF Expired, Sound, Operator
  <2> QED
    BY <2>1, OffIsMovement DEF Fresh
<1>2. CASE ~Over(o.request, TiltTimeout, lead)
  <2>1. e.request = o.request
    BY <1>2 DEF Expired, Sound, Operator
  <2>2. o.request \in Movement /\ lead \in Nat /\ TiltTimeout \in Nat
    BY PayloadAssumption DEF Sound, Operator
  <2>3. o.request.on => o.request.age \in Int /\ ~(o.request.age + lead >= TiltTimeout)
    BY <1>2, <2>2, OffIsMovement DEF Over, Movement
  <2> QED
    BY <2>1, <2>2, <2>3 DEF Fresh
<1> QED
  BY <1>1, <1>2

LEMMA PolledIsReady ==
  ASSUME Sound(op), NEW dt \in Ticks, NEW lead \in Leads
  PROVE  Ready(Polled(dt, lead)) /\ Within(Polled(dt, lead), op)
  BY AgedIsSound, ExpiredIsSound, ExpiredIsFresh DEF Polled, Within, Ready

\* What each command stops.
LEMMA StopsAreSound ==
  ASSUME NEW o, Sound(o)
  PROVE  /\ Sound(DirectStopped(o)) /\ Within(DirectStopped(o), o)
         /\ Sound(TiltStopped(o)) /\ Within(TiltStopped(o), o)
         /\ Sound(RetractStopped(o)) /\ Within(RetractStopped(o), o)
         /\ Sound(Unlocked(o)) /\ Within(Unlocked(o), o)
<1> USE OffIsMovement
<1>1. o \in Operator /\ Exclusive(o)
  BY DEF Sound
<1>2. Sound(DirectStopped(o)) /\ Within(DirectStopped(o), o)
  BY <1>1 DEF Sound, Exclusive, Within, OnBench, DirectStopped, Operator
<1>3. Sound(TiltStopped(o)) /\ Within(TiltStopped(o), o)
  BY <1>1 DEF Sound, Exclusive, Within, OnBench, TiltStopped, Operator
<1>4. Sound(RetractStopped(o)) /\ Within(RetractStopped(o), o)
  <2>1. RetractStopped(o) \in Operator
    <3>1. "IDLE" \in RetractPhase /\ 0 \in Int
      BY DEF RetractPhase
    <3> QED
      BY <1>1, <3>1 DEF RetractStopped, Operator
  <2>2. /\ RetractStopped(o).retract = "IDLE"
        /\ RetractStopped(o).manual = o.manual /\ RetractStopped(o).bench = o.bench
        /\ RetractStopped(o).request = o.request /\ RetractStopped(o).armed = o.armed
    BY <1>1 DEF RetractStopped, Operator
  <2> QED
    BY <1>1, <2>1, <2>2 DEF Sound, Exclusive, Within, OnBench, Moving
<1>5. Sound(Unlocked(o)) /\ Within(Unlocked(o), o)
  BY <1>1 DEF Sound, Exclusive, Within, OnBench, Unlocked, Operator
<1> QED
  BY <1>2, <1>3, <1>4, <1>5

\* NEUTRAL leaves nothing going.
LEMMA SilencedIsSound ==
  ASSUME NEW o, Sound(o)
  PROVE  /\ Sound(Silenced(o)) /\ ~OnBench(Silenced(o))
         /\ ~Silenced(o).manual.on /\ ~Silenced(o).request.on
<1> DEFINE d == DirectStopped(o)
           r == RetractStopped(d)
           t == TiltStopped(r)
<1>1. Sound(d) /\ Sound(r) /\ Sound(t) /\ Sound(Unlocked(t))
  BY StopsAreSound
<1>2. d.manual = Off /\ d.bench = Off
  BY OffIsMovement DEF Sound, DirectStopped, Operator
<1>3. r.manual = Off /\ r.bench = Off /\ r.retract = "IDLE"
  BY <1>1, <1>2 DEF Sound, RetractStopped, Operator
<1>4. t.manual = Off /\ t.bench = Off /\ t.retract = "IDLE" /\ t.request = Off
  BY <1>1, <1>3 DEF Sound, TiltStopped, Operator
<1>5. /\ Unlocked(t).manual = Off /\ Unlocked(t).bench = Off
      /\ Unlocked(t).retract = "IDLE" /\ Unlocked(t).request = Off
  BY <1>1, <1>4 DEF Sound, Unlocked, Operator
<1>6. Silenced(o) = Unlocked(t)
  BY DEF Silenced, TestsStopped
<1> HIDE DEF d, r, t
<1> QED
  BY <1>1, <1>5, <1>6, OffIsMovement DEF OnBench, Moving

LEMMA BenchIsReady ==
  ASSUME NEW o, Sound(o), NEW lead \in Leads
  PROVE  Ready([Silenced(o) EXCEPT !.bench = Asked(lead)])
<1> DEFINE q == Silenced(o)
           b == [q EXCEPT !.bench = Asked(lead)]
<1>1. Sound(q) /\ ~OnBench(q) /\ ~q.manual.on /\ ~q.request.on
  BY SilencedIsSound
<1>2. Asked(lead) \in Movement
  BY AskedIsMovement
<1> HIDE DEF q
<1>3. b \in Operator
  BY <1>1, <1>2 DEF Sound, Operator
<1>4. /\ b.manual = q.manual /\ b.request = q.request /\ b.armed = q.armed
      /\ b.retract = q.retract
  BY <1>1 DEF Sound, Operator
<1>5. Ready(b)
  BY <1>1, <1>3, <1>4 DEF Ready, Fresh, Sound, Exclusive, OnBench
<1> QED
  BY <1>5 DEF q

\* A refused bench command ends the one that runs.
LEMMA BenchRefusedIsReady ==
  ASSUME NEW o, Ready(o)
  PROVE  Ready([o EXCEPT !.bench = Off]) /\ Within([o EXCEPT !.bench = Off], o)
BY OffIsMovement DEF Ready, Fresh, Sound, Exclusive, Within, OnBench, Operator

LEMMA ManualRefusedIsReady ==
  ASSUME NEW o, Ready(o)
  PROVE  Ready([o EXCEPT !.manual = Off]) /\ Within([o EXCEPT !.manual = Off], o)
BY OffIsMovement DEF Ready, Fresh, Sound, Exclusive, Within, OnBench, Operator

LEMMA TestsStoppedIsSound ==
  ASSUME NEW o, Sound(o)
  PROVE  /\ Sound(TestsStopped(o)) /\ Within(TestsStopped(o), o)
         /\ ~TestsStopped(o).request.on
BY StopsAreSound, OffIsMovement
DEF TestsStopped, Within, TiltStopped, Sound, Operator

\* MANUAL_BRAKE does not end a bench command, so there must be none.
LEMMA ManualIsReady ==
  ASSUME NEW o, Sound(o), ~OnBench(o), NEW lead \in Leads
  PROVE  /\ Ready([TestsStopped(o) EXCEPT !.manual = Asked(lead)])
         /\ ~OnBench([TestsStopped(o) EXCEPT !.manual = Asked(lead)])
<1> DEFINE t == TestsStopped(o)
           n == [t EXCEPT !.manual = Asked(lead)]
<1>1. Sound(t) /\ ~OnBench(t) /\ ~t.request.on
  BY TestsStoppedIsSound DEF Within
<1>2. Asked(lead) \in Movement
  BY AskedIsMovement
<1> HIDE DEF t
<1>3. n \in Operator
  BY <1>1, <1>2 DEF Sound, Operator
<1>4. /\ n.bench = t.bench /\ n.request = t.request /\ n.armed = t.armed
      /\ n.retract = t.retract
  BY <1>1 DEF Sound, Operator
<1>5. Ready(n) /\ ~OnBench(n)
  BY <1>1, <1>3, <1>4 DEF Ready, Fresh, Sound, Exclusive, OnBench
<1> QED
  BY <1>5 DEF t

LEMMA TiltIsReady ==
  ASSUME NEW o, Sound(o), NEW lead \in Leads
  PROVE  Ready(TiltStarted(o, lead)) /\ ~OnBench(TiltStarted(o, lead))
<1> DEFINE d == DirectStopped(o)
           r == RetractStopped(d)
           s == TiltStarted(o, lead)
           begun == IF r.armed.on THEN r.armed ELSE Asked(lead)
<1>1. Sound(d) /\ Sound(r)
  BY StopsAreSound
<1>2. d.manual = Off /\ d.bench = Off
  BY OffIsMovement DEF Sound, DirectStopped, Operator
<1>3. r.manual = Off /\ r.bench = Off /\ r.retract = "IDLE"
  BY <1>1, <1>2 DEF Sound, RetractStopped, Operator
<1>4. Asked(lead) \in Movement /\ Asked(lead).on
  BY AskedIsMovement
<1>5. begun \in Movement /\ begun.on
  BY <1>1, <1>4 DEF Sound, Operator
<1>6. s = [r EXCEPT !.request = Asked(lead), !.armed = begun]
  BY DEF TiltStarted
<1> HIDE DEF d, r, s, begun
<1>7. s \in Operator
  BY <1>1, <1>4, <1>5, <1>6 DEF Sound, Operator
<1>8. /\ s.manual = Off /\ s.bench = Off /\ s.retract = "IDLE"
      /\ s.request = Asked(lead) /\ s.armed = begun
  BY <1>1, <1>3, <1>6 DEF Sound, Operator
<1>10. Asked(lead).age < TiltTimeout
  BY PayloadAssumption DEF Asked
<1>9. Ready(s) /\ ~OnBench(s)
  BY <1>4, <1>5, <1>7, <1>8, <1>10, OffIsMovement
  DEF Ready, Fresh, Sound, Exclusive, OnBench, Moving
<1> QED
  BY <1>9 DEF s

LEMMA RetractIsReady ==
  ASSUME NEW o, Sound(o), NEW open \in BOOLEAN, NEW lead \in Leads
  PROVE  Ready(RetractStarted(o, open, lead))
<1> DEFINE d == DirectStopped(o)
           t == TiltStopped(d)
           u == Unlocked(t)
           s == RetractStarted(o, open, lead)
           start == IF open THEN "EXTEND1" ELSE "INTERLOCKED"
           begun == IF open THEN -lead ELSE 0
<1>1. Sound(d) /\ Sound(t) /\ Sound(u)
  BY StopsAreSound
<1>2. d.manual = Off /\ d.bench = Off
  BY OffIsMovement DEF Sound, DirectStopped, Operator
<1>3. t.manual = Off /\ t.bench = Off /\ t.request = Off /\ t.armed = Off
  BY <1>1, <1>2 DEF Sound, TiltStopped, Operator
<1>4. u.manual = Off /\ u.bench = Off /\ u.request = Off /\ u.armed = Off
  BY <1>1, <1>3 DEF Sound, Unlocked, Operator
<1>5. start \in RetractPhase /\ begun \in Int
  BY PayloadAssumption DEF RetractPhase, Moving
<1>6. s = [u EXCEPT !.retract = start, !.since = begun]
  BY DEF RetractStarted
<1> HIDE DEF d, t, u, s, start, begun
<1>7. s \in Operator
  BY <1>1, <1>5, <1>6 DEF Sound, Operator
<1>8. s.manual = Off /\ s.bench = Off /\ s.request = Off /\ s.armed = Off
  BY <1>1, <1>4, <1>6 DEF Sound, Operator
<1>9. Ready(s)
  BY <1>7, <1>8, OffIsMovement DEF Ready, Fresh, Sound, Exclusive
<1> QED
  BY <1>9 DEF s

\* STOP_TILT_STABILIZER ends the tilt test alone.
LEMMA TiltStoppedIsReady ==
  ASSUME NEW o, Sound(o)
  PROVE  /\ Ready(Unlocked(TiltStopped(o))) /\ Within(Unlocked(TiltStopped(o)), o)
         /\ Ready(TiltStopped(o)) /\ Within(TiltStopped(o), o)
<1> DEFINE t == TiltStopped(o)
<1>1. Sound(t) /\ Within(t, o) /\ Sound(Unlocked(t)) /\ Within(Unlocked(t), t)
  BY StopsAreSound
<1>2. t.request = Off
  BY <1>1, OffIsMovement DEF Sound, TiltStopped, Operator
<1>3. Unlocked(t).request = Off
  BY <1>1, <1>2 DEF Sound, Unlocked, Operator
<1> QED
  BY <1>1, <1>2, <1>3, OffIsMovement DEF Ready, Fresh, Within

LEMMA DirectStoppedIsReady ==
  ASSUME NEW o, Ready(o)
  PROVE  Ready(DirectStopped(o)) /\ Within(DirectStopped(o), o)
<1>1. Sound(DirectStopped(o)) /\ Within(DirectStopped(o), o)
  BY StopsAreSound DEF Ready
<1>2. DirectStopped(o).request = o.request
  BY DEF Ready, Sound, DirectStopped, Operator
<1> QED
  BY <1>1, <1>2 DEF Ready, Fresh

LEMMA DisabledIsReady ==
  ASSUME NEW o, Sound(o)
  PROVE  /\ Ready([Silenced(o) EXCEPT !.enabled = FALSE])
         /\ ~OnBench([Silenced(o) EXCEPT !.enabled = FALSE])
<1> DEFINE q == Silenced(o)
<1>1. Sound(q) /\ ~OnBench(q) /\ ~q.manual.on /\ ~q.request.on
  BY SilencedIsSound
<1> HIDE DEF q
<1>2. /\ Ready([q EXCEPT !.enabled = FALSE])
      /\ ~OnBench([q EXCEPT !.enabled = FALSE])
  BY <1>1 DEF Ready, Fresh, Sound, Exclusive, OnBench, Operator
<1> QED
  BY <1>2 DEF q

-----------------------------------------------------------------------------
(* The rest of an iteration.                                                 *)

\* The stabilizer never loses a request it still has: the request's own
\* timeout comes first.
LEMMA TiltServicedIsSound ==
  ASSUME NEW o, Ready(o)
  PROVE  Sound(TiltServiced(o)) /\ Within(TiltServiced(o), o)
<1> DEFINE t == TiltStopped(o)
<1>1. Sound(t) /\ Within(t, o)
  BY StopsAreSound DEF Ready
<1>2. o.armed.on => o.request.on /\ o.request.age < TiltTimeout
  BY DEF Ready, Fresh, Sound, Exclusive
<1>3. o.armed.on => ~(~o.request.on \/ o.request.age >= TiltTimeout)
  <2>1. o.request.on => o.request.age \in Int
    BY OffIsMovement DEF Ready, Sound, Operator, Movement
  <2> QED
    BY <1>2, <2>1, PayloadAssumption
<1>4. TiltServiced(o) = o \/ TiltServiced(o) = [t EXCEPT !.locked = TRUE]
  BY <1>3 DEF TiltServiced
<1>5. Sound(o) /\ Within(o, o)
  BY DEF Ready, Within
<1> HIDE DEF t
<1>6. Sound([t EXCEPT !.locked = TRUE]) /\ Within([t EXCEPT !.locked = TRUE], o)
  BY <1>1 DEF Sound, Within, OnBench, Exclusive, Operator
<1> QED
  BY <1>4, <1>5, <1>6

LEMMA RetractServicedIsSound ==
  ASSUME NEW o, Sound(o), NEW open \in BOOLEAN
  PROVE  /\ Sound(RetractServiced(o, open))
         /\ RetractServiced(o, open).retract \in Moving => open
<1> DEFINE r == RetractServiced(o, open)
<1>1. o \in Operator /\ Exclusive(o)
  BY DEF Sound
<1>2. ASSUME NEW ph \in RetractPhase, NEW q, q = [o EXCEPT !.retract = ph, !.since = 0],
             o.retract \in Moving
      PROVE  Sound(q) /\ q.retract = ph
  <2>1. 0 \in Int
    OBVIOUS
  <2>2. q \in Operator
    BY <1>1, <1>2, <2>1 DEF Operator
  <2>3. /\ q.retract = ph /\ q.manual = o.manual /\ q.bench = o.bench
        /\ q.request = o.request /\ q.armed = o.armed
    BY <1>1, <1>2 DEF Operator
  <2> QED
    BY <1>1, <1>2, <2>2, <2>3 DEF Sound, Exclusive
<1>3. /\ o.retract \notin Moving => r = o
      /\ o.retract \in Moving /\ ~open
           => r = [o EXCEPT !.retract = "INTERLOCKED", !.since = 0]
      /\ o.retract \in Moving /\ open
           => r = o \/ r = [o EXCEPT !.retract = Successor[o.retract], !.since = 0]
  BY DEF RetractServiced
<1>4. "INTERLOCKED" \in RetractPhase /\ "INTERLOCKED" \notin Moving
  BY DEF RetractPhase, Moving
<1>5. o.retract \in Moving => Successor[o.retract] \in RetractPhase
  BY DEF Successor, Moving, RetractPhase
<1> HIDE DEF r
<1>6. Sound(r) /\ (r.retract \in Moving => open)
  <2>1. CASE o.retract \notin Moving
    BY <1>3, <2>1
  <2>2. CASE o.retract \in Moving /\ ~open
    BY <1>2, <1>3, <1>4, <2>2
  <2>3. CASE o.retract \in Moving /\ open
    BY <1>2, <1>3, <1>5, <2>3
  <2> QED
    BY <2>1, <2>2, <2>3
<1> QED
  BY <1>6 DEF r

\* After its own timeouts, the gate and the phases, what is left is sound, and
\* nothing is left on the bench behind a closed gate.
LEMMA ServicedIsSound ==
  ASSUME NEW o, Ready(o), NEW open \in BOOLEAN
  PROVE  Sound(Serviced(o, open)) /\ (OnBench(Serviced(o, open)) => open)
<1> DEFINE r == RetractServiced(TiltServiced(o), open)
<1>1. Sound(r) /\ (r.retract \in Moving => open)
  BY TiltServicedIsSound, RetractServicedIsSound
<1>2. Serviced(o, open) = BenchServiced(r, open)
  BY DEF Serviced
<1> HIDE DEF r
<1>3. CASE open
  BY <1>1, <1>2, <1>3 DEF BenchServiced
<1>4. CASE ~open
  <2>1. BenchServiced(r, open) = [r EXCEPT !.bench = Off]
    BY <1>4 DEF BenchServiced
  <2> QED
    BY <1>1, <1>2, <1>4, <2>1, OffIsMovement
    DEF Sound, Exclusive, OnBench, Operator
<1> QED
  BY <1>3, <1>4

-----------------------------------------------------------------------------
(* The invariant, iteration by iteration.                                    *)

\* A flight in the air has been launched.
AirIsLaunched == phase \in {"ascent", "deploying", "gliding"} => launched

PayloadInv == Sound(op) /\ (OnBench(op) => Gate) /\ AirIsLaunched

LEMMA FlightStepKeepsAir ==
  ASSUME AirIsLaunched, FlightStep
  PROVE  AirIsLaunched'
<1>1. CASE UNCHANGED <<phase, faulted>>
  BY <1>1 DEF AirIsLaunched, FlightStep
<1>2. CASE Flight!Advance
  BY <1>2 DEF AirIsLaunched, FlightStep, Flight!Advance, Flight!Follows
<1>3. CASE Flight!Fault \/ Flight!Land
  BY <1>3 DEF AirIsLaunched, FlightStep, Flight!Fault, Flight!Land
<1> QED
  BY <1>1, <1>2, <1>3 DEF FlightStep

\* Whatever the command left, the rest of the iteration restores the
\* invariant.
LEMMA ContinueKeepsInv ==
  ASSUME NEW o, Ready(o), NEW wants, NEW open, NEW began, AirIsLaunched,
         Continue(o, wants, open, began)
  PROVE  PayloadInv'
<1>1. AirIsLaunched'
  BY FlightStepKeepsAir DEF Continue
<1> DEFINE gate == GateOpen(stage' # "idle", phase', launched')
<1>2. op' = Serviced(o, gate)
  BY DEF Continue
<1>3. gate \in BOOLEAN /\ Gate' = gate
  BY DEF GateOpen, Gate
<1> HIDE DEF gate
<1>4. Sound(op') /\ (OnBench(op') => gate)
  BY <1>2, <1>3, ServicedIsSound
<1> QED
  BY <1>1, <1>3, <1>4 DEF PayloadInv, Sound, Exclusive, OnBench

\* A closed gate leaves the servos to the flight or to nobody.
LEMMA ClosedGateOwner ==
  ASSUME NEW o, NEW neutral, NEW steers, NEW steady, NEW able
  PROVE  /\ Owner(o, FALSE, neutral, steers, steady, able) \notin {"bench", "retract", "tilt"}
         /\ neutral => Owner(o, FALSE, neutral, steers, steady, able) = "neutral"
BY DEF Owner

\* The owner of the servos in a recording, and after the launch.
LEMMA ContinueOwns ==
  ASSUME NEW o, NEW wants, NEW open, NEW began,
         stage' # "idle" => stage # "idle" \/ began,
         Continue(o, wants, open, began)
  PROVE  InertTestIsNeutral' /\ BenchEndsAtLaunch'
<1> DEFINE gate == GateOpen(stage' # "idle", phase', launched')
<1>1. PICK steers, steady, able :
        /\ lock' = IF guided' THEN ~steers ELSE lock \/ (stage # "idle" \/ began)
        /\ servos' = [owner  |-> Owner(op', gate,
                                       faulted' \/ phase' \in {"failsafe", "landed"} \/ lock',
                                       steers, steady, able),
                      forced |-> op'.retract = "INTERLOCKED"]
  BY DEF Continue
<1> DEFINE neutral == faulted' \/ phase' \in {"failsafe", "landed"} \/ lock'
<1>2. servos'.owner = Owner(op', gate, neutral, steers, steady, able)
  BY <1>1
<1>3. ASSUME stage' # "idle", ~guided'
      PROVE  servos'.owner = "neutral"
  <2>1. gate = FALSE
    BY <1>3 DEF GateOpen
  <2>2. neutral
    BY <1>1, <1>3
  <2> HIDE DEF gate, neutral
  <2> QED
    BY <1>2, <2>1, <2>2, ClosedGateOwner
<1>4. ASSUME launched'
      PROVE  servos'.owner \notin {"bench", "retract", "tilt"}
  <2>1. gate = FALSE
    BY <1>4 DEF GateOpen
  <2> HIDE DEF gate, neutral
  <2> QED
    BY <1>2, <2>1, ClosedGateOwner
<1> QED
  BY <1>3, <1>4 DEF InertTestIsNeutral, BenchEndsAtLaunch

\* An iteration does what Continue says, with settings a command may leave.
Handles(o, wants, open, began) ==
  /\ Ready(o)
  /\ stage' # "idle" => stage # "idle" \/ began
  /\ Continue(o, wants, open, began)

LEMMA OrdinaryHandles ==
  ASSUME NEW o, Ready(o), Ordinary(o)
  PROVE  Handles(o, guided, log, FALSE)
BY DEF Handles, Ordinary, RecorderStep, ReleaseTest, Observe, EndTest, stageVars

\* Each command leaves settings that are sound, and a recording only where
\* there was one or one was armed.
LEMMA LoopHandles ==
  ASSUME PayloadInv, Loop
  PROVE  \E o, wants, open, began : Handles(o, wants, open, began)
<1> SUFFICES ASSUME NEW dt \in Ticks, NEW lead \in Leads,
                    \/ Quiet(dt, lead)
                    \/ /\ op.enabled
                       /\ \/ Neutral(dt, lead) \/ BenchServo(dt, lead)
                          \/ ManualBrake(dt, lead) \/ StartTilt(dt, lead)
                          \/ StopTilt(dt, lead) \/ StartRetract(dt, lead)
                          \/ StopTests(dt, lead) \/ ArmDropTest(dt, lead)
                          \/ ArmWithoutLog(dt, lead) \/ Abort(dt, lead)
                          \/ Disable(dt, lead)
             PROVE  \E o, wants, open, began : Handles(o, wants, open, began)
  BY DEF Loop
<1> DEFINE p == Polled(dt, lead)
<1>1. Sound(op) /\ (OnBench(op) => Gate) /\ AirIsLaunched
  BY DEF PayloadInv
<1>2. Ready(p) /\ Within(p, op) /\ Sound(p)
  BY <1>1, PolledIsReady DEF Ready
<1>3. ASSUME NEW o, Ready(o), Ordinary(o)
      PROVE  \E oo, wants, open, began : Handles(oo, wants, open, began)
  BY <1>3, OrdinaryHandles
<1>4. Ready(TestsStopped(p))
  BY <1>2, TestsStoppedIsSound DEF Ready, Fresh
<1>5. CASE Quiet(dt, lead)
  BY <1>2, <1>3, <1>5 DEF Quiet
<1>6. CASE Neutral(dt, lead)
  <2>1. Ready(Silenced(p))
    BY <1>2, SilencedIsSound DEF Ready, Fresh
  <2> QED
    BY <1>3, <1>6, <2>1 DEF Neutral
<1>7. CASE BenchServo(dt, lead)
  <2>1. CASE Gate
    BY <1>2, <1>3, <1>7, <2>1, BenchIsReady DEF BenchServo
  <2>2. CASE ~Gate
    BY <1>2, <1>3, <1>7, <2>2, BenchRefusedIsReady DEF BenchServo
  <2> QED
    BY <2>1, <2>2
<1>8. CASE ManualBrake(dt, lead)
  <2>1. PICK sane \in BOOLEAN :
          LET safe == sane /\ phase = "gliding" /\ ~faulted /\ stage = "idle"
          IN  Ordinary(IF safe THEN [TestsStopped(p) EXCEPT !.manual = Asked(lead)]
                       ELSE [p EXCEPT !.manual = Off])
    BY <1>8 DEF ManualBrake
  <2>2. CASE sane /\ phase = "gliding" /\ ~faulted /\ stage = "idle"
    <3>1. ~OnBench(p)
      BY <1>1, <1>2, <2>2 DEF AirIsLaunched, Gate, GateOpen, Within
    <3>2. Ready([TestsStopped(p) EXCEPT !.manual = Asked(lead)])
      BY <1>2, <3>1, ManualIsReady
    <3> QED
      BY <1>3, <2>1, <2>2, <3>2
  <2>3. CASE ~(sane /\ phase = "gliding" /\ ~faulted /\ stage = "idle")
    <3>1. Ready([p EXCEPT !.manual = Off])
      BY <1>2, ManualRefusedIsReady
    <3> QED
      BY <1>3, <2>1, <2>3, <3>1
  <2> QED
    BY <2>2, <2>3
<1>9. CASE StartTilt(dt, lead)
  <2>1. PICK safe : Ordinary(IF safe THEN TiltStarted(p, lead) ELSE TiltStopped(p))
    BY <1>9 DEF StartTilt
  <2>2. Ready(TiltStarted(p, lead)) /\ Ready(TiltStopped(p))
    BY <1>2, TiltIsReady, TiltStoppedIsReady
  <2> QED
    BY <1>3, <2>1, <2>2
<1>10. CASE StopTilt(dt, lead)
  BY <1>2, <1>3, <1>10, TiltStoppedIsReady DEF StopTilt
<1>11. CASE StartRetract(dt, lead)
  <2>1. Gate \in BOOLEAN
    BY DEF Gate, GateOpen
  <2> QED
    BY <1>2, <1>3, <1>11, <2>1, RetractIsReady DEF StartRetract
<1>12. CASE StopTests(dt, lead)
  BY <1>3, <1>4, <1>12 DEF StopTests
<1>13. CASE ArmDropTest(dt, lead)
  BY <1>4, <1>13 DEF ArmDropTest, Handles
<1>14. CASE ArmWithoutLog(dt, lead)
  BY <1>4, <1>14 DEF ArmWithoutLog, Handles, stageVars
<1>15. CASE Abort(dt, lead)
  <2>1. Ready(DirectStopped(p))
    BY <1>2, DirectStoppedIsReady
  <2> QED
    BY <1>15, <2>1 DEF Abort, Handles, EndTest, stageVars
<1>16. CASE Disable(dt, lead)
  BY <1>2, <1>3, <1>16, DisabledIsReady DEF Disable
<1> HIDE DEF p
<1> QED
  BY <1>5, <1>6, <1>7, <1>8, <1>9, <1>10, <1>11, <1>12, <1>13, <1>14, <1>15, <1>16

LEMMA PayloadInitEstablishes ==
  PayloadInit => PayloadInv /\ InertTestIsNeutral /\ BenchEndsAtLaunch
<1> SUFFICES ASSUME PayloadInit
             PROVE  PayloadInv /\ InertTestIsNeutral /\ BenchEndsAtLaunch
  OBVIOUS
<1>1. phase \in {"pad", "failsafe"} /\ ~launched /\ stage = "idle" /\ op = NoOperator
  BY DEF PayloadInit, Boot, Flight!Start, StagesInit
<1> QED
  BY <1>1, NoOperatorIsSound
  DEF PayloadInv, AirIsLaunched, InertTestIsNeutral, BenchEndsAtLaunch

\* A restart forgets what the operator had set going.
LEMMA RebootKeeps ==
  Reboot => PayloadInv' /\ InertTestIsNeutral' /\ BenchEndsAtLaunch'
<1> SUFFICES ASSUME Reboot
             PROVE  PayloadInv' /\ InertTestIsNeutral' /\ BenchEndsAtLaunch'
  OBVIOUS
<1>1. phase' \in {"pad", "failsafe"} /\ ~launched' /\ stage' = "idle" /\ op' = NoOperator
  BY DEF Reboot, Boot, Flight!Start
<1>2. Sound(op') /\ ~OnBench(op')
  BY <1>1, NoOperatorIsSound
<1> QED
  BY <1>1, <1>2
  DEF PayloadInv, AirIsLaunched, InertTestIsNeutral, BenchEndsAtLaunch, Sound,
      Exclusive, OnBench

LEMMA PayloadNextKeeps ==
  PayloadInv /\ PayloadNext => PayloadInv' /\ InertTestIsNeutral' /\ BenchEndsAtLaunch'
<1>1. CASE PayloadInv /\ Loop
  BY <1>1, LoopHandles, ContinueKeepsInv, ContinueOwns DEF Handles, PayloadInv
<1>2. CASE Reboot
  BY <1>2, RebootKeeps
<1> QED
  BY <1>1, <1>2 DEF PayloadNext

LEMMA PayloadStutterKeeps ==
  /\ PayloadInv /\ UNCHANGED payloadVars => PayloadInv'
  /\ InertTestIsNeutral /\ UNCHANGED payloadVars => InertTestIsNeutral'
  /\ BenchEndsAtLaunch /\ UNCHANGED payloadVars => BenchEndsAtLaunch'
BY DEF payloadVars, stageVars, PayloadInv, AirIsLaunched, Sound, Exclusive, OnBench,
       Gate, GateOpen, InertTestIsNeutral, BenchEndsAtLaunch

-----------------------------------------------------------------------------
(* Types.                                                                    *)

Owners ==
  {"bench", "retract", "neutral", "guided", "tilt", "remote", "autonomous"}

\* What Continue leaves of the type invariant: the stages, and the histories.
StageTypeOK ==
  /\ stage \in {"idle", "armed", "released", "landed"}
  /\ canopy \in BOOLEAN /\ stable \in BOOLEAN
HistoryTypeOK == told \in Timer /\ ahead \in Leads \cup {0}

LEMMA StagesAreTyped ==
  ASSUME StageTypeOK, ArmTest \/ RecorderStep
  PROVE  StageTypeOK'
BY DEF StageTypeOK, ArmTest, RecorderStep, ReleaseTest, Observe, EndTest, stageVars

LEMMA HistoriesAreTyped ==
  ASSUME told \in Timer, NEW dt \in Ticks, NEW granted \in BOOLEAN, Granted(dt, granted)
  PROVE  told' \in Timer
<1>1. dt \in Nat \ {0} /\ AgeCap \in Nat
  BY PayloadAssumption, AgeCapIsNat
<1> QED
  BY <1>1 DEF Granted, Later, Timer, Age, Unset

LEMMA FlightIsTyped ==
  ASSUME phase \in Phases, faulted \in BOOLEAN, launched \in BOOLEAN, FlightStep
  PROVE  phase' \in Phases /\ faulted' \in BOOLEAN /\ booted' \in BOOLEAN /\ launched' \in BOOLEAN
BY DEF FlightStep

LEMMA ContinueIsTyped ==
  ASSUME PayloadTypeOK, StageTypeOK', HistoryTypeOK', PayloadInv',
         NEW o, NEW wants, NEW open, NEW began, Continue(o, wants, open, began)
  PROVE  PayloadTypeOK'
<1>1. /\ phase' \in Phases /\ faulted' \in BOOLEAN /\ booted' \in BOOLEAN
      /\ launched' \in BOOLEAN
  BY FlightIsTyped DEF Continue, PayloadTypeOK
<1>2. guided' \in BOOLEAN /\ log' \in BOOLEAN
  BY DEF Continue
<1>3. \A q, gate, neutral, steers, steady, able :
        Owner(q, gate, neutral, steers, steady, able) \in Owners
  BY DEF Owner, Owners
<1>4. lock' \in BOOLEAN /\ servos' \in [owner : Owners, forced : BOOLEAN]
  <2>1. PICK q, gate, neutral, steers, steady, able :
          /\ lock' = IF guided' THEN ~steers ELSE lock \/ (stage # "idle" \/ began)
          /\ servos' = [owner  |-> Owner(q, gate, neutral, steers, steady, able),
                        forced |-> op'.retract = "INTERLOCKED"]
    BY DEF Continue
  <2>2. lock' \in BOOLEAN
    BY <2>1
  <2>3. Owner(q, gate, neutral, steers, steady, able) \in Owners
    BY <1>3
  <2> QED
    BY <2>1, <2>2, <2>3
<1>5. op' \in Operator
  BY DEF PayloadInv, Sound
<1> QED
  BY <1>1, <1>2, <1>4, <1>5 DEF PayloadTypeOK, StageTypeOK, HistoryTypeOK, Owners

\* Every command continues the iteration, and leaves stages and histories
\* typed.
LEMMA LoopIsTyped ==
  ASSUME PayloadTypeOK, PayloadInv, PayloadInv', Loop
  PROVE  PayloadTypeOK'
<1>1. StageTypeOK /\ told \in Timer
  BY DEF PayloadTypeOK, StageTypeOK
<1>2. PICK dt \in Ticks, lead \in Leads :
        \/ Quiet(dt, lead)
        \/ Neutral(dt, lead) \/ BenchServo(dt, lead) \/ ManualBrake(dt, lead)
        \/ StartTilt(dt, lead) \/ StopTilt(dt, lead) \/ StartRetract(dt, lead)
        \/ StopTests(dt, lead) \/ ArmDropTest(dt, lead) \/ ArmWithoutLog(dt, lead)
        \/ Abort(dt, lead) \/ Disable(dt, lead)
  BY DEF Loop
<1>13. ahead' \in Leads
  BY DEF Loop
<1>3. Gate \in BOOLEAN
  BY DEF Gate, GateOpen
<1>4. ASSUME NEW o, Ordinary(o), NEW granted \in BOOLEAN, Granted(dt, granted)
      PROVE  PayloadTypeOK'
  <2>1. StageTypeOK'
    BY <1>1, <1>4, StagesAreTyped DEF Ordinary
  <2>2. HistoryTypeOK'
    BY <1>1, <1>4, <1>13, HistoriesAreTyped DEF HistoryTypeOK
  <2> QED
    BY <1>4, <2>1, <2>2, ContinueIsTyped DEF Ordinary
<1>5. ASSUME NEW o, NEW wants, NEW open, NEW began, Continue(o, wants, open, began),
             Granted(dt, FALSE), ArmTest \/ EndTest \/ UNCHANGED stageVars
      PROVE  PayloadTypeOK'
  <2>1. StageTypeOK'
    BY <1>1, <1>5, StagesAreTyped DEF RecorderStep
  <2>2. HistoryTypeOK'
    BY <1>1, <1>5, <1>13, HistoriesAreTyped DEF HistoryTypeOK
  <2> QED
    BY <1>5, <2>1, <2>2, ContinueIsTyped
<1>6. CASE Quiet(dt, lead) \/ Neutral(dt, lead) \/ StopTilt(dt, lead)
           \/ StopTests(dt, lead) \/ Disable(dt, lead)
  BY <1>4, <1>6 DEF Quiet, Neutral, StopTilt, StopTests, Disable
<1>7. CASE BenchServo(dt, lead) \/ StartRetract(dt, lead)
  BY <1>3, <1>4, <1>7 DEF BenchServo, StartRetract
<1>8. CASE ManualBrake(dt, lead)
  <2>1. PICK sane \in BOOLEAN :
          LET safe == sane /\ phase = "gliding" /\ ~faulted /\ stage = "idle"
          IN  /\ Ordinary(IF safe THEN [TestsStopped(Polled(dt, lead)) EXCEPT !.manual = Asked(lead)]
                          ELSE [Polled(dt, lead) EXCEPT !.manual = Off])
              /\ Granted(dt, safe)
    BY <1>8 DEF ManualBrake
  <2> DEFINE safe == sane /\ phase = "gliding" /\ ~faulted /\ stage = "idle"
             o == IF safe THEN [TestsStopped(Polled(dt, lead)) EXCEPT !.manual = Asked(lead)]
                  ELSE [Polled(dt, lead) EXCEPT !.manual = Off]
  <2>2. safe \in BOOLEAN /\ Ordinary(o) /\ Granted(dt, safe)
    BY <2>1
  <2> HIDE DEF safe, o
  <2> QED
    BY <1>4, <2>2
<1>9. CASE StartTilt(dt, lead)
  <2>1. PICK sane \in BOOLEAN :
          LET safe == sane /\ ~op.locked /\ booted /\ phase = "pad" /\ Gate
          IN  /\ Ordinary(IF safe THEN TiltStarted(Polled(dt, lead), lead)
                          ELSE TiltStopped(Polled(dt, lead)))
              /\ Granted(dt, safe)
    BY <1>9 DEF StartTilt
  <2> DEFINE safe == sane /\ ~op.locked /\ booted /\ phase = "pad" /\ Gate
             o == IF safe THEN TiltStarted(Polled(dt, lead), lead)
                  ELSE TiltStopped(Polled(dt, lead))
  <2>2. safe \in BOOLEAN /\ Ordinary(o) /\ Granted(dt, safe)
    BY <2>1
  <2> HIDE DEF safe, o
  <2> QED
    BY <1>4, <2>2
<1>10. CASE ArmDropTest(dt, lead)
  BY <1>5, <1>10 DEF ArmDropTest
<1>11. CASE ArmWithoutLog(dt, lead)
  BY <1>5, <1>11 DEF ArmWithoutLog
<1>12. CASE Abort(dt, lead)
  BY <1>5, <1>12 DEF Abort
<1> QED
  BY <1>2, <1>6, <1>7, <1>8, <1>9, <1>10, <1>11, <1>12

\* A boot leaves every variable typed.
LEMMA BootIsTyped ==
  /\ PayloadInit => PayloadTypeOK
  /\ Reboot => PayloadTypeOK'
<1>1. Unset \in Timer
  BY DEF Timer
<1>2. NoOperator \in Operator
  BY NoOperatorIsSound DEF Sound
<1>3. [owner |-> "neutral", forced |-> FALSE] \in [owner : Owners, forced : BOOLEAN]
  BY DEF Owners
<1>4. ASSUME PayloadInit
      PROVE  PayloadTypeOK
  <2>1. op \in Operator /\ servos \in [owner : Owners, forced : BOOLEAN]
    BY <1>2, <1>3, <1>4 DEF PayloadInit
  <2> QED
    BY <1>1, <1>4, <2>1 DEF PayloadInit, StagesInit, PayloadTypeOK, Owners
<1>5. ASSUME Reboot
      PROVE  PayloadTypeOK'
  <2>1. op' \in Operator /\ servos' \in [owner : Owners, forced : BOOLEAN]
    BY <1>2, <1>3, <1>5 DEF Reboot
  <2> QED
    BY <1>1, <1>5, <2>1 DEF Reboot, PayloadTypeOK, Owners
<1> QED
  BY <1>4, <1>5

-----------------------------------------------------------------------------
(* Times: no movement outlives its operator.  The history told is related to *)
(* the ages the code keeps: a movement that is on is, up to the lead of the   *)
(* command that asked for it, as old as the last grant; a phase of the retract *)
(* test has the phases before it to add, each of which may have ended one     *)
(* iteration late.                                                           *)

Late == CHOOSE t \in Ticks : \A u \in Ticks : u <= t

LEMMA LateIsLongest == Late \in Ticks /\ Late \in Nat \ {0} /\ \A t \in Ticks : t <= Late
  BY TicksAreBounded, PayloadAssumption DEF Late

-----------------------------------------------------------------------------
(* Ages and the history.                                                     *)

\* A movement that is on is no younger than the last grant, up to a lead.
Backed(m, t) == m.on => t \in Nat /\ \E lead \in Leads : t - lead <= m.age

\* What the phases before one may have taken.
Prior ==
  [EXTEND1  |-> 0,
   RETRACT1 |-> ExtendHold + Late - 1,
   EXTEND2  |-> ExtendHold + RetractSettle + 2 * (Late - 1),
   RETRACT2 |-> 2 * ExtendHold + RetractSettle + 3 * (Late - 1)]

LastsAtMost == 2 * (ExtendHold + RetractSettle) + 4 * (Late - 1)

LEMMA Phases4 ==
  ASSUME NEW ph \in Moving
  PROVE  /\ Duration(ph) \in Nat \ {0} /\ Prior[ph] \in Nat
         /\ Successor[ph] \in Moving => Prior[Successor[ph]] = Prior[ph] + Duration(ph) + Late - 1
         /\ Prior[ph] + Duration(ph) <= LastsAtMost
<1>1. ExtendHold \in Nat \ {0} /\ RetractSettle \in Nat \ {0} /\ Late \in Nat \ {0}
  BY PayloadAssumption, LateIsLongest
<1>2. CASE ph = "EXTEND1"
  BY <1>1, <1>2 DEF Duration, Prior, Successor, Moving, LastsAtMost
<1>3. CASE ph = "RETRACT1"
  BY <1>1, <1>3 DEF Duration, Prior, Successor, Moving, LastsAtMost
<1>4. CASE ph = "EXTEND2"
  BY <1>1, <1>4 DEF Duration, Prior, Successor, Moving, LastsAtMost
<1>5. CASE ph = "RETRACT2"
  BY <1>1, <1>5 DEF Duration, Prior, Successor, Moving, LastsAtMost
<1> QED
  BY <1>2, <1>3, <1>4, <1>5 DEF Moving

RetractBacked(o, t) ==
  o.retract \in Moving =>
    t \in Nat /\ \E lead \in Leads : t - lead <= Prior[o.retract] + o.since

\* t: the time since the last grant.
Timed(o, t) ==
  /\ Backed(o.manual, t) /\ Backed(o.bench, t) /\ Backed(o.request, t)
  /\ o.request.on => ~o.locked
  /\ RetractBacked(o, t)

\* A phase as an iteration leaves it, and as the next one finds it.
InTime(o) == o.retract \in Moving => o.since < Duration(o.retract)
Due(o)    == o.retract \in Moving => o.since <= Duration(o.retract) - 1 + Late

\* No timeout has passed.
Current(o) ==
  /\ o.manual.on => o.manual.age < ManualTimeout
  /\ o.bench.on => o.bench.age < BenchTimeout
  /\ o.request.on => o.request.age < TiltTimeout

LEMMA GrownIsBacked ==
  ASSUME NEW m \in Movement, NEW was \in Timer, Backed(m, was), NEW dt \in Ticks,
         NEW t \in {0, Later(was, dt)}
  PROVE  Backed(Grown(m, dt), t)
<1>1. dt \in Nat /\ AgeCap \in Nat /\ Leads \subseteq Nat
  BY PayloadAssumption, AgeCapIsNat
<1>2. CASE ~m.on
  BY <1>2, GrownIsMovement DEF Backed
<1>3. CASE m.on
  <2>1. m \in [on : {TRUE}, age : Int]
    BY <1>3, OffIsMovement DEF Movement
  <2>2. PICK lead \in Leads : was - lead <= m.age
    BY <1>3 DEF Backed
  <2>3. was \in Nat /\ m.age \in Int /\ lead \in Nat
    BY <1>1, <1>3, <2>1 DEF Backed
  <2>4. Grown(m, dt).age = m.age + dt
    BY <1>3, <2>1 DEF Grown
  <2>5. t \in Nat /\ t <= was + dt
    BY <1>1, <2>3 DEF Later, Unset
  <2>6. t - lead <= Grown(m, dt).age
    BY <1>1, <2>2, <2>3, <2>4, <2>5
  <2> QED
    BY <2>5, <2>6 DEF Backed
<1> QED
  BY <1>2, <1>3

\* Time passes.
LEMMA AgedIsTimed ==
  ASSUME NEW o \in Operator, NEW was \in Timer, Timed(o, was), InTime(o), NEW dt \in Ticks,
         NEW t \in {0, Later(was, dt)}
  PROVE  Timed(Aged(o, dt), t) /\ Due(Aged(o, dt)) /\ Aged(o, dt) \in Operator
<1> DEFINE s == IF o.retract \in Moving THEN o.since + dt ELSE 0
           a == [o EXCEPT !.manual = Grown(o.manual, dt), !.bench = Grown(o.bench, dt),
                          !.request = Grown(o.request, dt), !.armed = Grown(o.armed, dt),
                          !.since = s]
<1>1. o.manual \in Movement /\ o.bench \in Movement /\ o.request \in Movement
      /\ o.armed \in Movement /\ o.since \in Int /\ o.retract \in RetractPhase
  BY DEF Operator
<1>2. /\ Grown(o.manual, dt) \in Movement /\ Grown(o.bench, dt) \in Movement
      /\ Grown(o.request, dt) \in Movement /\ Grown(o.armed, dt) \in Movement
      /\ Grown(o.request, dt).on = o.request.on
  BY <1>1, GrownIsMovement
<1>3. dt \in Nat /\ dt <= Late /\ Late \in Nat /\ AgeCap \in Nat /\ Leads \subseteq Nat
  BY LateIsLongest, PayloadAssumption, AgeCapIsNat
<1>4. s \in Int
  BY <1>1, <1>3
<1>5. Aged(o, dt) = a
  BY DEF Aged
<1>6. /\ Backed(Grown(o.manual, dt), t) /\ Backed(Grown(o.bench, dt), t)
      /\ Backed(Grown(o.request, dt), t)
  BY <1>1, GrownIsBacked DEF Timed
<1>7. s = IF o.retract \in Moving THEN o.since + dt ELSE 0
  OBVIOUS
<1> HIDE DEF s
<1>8. /\ a \in Operator /\ a.manual = Grown(o.manual, dt) /\ a.bench = Grown(o.bench, dt)
      /\ a.request = Grown(o.request, dt) /\ a.locked = o.locked /\ a.retract = o.retract
      /\ a.since = s
  BY <1>2, <1>4 DEF Operator
<1> HIDE DEF a
<1>9. RetractBacked(a, t) /\ Due(a)
  <2>1. SUFFICES ASSUME o.retract \in Moving
                 PROVE  RetractBacked(a, t) /\ Due(a)
    BY <1>8 DEF RetractBacked, Due
  <2>2. PICK lead \in Leads : was - lead <= Prior[o.retract] + o.since
    BY <2>1 DEF Timed, RetractBacked
  <2>3. was \in Nat /\ lead \in Nat /\ Prior[o.retract] \in Nat /\ Duration(o.retract) \in Nat
    BY <1>3, <2>1, Phases4 DEF Timed, RetractBacked
  <2>4. t \in Nat /\ t <= was + dt
    BY <1>3, <2>3 DEF Later, Unset
  <2>5. t - lead <= Prior[o.retract] + s
    BY <1>1, <1>3, <1>7, <2>1, <2>2, <2>3, <2>4
  <2>6. s <= Duration(o.retract) - 1 + Late
    BY <1>1, <1>3, <1>7, <2>1, <2>3 DEF InTime
  <2> QED
    BY <1>8, <2>4, <2>5, <2>6 DEF RetractBacked, Due
<1> QED
  BY <1>2, <1>5, <1>6, <1>8, <1>9 DEF Timed

-----------------------------------------------------------------------------
(* What ends movements, and starts them.                                     *)

\* Some movements have ended, nothing else.
Lesser(n, o) ==
  /\ n \in Operator
  /\ n.manual \in {o.manual, Off} /\ n.bench \in {o.bench, Off} /\ n.request \in {o.request, Off}
  /\ n.request.on /\ n.locked => o.locked
  /\ n.retract \in Moving => n.retract = o.retract /\ n.since = o.since

Handed(o, t) == o \in Operator /\ Timed(o, t) /\ Due(o) /\ Current(o)

LEMMA LesserIsTimed ==
  ASSUME NEW o, NEW n, NEW t, Timed(o, t), Due(o), Lesser(n, o)
  PROVE  /\ Timed(n, t) /\ Due(n) /\ (Current(o) => Current(n)) /\ n \in Operator
         /\ InTime(o) => InTime(n)
<1>1. Backed(Off, t) /\ ~Off.on
  BY DEF Backed, Off
<1>2. Backed(n.manual, t) /\ Backed(n.bench, t) /\ Backed(n.request, t)
  BY <1>1 DEF Timed, Lesser
<1>3. n.request.on => ~n.locked
  BY <1>1 DEF Timed, Lesser
<1>4. RetractBacked(n, t) /\ Due(n) /\ (InTime(o) => InTime(n))
  BY DEF Timed, RetractBacked, Due, InTime, Lesser
<1>5. Current(o) => Current(n)
  BY <1>1 DEF Current, Lesser
<1> QED
  BY <1>2, <1>3, <1>4, <1>5 DEF Timed, Lesser

LEMMA LesserIsHanded ==
  ASSUME NEW o, NEW n, NEW t, Handed(o, t), Lesser(n, o)
  PROVE  Handed(n, t)
  BY LesserIsTimed DEF Handed

LEMMA ExpiredIsLesser ==
  ASSUME NEW o \in Operator, NEW lead \in Leads
  PROVE  Lesser(Expired(o, lead), o) /\ Current(Expired(o, lead))
<1> DEFINE e == Expired(o, lead)
           m == IF Over(o.manual, ManualTimeout, lead) THEN Off ELSE o.manual
           b == IF Over(o.bench, BenchTimeout, lead) THEN Off ELSE o.bench
           r == IF Over(o.request, TiltTimeout, lead) THEN Off ELSE o.request
           a == IF Over(o.request, TiltTimeout, lead) THEN Off ELSE o.armed
<1>1. o.manual \in Movement /\ o.bench \in Movement /\ o.request \in Movement
      /\ o.armed \in Movement /\ Off \in Movement /\ ~Off.on
  BY OffIsMovement DEF Operator
<1>2. e = [o EXCEPT !.manual = m, !.bench = b, !.request = r, !.armed = a]
  BY DEF Expired
<1>3. \A q \in Movement, timeout \in Nat :
        q.on /\ ~Over(q, timeout, lead) => q.age < timeout
  <2>1. \A q \in Movement : q.on => q.age \in Int
    BY OffIsMovement DEF Movement
  <2> QED
    BY <2>1, PayloadAssumption DEF Over
<1>4. /\ m.on => m.age < ManualTimeout
      /\ b.on => b.age < BenchTimeout
      /\ r.on => r.age < TiltTimeout
  BY <1>1, <1>3, PayloadAssumption
<1>5. m \in {o.manual, Off} /\ b \in {o.bench, Off} /\ r \in {o.request, Off} /\ a \in Movement
  BY <1>1
<1> HIDE DEF m, b, r, a, e
<1>6. /\ e \in Operator /\ e.manual = m /\ e.bench = b /\ e.request = r
      /\ e.locked = o.locked /\ e.retract = o.retract /\ e.since = o.since
  BY <1>1, <1>2, <1>5 DEF Operator
<1>7. Lesser(e, o) /\ Current(e)
  BY <1>4, <1>5, <1>6 DEF Lesser, Current
<1> QED
  BY <1>7 DEF e

LEMMA PolledIsHanded ==
  ASSUME op \in Operator, told \in Timer, Timed(op, told), InTime(op), NEW dt \in Ticks,
         NEW lead \in Leads, NEW t \in {0, Later(told, dt)}
  PROVE  Handed(Polled(dt, lead), t) /\ Polled(dt, lead).locked = op.locked
<1> DEFINE a == Aged(op, dt)
<1>1. Timed(a, t) /\ Due(a) /\ a \in Operator
  BY AgedIsTimed
<1>2. a.locked = op.locked /\ Expired(a, lead).locked = a.locked
  BY <1>1 DEF Aged, Expired, Operator
<1> HIDE DEF a
<1>3. Lesser(Expired(a, lead), a) /\ Current(Expired(a, lead))
  BY <1>1, ExpiredIsLesser
<1>4. Handed(Expired(a, lead), t)
  BY <1>1, <1>3, LesserIsTimed DEF Handed
<1> QED
  BY <1>2, <1>4 DEF Polled, a

LEMMA LesserIsTransitive ==
  ASSUME NEW n, NEW m, NEW o, Lesser(n, m), Lesser(m, o)
  PROVE  Lesser(n, o)
BY OffIsMovement DEF Lesser

LEMMA StopsAreLesser ==
  ASSUME NEW o \in Operator
  PROVE  /\ Lesser(DirectStopped(o), o) /\ Lesser(TiltStopped(o), o)
         /\ Lesser(RetractStopped(o), o) /\ Lesser(Unlocked(o), o)
<1>1. Off \in Movement /\ ~Off.on
  BY OffIsMovement
<1>2. Lesser(DirectStopped(o), o)
  BY <1>1 DEF Lesser, DirectStopped, Operator
<1>3. Lesser(TiltStopped(o), o)
  BY <1>1 DEF Lesser, TiltStopped, Operator
<1>4. Lesser(RetractStopped(o), o)
  <2>1. "IDLE" \in RetractPhase /\ "IDLE" \notin Moving /\ 0 \in Int
    BY DEF RetractPhase, Moving
  <2> QED
    BY <2>1 DEF Lesser, RetractStopped, Operator
<1>5. Lesser(Unlocked(o), o)
  BY DEF Lesser, Unlocked, Operator
<1> QED
  BY <1>2, <1>3, <1>4, <1>5

\* The combinations of stops the commands make.
LEMMA StopsAreHanded ==
  ASSUME NEW o, NEW t, Handed(o, t)
  PROVE  /\ Handed(DirectStopped(o), t) /\ Handed(TiltStopped(o), t)
         /\ Handed(RetractStopped(o), t) /\ Handed(Unlocked(o), t)
<1>1. o \in Operator
  BY DEF Handed
<1> QED
  BY <1>1, StopsAreLesser, LesserIsHanded

LEMMA CombinedStopsAreHanded ==
  ASSUME NEW o, NEW t, Handed(o, t)
  PROVE  /\ Handed(TestsStopped(o), t) /\ Handed(Silenced(o), t)
         /\ Handed(Unlocked(TiltStopped(o)), t)
         /\ Handed([o EXCEPT !.bench = Off], t) /\ Handed([o EXCEPT !.manual = Off], t)
<1>1. \A q : Handed(q, t) => /\ Handed(DirectStopped(q), t) /\ Handed(TiltStopped(q), t)
                             /\ Handed(RetractStopped(q), t) /\ Handed(Unlocked(q), t)
  BY StopsAreHanded
<1>2. Handed(TestsStopped(o), t) /\ Handed(Unlocked(TiltStopped(o)), t)
  BY <1>1 DEF TestsStopped
<1>3. Handed(Silenced(o), t)
  BY <1>1 DEF TestsStopped, Silenced
<1>4. o \in Operator /\ Off \in Movement
  BY OffIsMovement DEF Handed
<1>5. Lesser([o EXCEPT !.bench = Off], o) /\ Lesser([o EXCEPT !.manual = Off], o)
  BY <1>4 DEF Lesser, Operator
<1> QED
  BY <1>2, <1>3, <1>5, LesserIsHanded

\* A command's instant, at the grant.
LEMMA AskedIsBacked ==
  ASSUME NEW lead \in Leads
  PROVE  /\ Asked(lead) \in Movement /\ Backed(Asked(lead), 0)
         /\ Asked(lead).age < ManualTimeout /\ Asked(lead).age < BenchTimeout
         /\ Asked(lead).age < TiltTimeout
<1>1. lead \in Nat /\ {ManualTimeout, BenchTimeout, TiltTimeout} \subseteq Nat \ {0}
  BY PayloadAssumption
<1>2. Asked(lead).age = -lead /\ 0 - lead <= -lead /\ 0 \in Nat
  BY <1>1 DEF Asked
<1> QED
  BY <1>1, <1>2, AskedIsMovement DEF Backed

LEMMA GrantIsHanded ==
  ASSUME NEW o, Handed(o, 0), NEW lead \in Leads
  PROVE  /\ Handed([o EXCEPT !.bench = Asked(lead)], 0)
         /\ Handed([o EXCEPT !.manual = Asked(lead)], 0)
<1> DEFINE a == Asked(lead)
           b == [o EXCEPT !.bench = a]
           m == [o EXCEPT !.manual = a]
<1>1. /\ a \in Movement /\ Backed(a, 0) /\ a.age < ManualTimeout
      /\ a.age < BenchTimeout /\ a.age < TiltTimeout
  BY AskedIsBacked
<1> HIDE DEF a
<1>2. o \in Operator
  BY DEF Handed
<1>3. /\ b \in Operator /\ b.manual = o.manual /\ b.bench = a /\ b.request = o.request
      /\ b.locked = o.locked /\ b.retract = o.retract /\ b.since = o.since
  BY <1>1, <1>2 DEF Operator
<1>4. /\ m \in Operator /\ m.manual = a /\ m.bench = o.bench /\ m.request = o.request
      /\ m.locked = o.locked /\ m.retract = o.retract /\ m.since = o.since
  BY <1>1, <1>2 DEF Operator
<1> HIDE DEF b, m
<1>5. Handed(b, 0)
  BY <1>1, <1>3 DEF Handed, Timed, Due, Current, RetractBacked
<1>6. Handed(m, 0)
  BY <1>1, <1>4 DEF Handed, Timed, Due, Current, RetractBacked
<1> QED
  BY <1>5, <1>6 DEF a, b, m

LEMMA TiltGrantIsHanded ==
  ASSUME NEW o, Handed(o, 0), ~o.locked, NEW lead \in Leads
  PROVE  Handed(TiltStarted(o, lead), 0)
<1> DEFINE a == Asked(lead)
           q == RetractStopped(DirectStopped(o))
           begun == IF q.armed.on THEN q.armed ELSE a
           n == [q EXCEPT !.request = a, !.armed = begun]
<1>1. /\ a \in Movement /\ Backed(a, 0) /\ a.age < TiltTimeout
  BY AskedIsBacked
<1>2. TiltStarted(o, lead) = n
  BY DEF TiltStarted
<1>3. Handed(q, 0)
  BY StopsAreHanded
<1>4. ~q.locked
  <2>1. o \in Operator
    BY DEF Handed
  <2> QED
    BY <2>1 DEF RetractStopped, DirectStopped, Operator
<1> HIDE DEF a, q
<1>5. q \in Operator /\ begun \in Movement
  BY <1>1, <1>3 DEF Handed, Operator
<1> HIDE DEF begun
<1>6. /\ n \in Operator /\ n.manual = q.manual /\ n.bench = q.bench /\ n.request = a
      /\ n.locked = q.locked /\ n.retract = q.retract /\ n.since = q.since
  BY <1>1, <1>5 DEF Operator
<1> HIDE DEF n
<1>7. Handed(n, 0)
  BY <1>1, <1>3, <1>4, <1>6 DEF Handed, Timed, Due, Current, RetractBacked
<1> QED
  BY <1>2, <1>7

LEMMA RetractGrantIsHanded ==
  ASSUME NEW o, NEW t, Handed(o, t), NEW open \in BOOLEAN, open => t = 0, NEW lead \in Leads
  PROVE  Handed(RetractStarted(o, open, lead), t)
<1> DEFINE q == Unlocked(TiltStopped(DirectStopped(o)))
           ph == IF open THEN "EXTEND1" ELSE "INTERLOCKED"
           s == IF open THEN -lead ELSE 0
           n == [q EXCEPT !.retract = ph, !.since = s]
<1>1. RetractStarted(o, open, lead) = n
  BY DEF RetractStarted
<1>2. Handed(q, t)
  BY StopsAreHanded
<1>3. lead \in Nat /\ Late \in Nat \ {0}
  BY PayloadAssumption, LateIsLongest
<1>4. ph \in RetractPhase /\ s \in Int /\ (ph \in Moving => open)
  BY <1>3 DEF RetractPhase, Moving
<1>5. open => ph = "EXTEND1" /\ s = -lead /\ t = 0
  OBVIOUS
<1> HIDE DEF q, ph, s
<1>6. /\ n \in Operator /\ n.manual = q.manual /\ n.bench = q.bench /\ n.request = q.request
      /\ n.locked = q.locked /\ n.retract = ph /\ n.since = s
  BY <1>2, <1>4 DEF Handed, Operator
<1> HIDE DEF n
<1>7. RetractBacked(n, t) /\ Due(n)
  <2>1. SUFFICES ASSUME open
                 PROVE  RetractBacked(n, t) /\ Due(n)
    BY <1>4, <1>6 DEF RetractBacked, Due
  <2>2. ph \in Moving /\ Prior[ph] = 0 /\ Duration(ph) \in Nat \ {0}
    BY <1>5, <2>1, Phases4 DEF Moving, Prior
  <2>3. t \in Nat /\ t - lead <= Prior[ph] + s /\ s <= Duration(ph) - 1 + Late
    BY <1>3, <1>5, <2>1, <2>2
  <2> QED
    BY <1>6, <2>3 DEF RetractBacked, Due
<1>8. Handed(n, t)
  BY <1>2, <1>6, <1>7 DEF Handed, Timed, Current
<1> QED
  BY <1>1, <1>8

-----------------------------------------------------------------------------
(* The bench controllers, after the command.                                 *)

Settled(o, t) == Timed(o, t) /\ InTime(o) /\ Current(o)

LEMMA TiltServicedIsLesser ==
  ASSUME NEW o \in Operator
  PROVE  Lesser(TiltServiced(o), o)
<1> DEFINE e == [o EXCEPT !.armed = Off]
           q == TiltStopped(o)
           l == [q EXCEPT !.locked = TRUE]
<1>1. Off \in Movement /\ ~Off.on
  BY OffIsMovement
<1>2. Lesser(o, o) /\ Lesser(e, o)
  BY <1>1 DEF Lesser, Operator
<1>3. Lesser(l, o)
  BY <1>1 DEF Lesser, TiltStopped, Operator
<1>4. TiltServiced(o) \in {o, e, l}
  BY DEF TiltServiced
<1> QED
  BY <1>2, <1>3, <1>4

LEMMA RetractServicedSettles ==
  ASSUME NEW o, NEW t, Handed(o, t), NEW open \in BOOLEAN
  PROVE  Settled(RetractServiced(o, open), t) /\ RetractServiced(o, open) \in Operator
<1> DEFINE r == RetractServiced(o, open)
<1>1. o \in Operator /\ o.since \in Int /\ o.retract \in RetractPhase
  BY DEF Handed, Operator
<1>2. ASSUME NEW ph \in RetractPhase, NEW q, q = [o EXCEPT !.retract = ph, !.since = 0]
      PROVE  /\ q \in Operator /\ q.manual = o.manual /\ q.bench = o.bench
             /\ q.request = o.request /\ q.locked = o.locked /\ q.retract = ph /\ q.since = 0
  <2>1. 0 \in Int
    OBVIOUS
  <2> QED
    BY <1>1, <1>2, <2>1 DEF Operator
<1>3. "INTERLOCKED" \in RetractPhase /\ "INTERLOCKED" \notin Moving
  BY DEF RetractPhase, Moving
<1>4. o.retract \in Moving => Successor[o.retract] \in RetractPhase
  BY DEF Successor, Moving, RetractPhase
<1>5. CASE o.retract \notin Moving
  <2>1. r = o
    BY <1>5 DEF RetractServiced
  <2> QED
    BY <1>5, <2>1, <1>1 DEF Settled, Handed, InTime
<1>6. CASE o.retract \in Moving /\ ~open
  <2>1. r = [o EXCEPT !.retract = "INTERLOCKED", !.since = 0]
    BY <1>6 DEF RetractServiced
  <2> HIDE DEF r
  <2>2. /\ r \in Operator /\ r.manual = o.manual /\ r.bench = o.bench
        /\ r.request = o.request /\ r.locked = o.locked /\ r.retract = "INTERLOCKED"
    BY <1>2, <1>3, <2>1
  <2>3. Settled(r, t) /\ r \in Operator
    BY <1>3, <2>2 DEF Settled, Handed, Timed, InTime, Current, RetractBacked
  <2> QED
    BY <2>3 DEF r
<1>7. CASE o.retract \in Moving /\ open /\ (o.since < 0 \/ o.since >= Duration(o.retract))
  <2>1. r = [o EXCEPT !.retract = Successor[o.retract], !.since = 0]
    BY <1>7 DEF RetractServiced
  <2> HIDE DEF r
  <2>2. /\ r \in Operator /\ r.manual = o.manual /\ r.bench = o.bench
        /\ r.request = o.request /\ r.locked = o.locked
        /\ r.retract = Successor[o.retract] /\ r.since = 0
    BY <1>2, <1>4, <1>7, <2>1
  <2>3. RetractBacked(r, t) /\ InTime(r)
    <3>1. SUFFICES ASSUME Successor[o.retract] \in Moving
                   PROVE  RetractBacked(r, t) /\ InTime(r)
      BY <2>2 DEF RetractBacked, InTime
    <3>2. PICK lead \in Leads : t - lead <= Prior[o.retract] + o.since
      BY <1>7 DEF Handed, Timed, RetractBacked
    <3>3. /\ t \in Nat /\ lead \in Nat /\ Late \in Nat
          /\ o.since <= Duration(o.retract) - 1 + Late
      BY <1>7, PayloadAssumption, LateIsLongest DEF Handed, Timed, RetractBacked, Due
    <3>4. /\ Duration(o.retract) \in Nat /\ Prior[o.retract] \in Nat
          /\ Prior[Successor[o.retract]] = Prior[o.retract] + Duration(o.retract) + Late - 1
          /\ 0 < Duration(Successor[o.retract])
      BY <1>7, <3>1, Phases4
    <3>5. t - lead <= Prior[Successor[o.retract]] + 0
      BY <1>1, <3>2, <3>3, <3>4
    <3> QED
      BY <2>2, <3>3, <3>4, <3>5 DEF RetractBacked, InTime
  <2>4. Settled(r, t)
    BY <2>2, <2>3 DEF Settled, Handed, Timed, Current
  <2> QED
    BY <2>2, <2>4 DEF r
<1>8. CASE o.retract \in Moving /\ open /\ ~(o.since < 0 \/ o.since >= Duration(o.retract))
  <2>1. r = o
    BY <1>8 DEF RetractServiced
  <2>2. InTime(o)
    BY <1>1, <1>8, Phases4 DEF InTime
  <2> QED
    BY <2>1, <2>2, <1>1 DEF Settled, Handed
<1> QED
  BY <1>5, <1>6, <1>7, <1>8

LEMMA ServicedIsSettled ==
  ASSUME NEW o, NEW t, Handed(o, t), NEW open \in BOOLEAN
  PROVE  Settled(Serviced(o, open), t)
<1> DEFINE r == RetractServiced(TiltServiced(o), open)
           b == [r EXCEPT !.bench = Off]
<1>1. Handed(TiltServiced(o), t)
  <2>1. o \in Operator
    BY DEF Handed
  <2> QED
    BY <2>1, TiltServicedIsLesser, LesserIsHanded
<1>2. Settled(r, t) /\ r \in Operator
  BY <1>1, RetractServicedSettles
<1>3. Serviced(o, open) = r \/ Serviced(o, open) = b
  BY DEF Serviced, BenchServiced
<1> HIDE DEF r
<1>4. /\ b.manual = r.manual /\ b.bench = Off /\ b.request = r.request
      /\ b.locked = r.locked /\ b.retract = r.retract /\ b.since = r.since
  BY <1>2 DEF Operator
<1>5. ~Off.on
  BY DEF Off
<1> HIDE DEF b
<1>6. Settled(b, t)
  BY <1>2, <1>4, <1>5 DEF Settled, Timed, InTime, Current, Backed, RetractBacked
<1> QED
  BY <1>2, <1>3, <1>6

-----------------------------------------------------------------------------
(* One iteration.                                                            *)

\* Who has the servos has a movement that is on.
Owns ==
  /\ servos.owner = "bench" => op.bench.on
  /\ servos.owner = "retract" => op.retract \in Moving
  /\ servos.owner = "tilt" => op.request.on
  /\ servos.owner = "remote" => op.manual.on

TimesInv == Settled(op, told) /\ Owns

LEMMA OwnerOwns ==
  ASSUME NEW o, NEW open, NEW neutral, NEW steers, NEW steady, NEW able
  PROVE  LET w == Owner(o, open, neutral, steers, steady, able) IN
         /\ w = "bench" => o.bench.on
         /\ w = "retract" => o.retract \in Moving
         /\ w = "tilt" => o.request.on
         /\ w = "remote" => o.manual.on
BY DEF Owner

LEMMA ContinueSettles ==
  ASSUME NEW o, NEW wants, NEW open, NEW began, Handed(o, told'),
         Continue(o, wants, open, began)
  PROVE  TimesInv'
<1> DEFINE gate == GateOpen(stage' # "idle", phase', launched')
<1>1. op' = Serviced(o, gate)
  BY DEF Continue
<1>2. gate \in BOOLEAN
  BY DEF GateOpen
<1>3. PICK steers, steady, able :
        servos' = [owner  |-> Owner(op', gate,
                                    faulted' \/ phase' \in {"failsafe", "landed"} \/ lock',
                                    steers, steady, able),
                   forced |-> op'.retract = "INTERLOCKED"]
  BY DEF Continue
<1> DEFINE neutral == faulted' \/ phase' \in {"failsafe", "landed"} \/ lock'
<1>4. servos'.owner = Owner(op', gate, neutral, steers, steady, able)
  BY <1>3
<1> HIDE DEF gate, neutral
<1>5. Owns'
  BY <1>4, OwnerOwns DEF Owns
<1>6. Settled(op', told')
  BY <1>1, <1>2, ServicedIsSettled
<1> QED
  BY <1>5, <1>6
  DEF TimesInv, Settled, Timed, InTime, Current, RetractBacked

\* Each command hands on movements that are backed by the history.
LEMMA LoopSettles ==
  ASSUME op \in Operator, told \in Timer, TimesInv, Loop
  PROVE  TimesInv'
<1> SUFFICES ASSUME NEW dt \in Ticks, NEW lead \in Leads,
                    \/ Quiet(dt, lead)
                    \/ /\ op.enabled
                       /\ \/ Neutral(dt, lead) \/ BenchServo(dt, lead)
                          \/ ManualBrake(dt, lead) \/ StartTilt(dt, lead)
                          \/ StopTilt(dt, lead) \/ StartRetract(dt, lead)
                          \/ StopTests(dt, lead) \/ ArmDropTest(dt, lead)
                          \/ ArmWithoutLog(dt, lead) \/ Abort(dt, lead)
                          \/ Disable(dt, lead)
             PROVE  TimesInv'
  BY DEF Loop
<1> DEFINE p == Polled(dt, lead)
           later == Later(told, dt)
<1>1. /\ \A t \in {0, later} : Handed(p, t)
      /\ p.locked = op.locked
  BY PolledIsHanded DEF TimesInv, Settled
<1>2. Granted(dt, FALSE) => told' = later
  BY DEF Granted
<1>3. Granted(dt, TRUE) => told' = 0
  BY DEF Granted
<1>4. Handed(p, later) /\ Handed(p, 0)
  BY <1>1
<1> HIDE DEF p, later
<1>5. ASSUME NEW o, Handed(o, told'), Ordinary(o)
      PROVE  TimesInv'
  BY <1>5, ContinueSettles DEF Ordinary
<1>6. /\ Handed(TestsStopped(p), later) /\ Handed(Silenced(p), later)
      /\ Handed(Unlocked(TiltStopped(p)), later) /\ Handed(TiltStopped(p), later)
      /\ Handed(DirectStopped(p), later)
      /\ Handed([p EXCEPT !.bench = Off], later) /\ Handed([p EXCEPT !.manual = Off], later)
  BY <1>4, StopsAreHanded, CombinedStopsAreHanded
<1>7. Handed(TestsStopped(p), 0) /\ Handed(Silenced(p), 0)
  BY <1>4, CombinedStopsAreHanded
<1>8. CASE Quiet(dt, lead)
  BY <1>2, <1>4, <1>5, <1>8 DEF Quiet, p
<1>9. CASE Neutral(dt, lead)
  BY <1>2, <1>5, <1>6, <1>9 DEF Neutral, p
<1>10. CASE BenchServo(dt, lead)
  <2>1. CASE Gate
    <3>1. Ordinary([Silenced(p) EXCEPT !.bench = Asked(lead)]) /\ told' = 0
      BY <1>10, <2>1 DEF BenchServo, Granted, p
    <3> QED
      BY <1>5, <1>7, <3>1, GrantIsHanded
  <2>2. CASE ~Gate
    <3>1. Ordinary([p EXCEPT !.bench = Off]) /\ told' = later
      BY <1>10, <2>2 DEF BenchServo, Granted, p, later
    <3> QED
      BY <1>5, <1>6, <3>1
  <2> QED
    BY <2>1, <2>2
<1>11. CASE ManualBrake(dt, lead)
  <2>1. PICK sane \in BOOLEAN :
          LET safe == sane /\ phase = "gliding" /\ ~faulted /\ stage = "idle"
          IN  /\ Ordinary(IF safe THEN [TestsStopped(p) EXCEPT !.manual = Asked(lead)]
                          ELSE [p EXCEPT !.manual = Off])
              /\ Granted(dt, safe)
    BY <1>11 DEF ManualBrake, p
  <2>2. CASE sane /\ phase = "gliding" /\ ~faulted /\ stage = "idle"
    <3>1. Ordinary([TestsStopped(p) EXCEPT !.manual = Asked(lead)]) /\ told' = 0
      BY <2>1, <2>2 DEF Granted
    <3> QED
      BY <1>5, <1>7, <3>1, GrantIsHanded
  <2>3. CASE ~(sane /\ phase = "gliding" /\ ~faulted /\ stage = "idle")
    <3>1. Ordinary([p EXCEPT !.manual = Off]) /\ told' = later
      BY <2>1, <2>3 DEF Granted, later
    <3> QED
      BY <1>5, <1>6, <3>1
  <2> QED
    BY <2>2, <2>3
<1>12. CASE StartTilt(dt, lead)
  <2>1. PICK sane \in BOOLEAN :
          LET safe == sane /\ ~op.locked /\ booted /\ phase = "pad" /\ Gate
          IN  /\ Ordinary(IF safe THEN TiltStarted(p, lead) ELSE TiltStopped(p))
              /\ Granted(dt, safe)
    BY <1>12 DEF StartTilt, p
  <2>2. CASE sane /\ ~op.locked /\ booted /\ phase = "pad" /\ Gate
    <3>1. Ordinary(TiltStarted(p, lead)) /\ told' = 0 /\ ~p.locked
      BY <1>1, <2>1, <2>2 DEF Granted
    <3> QED
      BY <1>4, <1>5, <3>1, TiltGrantIsHanded
  <2>3. CASE ~(sane /\ ~op.locked /\ booted /\ phase = "pad" /\ Gate)
    <3>1. Ordinary(TiltStopped(p)) /\ told' = later
      BY <2>1, <2>3 DEF Granted, later
    <3> QED
      BY <1>5, <1>6, <3>1
  <2> QED
    BY <2>2, <2>3
<1>13. CASE StopTilt(dt, lead)
  BY <1>2, <1>5, <1>6, <1>13 DEF StopTilt, p
<1>14. CASE StartRetract(dt, lead)
  <2>1. Gate \in BOOLEAN
    BY DEF Gate, GateOpen
  <2>2. Ordinary(RetractStarted(p, Gate, lead)) /\ (Gate => told' = 0) /\ (~Gate => told' = later)
    BY <1>14 DEF StartRetract, Granted, p, later
  <2>3. Handed(p, told')
    BY <1>4, <2>1, <2>2
  <2>4. Handed(RetractStarted(p, Gate, lead), told')
    BY <2>1, <2>2, <2>3, RetractGrantIsHanded
  <2> QED
    BY <1>5, <2>2, <2>4
<1>15. CASE StopTests(dt, lead)
  BY <1>2, <1>5, <1>6, <1>15 DEF StopTests, p
<1>16. CASE ArmDropTest(dt, lead)
  BY <1>2, <1>6, <1>16, ContinueSettles DEF ArmDropTest, p
<1>17. CASE ArmWithoutLog(dt, lead)
  BY <1>2, <1>6, <1>17, ContinueSettles DEF ArmWithoutLog, p
<1>18. CASE Abort(dt, lead)
  BY <1>2, <1>6, <1>18, ContinueSettles DEF Abort, p
<1>19. CASE Disable(dt, lead)
  <2>1. Ordinary([Silenced(p) EXCEPT !.enabled = FALSE]) /\ told' = later
    BY <1>2, <1>19 DEF Disable, p
  <2>2. Lesser([Silenced(p) EXCEPT !.enabled = FALSE], Silenced(p))
    <3>1. Silenced(p) \in Operator
      BY <1>6 DEF Handed
    <3> QED
      BY <3>1 DEF Lesser, Operator
  <2> QED
    BY <1>5, <1>6, <2>1, <2>2, LesserIsHanded
<1> QED
  BY <1>8, <1>9, <1>10, <1>11, <1>12, <1>13, <1>14, <1>15, <1>16, <1>17, <1>18, <1>19

\* A restart leaves nothing going.
LEMMA BootSettles ==
  /\ PayloadInit => TimesInv
  /\ Reboot => TimesInv'
<1>1. Settled(NoOperator, Unset)
  BY DEF Settled, Timed, InTime, Current, Backed, RetractBacked, NoOperator, Off, Moving
<1>2. ASSUME PayloadInit
      PROVE  TimesInv
  BY <1>1, <1>2 DEF PayloadInit, TimesInv, Owns
<1>3. ASSUME Reboot
      PROVE  TimesInv'
  <2>1. op' = NoOperator /\ told' = Unset /\ servos'.owner = "neutral"
    BY <1>3 DEF Reboot
  <2> QED
    BY <1>1, <2>1
    DEF TimesInv, Owns, Settled, Timed, InTime, Current, Backed, RetractBacked
<1> QED
  BY <1>2, <1>3

-----------------------------------------------------------------------------
(* Theorems.                                                                 *)

\* The inductive invariant.
THEOREM PayloadInvariant == PayloadSpec => []PayloadInv
<1>1. PayloadInit => PayloadInv
  BY PayloadInitEstablishes
<1>2. PayloadInv /\ [PayloadNext]_payloadVars => PayloadInv'
  BY PayloadNextKeeps, PayloadStutterKeeps
<1> QED
  BY <1>1, <1>2, PTL DEF PayloadSpec

\* The operator never has two movements going, whatever the order of the
\* commands: the mutual cancellation in updateLoRaRemoteControl is complete.
THEOREM MovementsExclude == PayloadSpec => []OneMovement
<1>1. PayloadInv => OneMovement
  BY DEF PayloadInv, Sound, OneMovement
<1> QED
  BY <1>1, PayloadInvariant, PTL

\* The servos are neutral throughout a recording that is not guided.
THEOREM InertTestsAreNeutral == PayloadSpec => []InertTestIsNeutral
<1>1. PayloadInit => PayloadInv /\ InertTestIsNeutral
  BY PayloadInitEstablishes
<1>2. PayloadInv /\ InertTestIsNeutral /\ [PayloadNext]_payloadVars
        => PayloadInv' /\ InertTestIsNeutral'
  BY PayloadNextKeeps, PayloadStutterKeeps
<1> QED
  BY <1>1, <1>2, PTL DEF PayloadSpec

\* From the iteration that detects the launch on, no bench movement has the
\* servos.
THEOREM LaunchEndsBench == PayloadSpec => []BenchEndsAtLaunch
<1>1. PayloadInit => PayloadInv /\ BenchEndsAtLaunch
  BY PayloadInitEstablishes
<1>2. PayloadInv /\ BenchEndsAtLaunch /\ [PayloadNext]_payloadVars
        => PayloadInv' /\ BenchEndsAtLaunch'
  BY PayloadNextKeeps, PayloadStutterKeeps
<1> QED
  BY <1>1, <1>2, PTL DEF PayloadSpec

\* Every variable keeps its type, whatever the order of commands and restarts.
THEOREM PayloadTypes == PayloadSpec => []PayloadTypeOK
<1>1. PayloadInit => PayloadInv /\ PayloadTypeOK
  BY PayloadInitEstablishes, BootIsTyped
<1>2. PayloadInv /\ PayloadTypeOK /\ [PayloadNext]_payloadVars
        => PayloadInv' /\ PayloadTypeOK'
  <2> SUFFICES ASSUME PayloadInv, PayloadTypeOK, [PayloadNext]_payloadVars
               PROVE  PayloadInv' /\ PayloadTypeOK'
    OBVIOUS
  <2>1. PayloadInv'
    BY PayloadNextKeeps, PayloadStutterKeeps
  <2>2. CASE Loop
    BY <2>1, <2>2, LoopIsTyped
  <2>3. CASE Reboot
    BY <2>1, <2>3, BootIsTyped
  <2>4. CASE UNCHANGED payloadVars
    BY <2>1, <2>4 DEF payloadVars, stageVars, PayloadTypeOK
  <2> QED
    BY <2>2, <2>3, <2>4, <2>1 DEF PayloadNext
<1> QED
  BY <1>1, <1>2, PTL DEF PayloadSpec

\* Ages and history stay in the relation the code maintains between them.
THEOREM Times == PayloadSpec => []TimesInv
<1>1. PayloadInit => TimesInv
  BY BootSettles
<1>2. PayloadTypeOK /\ TimesInv /\ [PayloadNext]_payloadVars => TimesInv'
  <2> SUFFICES ASSUME PayloadTypeOK, TimesInv, [PayloadNext]_payloadVars
               PROVE  TimesInv'
    OBVIOUS
  <2>1. op \in Operator /\ told \in Timer
    BY DEF PayloadTypeOK
  <2>2. CASE Loop
    BY <2>1, <2>2, LoopSettles
  <2>3. CASE Reboot
    BY <2>3, BootSettles
  <2>4. CASE UNCHANGED payloadVars
    BY <2>4 DEF payloadVars, TimesInv, Owns, Settled, Timed, InTime, Current, Backed,
                RetractBacked
  <2> QED
    BY <2>2, <2>3, <2>4 DEF PayloadNext
<1> QED
  BY <1>1, <1>2, PayloadTypes, PTL DEF PayloadSpec

\* No movement drives the servos longer than its timeout after it was last
\* granted, and the retract test not longer than its four phases, each of which
\* may end one iteration late.
THEOREM MovementsEnd == PayloadSpec => []MovementsExpire
<1>1. PayloadTypeOK /\ TimesInv => MovementsExpire
  <2> SUFFICES ASSUME PayloadTypeOK, TimesInv
               PROVE  MovementsExpire
    OBVIOUS
  <2> DEFINE Before(timeout) == \E lead \in Leads : told - lead < timeout
  <2>1. op \in Operator /\ Settled(op, told) /\ Owns /\ Leads \subseteq Nat
    BY PayloadAssumption DEF PayloadTypeOK, TimesInv
  <2>2. \A m \in Movement, timeout \in Nat :
          Backed(m, told) /\ m.on /\ m.age < timeout => Before(timeout)
    <3> TAKE m \in Movement, timeout \in Nat
    <3> HAVE Backed(m, told) /\ m.on /\ m.age < timeout
    <3>1. PICK lead \in Leads : told - lead <= m.age
      BY DEF Backed
    <3>2. told \in Nat /\ lead \in Nat /\ m.age \in Int
      BY <2>1, OffIsMovement DEF Backed, Movement
    <3>3. told - lead < timeout
      BY <3>1, <3>2
    <3> QED
      BY <3>3
  <2>3. BenchTimeout \in Nat /\ ManualTimeout \in Nat /\ TiltTimeout \in Nat
    BY PayloadAssumption
  <2>4. op.bench \in Movement /\ op.manual \in Movement /\ op.request \in Movement
        /\ op.since \in Int
    BY <2>1 DEF Operator
  <2> HIDE DEF Before
  <2>5. servos.owner = "bench" => Before(BenchTimeout)
    BY <2>1, <2>2, <2>3, <2>4 DEF Owns, Settled, Timed, Current
  <2>6. servos.owner = "remote" => Before(ManualTimeout)
    BY <2>1, <2>2, <2>3, <2>4 DEF Owns, Settled, Timed, Current
  <2>7. servos.owner = "tilt" => Before(TiltTimeout) /\ ~op.locked
    BY <2>1, <2>2, <2>3, <2>4 DEF Owns, Settled, Timed, Current
  <2>8. servos.owner = "retract" => Before(LastsAtMost)
    <3> HAVE servos.owner = "retract"
    <3>1. op.retract \in Moving
      BY <2>1 DEF Owns
    <3>2. PICK lead \in Leads : told - lead <= Prior[op.retract] + op.since
      BY <2>1, <3>1 DEF Settled, Timed, RetractBacked
    <3>3. told \in Nat /\ lead \in Nat /\ op.since < Duration(op.retract)
      BY <2>1, <3>1 DEF Settled, Timed, RetractBacked, InTime
    <3>4. /\ Duration(op.retract) \in Nat /\ Prior[op.retract] \in Nat
          /\ Prior[op.retract] + Duration(op.retract) <= LastsAtMost
      BY <3>1, Phases4
    <3>5. LastsAtMost \in Nat
      BY PayloadAssumption, LateIsLongest DEF LastsAtMost
    <3>6. told - lead < LastsAtMost
      BY <2>4, <3>2, <3>3, <3>4, <3>5
    <3> QED
      BY <3>6 DEF Before
  <2> QED
    BY <2>5, <2>6, <2>7, <2>8 DEF MovementsExpire, Before, LastsAtMost, Late
<1> QED
  BY <1>1, Times, PayloadTypes, PTL

-----------------------------------------------------------------------------
(* The payload as its operator sees it, at the clock of the last poll.       *)

\* The one movement of the settings o, and its age a after their clock.
Kind(o) ==
  IF o.manual.on THEN "MANUAL_BRAKE" ELSE IF o.bench.on THEN "BENCH_SERVO"
  ELSE IF o.request.on THEN "START_TILT" ELSE "nothing"

AgeAt(o, a) ==
  IF o.manual.on THEN o.manual.age + a ELSE IF o.bench.on THEN o.bench.age + a
  ELSE IF o.request.on THEN o.request.age + a ELSE 0

Shown(rec, enabled, kind, age) ==
  [recording |-> rec, enabled |-> enabled, move |-> kind, age |-> age]

View(o, rec, a) == Shown(rec, o.enabled, Kind(o), AgeAt(o, a))

LEMMA ShownChanges ==
  ASSUME NEW r, NEW e, NEW k, NEW a
  PROVE  LET p == Shown(r, e, k, a) IN
         /\ p.recording = r /\ p.enabled = e /\ p.move = k /\ p.age = a
         /\ \A x : Remote!Moved(p, x) = Shown(r, e, x, 0)
         /\ Remote!Resting(p) = Shown(r, e, "nothing", 0)
         /\ \A x : Remote!Recorded(p, x) = Shown(x, e, k, a)
<1> DEFINE p == Shown(r, e, k, a)
<1>1. p.recording = r /\ p.enabled = e /\ p.move = k /\ p.age = a
  BY DEF Shown
<1>2. ASSUME NEW x
      PROVE  Remote!Moved(p, x) = Shown(r, e, x, 0)
  <2> DEFINE q == [p EXCEPT !.move = x]
  <2>1. q = Shown(r, e, x, a)
    BY DEF Shown
  <2>2. Remote!Moved(p, x) = [q EXCEPT !.age = 0]
    BY DEF Remote!Moved
  <2> HIDE DEF q
  <2> QED
    BY <2>1, <2>2 DEF Shown
<1>3. \A x : Remote!Recorded(p, x) = Shown(x, e, k, a)
  BY DEF Shown, Remote!Recorded
<1>5. Remote!Resting(p) = Shown(r, e, "nothing", 0)
  BY <1>2 DEF Remote!Resting, Remote!Nothing
<1> QED
  BY <1>1, <1>2, <1>3, <1>5

LEMMA ShownAges ==
  ASSUME NEW r, NEW e, NEW k, NEW a, NEW dt
  PROVE  Remote!Aged(Shown(r, e, k, a), dt)
           = IF k = "nothing" THEN Shown(r, e, k, a) ELSE Shown(r, e, k, a + dt)
BY DEF Shown, Remote!Aged, Remote!Nothing

LEMMA ShownDisables ==
  ASSUME NEW r, NEW e, NEW k, NEW a
  PROVE  Remote!Disabled(Shown(r, e, k, a)) = Shown(r, FALSE, k, a)
<1>1. \A x : [Shown(r, e, k, a) EXCEPT !.enabled = x] = Shown(r, x, k, a)
  BY DEF Shown
<1> QED
  BY <1>1 DEF Remote!Disabled

LEMMA ViewShows ==
  ASSUME NEW o, NEW rec, NEW a
  PROVE  LET p == View(o, rec, a) IN
         /\ p = Shown(rec, o.enabled, Kind(o), AgeAt(o, a))
         /\ p.recording = rec /\ p.enabled = o.enabled /\ p.move = Kind(o) /\ p.age = AgeAt(o, a)
         /\ Remote!Resting(p) = Shown(rec, o.enabled, "nothing", 0)
<1> DEFINE s == Shown(rec, o.enabled, Kind(o), AgeAt(o, a))
<1>1. /\ s.recording = rec /\ s.enabled = o.enabled /\ s.move = Kind(o) /\ s.age = AgeAt(o, a)
      /\ Remote!Resting(s) = Shown(rec, o.enabled, "nothing", 0)
  BY ShownChanges
<1> QED
  BY <1>1 DEF View

\* What each stop leaves of the movements.
LEMMA StopsShow ==
  ASSUME NEW o, Sound(o), NEW rec, NEW a
  PROVE  /\ View(TiltStopped(o), rec, a) = Remote!Stopped(View(o, rec, a), {"START_TILT"})
         /\ View(TestsStopped(o), rec, a) = Remote!Stopped(View(o, rec, a), {"START_TILT"})
         /\ View(DirectStopped(o), rec, a)
              = Remote!Stopped(View(o, rec, a), {"MANUAL_BRAKE", "BENCH_SERVO"})
         /\ View(Silenced(o), rec, a) = Remote!Resting(View(o, rec, a))
<1>1. o \in Operator /\ Exclusive(o) /\ ~Off.on
  BY OffIsMovement DEF Sound
<1> DEFINE t == TiltStopped(o)  u == TestsStopped(o)  d == DirectStopped(o)  s == Silenced(o)
<1>2. /\ t.manual = o.manual /\ t.bench = o.bench /\ t.request = Off /\ t.enabled = o.enabled
      /\ u.manual = o.manual /\ u.bench = o.bench /\ u.request = Off /\ u.enabled = o.enabled
      /\ d.manual = Off /\ d.bench = Off /\ d.request = o.request /\ d.enabled = o.enabled
      /\ s.manual = Off /\ s.bench = Off /\ s.request = Off /\ s.enabled = o.enabled
  BY <1>1 DEF TiltStopped, TestsStopped, DirectStopped, Silenced, RetractStopped, Unlocked, Operator
<1> HIDE DEF t, u, d, s
<1> DEFINE p == View(o, rec, a)
<1>3. /\ p = Shown(rec, o.enabled, Kind(o), AgeAt(o, a))
      /\ p.move = Kind(o)
      /\ Remote!Resting(p) = Shown(rec, o.enabled, "nothing", 0)
  BY ViewShows
<1> HIDE DEF p
<1>4. /\ View(t, rec, a) = Remote!Stopped(p, {"START_TILT"})
      /\ View(u, rec, a) = Remote!Stopped(p, {"START_TILT"})
  BY <1>1, <1>2, <1>3 DEF View, Kind, AgeAt, Remote!Stopped
<1>5. View(d, rec, a) = Remote!Stopped(p, {"MANUAL_BRAKE", "BENCH_SERVO"})
  BY <1>1, <1>2, <1>3 DEF View, Kind, AgeAt, Remote!Stopped, Exclusive
<1>6. View(s, rec, a) = Remote!Resting(p)
  BY <1>1, <1>2, <1>3 DEF View, Kind, AgeAt
<1> QED
  BY <1>4, <1>5, <1>6 DEF t, u, d, s, p

\* A stop of one movement.
LEMMA RefusalShows ==
  ASSUME NEW o, Sound(o), NEW rec, NEW a
  PROVE  /\ View([o EXCEPT !.bench = Off], rec, a)
              = Remote!Stopped(View(o, rec, a), {"BENCH_SERVO"})
         /\ View([o EXCEPT !.manual = Off], rec, a)
              = Remote!Stopped(View(o, rec, a), {"MANUAL_BRAKE"})
<1>1. o \in Operator /\ Exclusive(o) /\ ~Off.on
  BY OffIsMovement DEF Sound
<1> DEFINE b == [o EXCEPT !.bench = Off]  m == [o EXCEPT !.manual = Off]
<1>2. /\ b.manual = o.manual /\ b.bench = Off /\ b.request = o.request /\ b.enabled = o.enabled
      /\ m.manual = Off /\ m.bench = o.bench /\ m.request = o.request /\ m.enabled = o.enabled
  BY <1>1 DEF Operator
<1> HIDE DEF b, m
<1> DEFINE p == View(o, rec, a)
<1>3. /\ p = Shown(rec, o.enabled, Kind(o), AgeAt(o, a))
      /\ p.move = Kind(o)
      /\ Remote!Resting(p) = Shown(rec, o.enabled, "nothing", 0)
  BY ViewShows
<1> HIDE DEF p
<1>4. View(b, rec, a) = Remote!Stopped(p, {"BENCH_SERVO"})
  BY <1>1, <1>2, <1>3 DEF View, Kind, AgeAt, Remote!Stopped, Exclusive
<1>5. View(m, rec, a) = Remote!Stopped(p, {"MANUAL_BRAKE"})
  BY <1>1, <1>2, <1>3 DEF View, Kind, AgeAt, Remote!Stopped, Exclusive
<1> QED
  BY <1>4, <1>5 DEF b, m, p

\* A command that is granted.
LEMMA GrantShows ==
  ASSUME NEW o, Sound(o), NEW rec, NEW lead \in Leads
  PROVE  LET p == View(o, rec, lead) IN
         /\ View([Silenced(o) EXCEPT !.bench = Asked(lead)], rec, lead)
              = Remote!Moved(p, "BENCH_SERVO")
         /\ View([TestsStopped(o) EXCEPT !.manual = Asked(lead)], rec, lead)
              = Remote!Moved(p, "MANUAL_BRAKE")
         /\ View(TiltStarted(o, lead), rec, lead) = Remote!Moved(p, "START_TILT")
<1>1. o \in Operator /\ Exclusive(o) /\ ~Off.on
  BY OffIsMovement DEF Sound
<1>2. Asked(lead).on /\ Asked(lead).age + lead = 0
  BY PayloadAssumption DEF Asked
<1> DEFINE p == View(o, rec, lead)
           b == [Silenced(o) EXCEPT !.bench = Asked(lead)]
           m == [TestsStopped(o) EXCEPT !.manual = Asked(lead)]
           t == TiltStarted(o, lead)
<1>3. /\ b.manual = Off /\ b.bench = Asked(lead) /\ b.request = Off /\ b.enabled = o.enabled
      /\ m.manual = Asked(lead) /\ m.enabled = o.enabled
      /\ t.manual = Off /\ t.bench = Off /\ t.request = Asked(lead) /\ t.enabled = o.enabled
  BY <1>1 DEF TiltStopped, TestsStopped, DirectStopped, Silenced, RetractStopped, Unlocked,
     TiltStarted, Operator
<1> HIDE DEF b, m, t
<1>4. p = Shown(rec, o.enabled, Kind(o), AgeAt(o, lead))
  BY DEF View
<1> HIDE DEF p
<1>5. \A x : Remote!Moved(p, x) = Shown(rec, o.enabled, x, 0)
  BY <1>4, ShownChanges
<1>6. View(b, rec, lead) = Shown(rec, o.enabled, "BENCH_SERVO", 0)
  BY <1>1, <1>2, <1>3 DEF View, Kind, AgeAt
<1>7. View(m, rec, lead) = Shown(rec, o.enabled, "MANUAL_BRAKE", 0)
  BY <1>1, <1>2, <1>3 DEF View, Kind, AgeAt
<1>8. View(t, rec, lead) = Shown(rec, o.enabled, "START_TILT", 0)
  BY <1>1, <1>2, <1>3 DEF View, Kind, AgeAt
<1> QED
  BY <1>5, <1>6, <1>7, <1>8 DEF b, m, t, p

\* A movement grows, or ends, by the clock of the command.
LEMMA OneExpires ==
  ASSUME NEW m \in Movement, NEW dt \in Int, NEW lead \in Int, NEW a \in Int, NEW timeout \in Int
  PROVE  LET g == Grown(m, dt)
             e == IF Over(g, timeout, lead) THEN Off ELSE g
             age == m.age + a + (dt + lead - a)
         IN  /\ e.on <=> m.on /\ ~(age >= timeout)
             /\ e.on => e.age + lead = age
<1>1. CASE ~m.on
  BY <1>1, OffIsMovement DEF Grown, Over
<1>2. CASE m.on
  <2>1. m \in [on : {TRUE}, age : Int]
    BY <1>2, OffIsMovement DEF Movement
  <2> DEFINE g == [m EXCEPT !.age = m.age + dt]
  <2>2. g.on /\ g.age = m.age + dt /\ Grown(m, dt) = g
    BY <1>2, <2>1 DEF Grown
  <2> HIDE DEF g
  <2>3. Over(g, timeout, lead) <=> m.age + a + (dt + lead - a) >= timeout
    BY <2>1, <2>2 DEF Over
  <2>4. g.age + lead = m.age + a + (dt + lead - a)
    BY <2>1, <2>2
  <2> QED
    BY <1>2, <2>2, <2>3, <2>4, OffIsMovement
<1> QED
  BY <1>1, <1>2

\* The abstract payload ends a movement where the code does.
LEMMA PolledShows ==
  ASSUME Sound(op), NEW rec, NEW dt \in Ticks, NEW lead \in Leads, ahead \in Int
  PROVE  View(Polled(dt, lead), rec, lead)
           = Remote!MovesExpired(Remote!Aged(View(op, rec, ahead), dt + lead - ahead))
<1>1. op \in Operator /\ Exclusive(op) /\ ~Off.on
  BY OffIsMovement DEF Sound
<1>2. dt \in Int /\ lead \in Int /\ ManualTimeout \in Int /\ BenchTimeout \in Int /\ TiltTimeout \in Int
  BY PayloadAssumption
<1> DEFINE q == Polled(dt, lead)
           d == dt + lead - ahead
           m == IF Over(Grown(op.manual, dt), ManualTimeout, lead) THEN Off ELSE Grown(op.manual, dt)
           b == IF Over(Grown(op.bench, dt), BenchTimeout, lead) THEN Off ELSE Grown(op.bench, dt)
           r == IF Over(Grown(op.request, dt), TiltTimeout, lead) THEN Off ELSE Grown(op.request, dt)
<1>3. q.manual = m /\ q.bench = b /\ q.request = r /\ q.enabled = op.enabled
  BY <1>1 DEF Polled, Expired, Aged, Operator
<1>4. op.manual \in Movement /\ op.bench \in Movement /\ op.request \in Movement
  BY <1>1 DEF Operator
<1>5. /\ m.on <=> op.manual.on /\ ~(op.manual.age + ahead + d >= ManualTimeout)
      /\ m.on => m.age + lead = op.manual.age + ahead + d
  BY <1>2, <1>4, OneExpires
<1>6. /\ b.on <=> op.bench.on /\ ~(op.bench.age + ahead + d >= BenchTimeout)
      /\ b.on => b.age + lead = op.bench.age + ahead + d
  BY <1>2, <1>4, OneExpires
<1>7. /\ r.on <=> op.request.on /\ ~(op.request.age + ahead + d >= TiltTimeout)
      /\ r.on => r.age + lead = op.request.age + ahead + d
  BY <1>2, <1>4, OneExpires
<1> HIDE DEF q, d, m, b, r
<1> DEFINE k == Kind(op)
           s == Remote!Aged(View(op, rec, ahead), d)
           over == Shown(rec, op.enabled, "nothing", 0)
<1>8. s = IF k = "nothing" THEN Shown(rec, op.enabled, k, AgeAt(op, ahead))
          ELSE Shown(rec, op.enabled, k, AgeAt(op, ahead) + d)
  BY ShownAges DEF View
<1> HIDE DEF s
<1>9. Remote!MovesExpired(s) = View(q, rec, lead)
  <2>1. CASE op.manual.on
    <3>1. k = "MANUAL_BRAKE" /\ AgeAt(op, ahead) = op.manual.age + ahead
      BY <2>1 DEF Kind, AgeAt
    <3>2. ~b.on /\ ~r.on
      BY <1>1, <1>6, <1>7, <2>1 DEF Exclusive
    <3>3. s = Shown(rec, op.enabled, "MANUAL_BRAKE", op.manual.age + ahead + d)
      BY <1>8, <3>1
    <3>4. s.move = "MANUAL_BRAKE" /\ s.age = op.manual.age + ahead + d /\ Remote!Resting(s) = over
      BY <3>3, ShownChanges
    <3>5. Remote!MovesExpired(s) = IF op.manual.age + ahead + d >= ManualTimeout THEN over ELSE s
      BY <3>4 DEF Remote!MovesExpired, Remote!Nothing
    <3>6. CASE op.manual.age + ahead + d >= ManualTimeout
      BY <1>3, <1>5, <3>2, <3>5, <3>6 DEF View, Kind, AgeAt
    <3>7. CASE ~(op.manual.age + ahead + d >= ManualTimeout)
      BY <1>3, <1>5, <2>1, <3>3, <3>5, <3>7 DEF View, Kind, AgeAt
    <3> QED
      BY <3>6, <3>7
  <2>2. CASE op.bench.on
    <3>1. ~op.manual.on /\ k = "BENCH_SERVO" /\ AgeAt(op, ahead) = op.bench.age + ahead
      BY <1>1, <2>2 DEF Kind, AgeAt, Exclusive
    <3>2. ~m.on /\ ~r.on
      BY <1>1, <1>5, <1>7, <2>2 DEF Exclusive
    <3>3. s = Shown(rec, op.enabled, "BENCH_SERVO", op.bench.age + ahead + d)
      BY <1>8, <3>1
    <3>4. s.move = "BENCH_SERVO" /\ s.age = op.bench.age + ahead + d /\ Remote!Resting(s) = over
      BY <3>3, ShownChanges
    <3>5. Remote!MovesExpired(s) = IF op.bench.age + ahead + d >= BenchTimeout THEN over ELSE s
      BY <3>4 DEF Remote!MovesExpired, Remote!Nothing
    <3>6. CASE op.bench.age + ahead + d >= BenchTimeout
      BY <1>3, <1>6, <3>2, <3>5, <3>6 DEF View, Kind, AgeAt
    <3>7. CASE ~(op.bench.age + ahead + d >= BenchTimeout)
      BY <1>3, <1>6, <2>2, <3>2, <3>3, <3>5, <3>7 DEF View, Kind, AgeAt
    <3> QED
      BY <3>6, <3>7
  <2>3. CASE op.request.on
    <3>1. /\ ~op.manual.on /\ ~op.bench.on /\ k = "START_TILT"
          /\ AgeAt(op, ahead) = op.request.age + ahead
      BY <1>1, <2>3 DEF Kind, AgeAt, Exclusive
    <3>2. ~m.on /\ ~b.on
      BY <1>5, <1>6, <3>1
    <3>3. s = Shown(rec, op.enabled, "START_TILT", op.request.age + ahead + d)
      BY <1>8, <3>1
    <3>4. s.move = "START_TILT" /\ s.age = op.request.age + ahead + d /\ Remote!Resting(s) = over
      BY <3>3, ShownChanges
    <3>5. Remote!MovesExpired(s) = IF op.request.age + ahead + d >= TiltTimeout THEN over ELSE s
      BY <3>4 DEF Remote!MovesExpired, Remote!Nothing
    <3>6. CASE op.request.age + ahead + d >= TiltTimeout
      BY <1>3, <1>7, <3>2, <3>5, <3>6 DEF View, Kind, AgeAt
    <3>7. CASE ~(op.request.age + ahead + d >= TiltTimeout)
      BY <1>3, <1>7, <2>3, <3>2, <3>3, <3>5, <3>7 DEF View, Kind, AgeAt
    <3> QED
      BY <3>6, <3>7
  <2>4. CASE ~op.manual.on /\ ~op.bench.on /\ ~op.request.on
    <3>1. k = "nothing" /\ AgeAt(op, ahead) = 0 /\ ~m.on /\ ~b.on /\ ~r.on
      BY <1>5, <1>6, <1>7, <2>4 DEF Kind, AgeAt
    <3>2. s = over
      BY <1>8, <3>1
    <3>3. s.move = "nothing"
      BY <3>2, ShownChanges
    <3> QED
      BY <1>3, <3>1, <3>2, <3>3 DEF View, Kind, AgeAt, Remote!MovesExpired, Remote!Nothing
  <2> QED
    BY <2>1, <2>2, <2>3, <2>4
<1> QED
  BY <1>9 DEF s, d, q

\* The record of the refinement mapping is the view of the last poll.
Seen == View(op, stage # "idle", ahead)

LEMMA RecordingShows ==
  ASSUME NEW o, NEW rec, NEW now, NEW a
  PROVE  Remote!Recorded(View(o, rec, a), now) = View(o, now, a)
BY ShownChanges DEF View

LEMMA UnlockedShows ==
  ASSUME NEW o, Sound(o), NEW rec, NEW a
  PROVE  View(Unlocked(o), rec, a) = View(o, rec, a)
<1> DEFINE u == Unlocked(o)
<1>1. u.manual = o.manual /\ u.bench = o.bench /\ u.request = o.request /\ u.enabled = o.enabled
  BY DEF Sound, Unlocked, Operator
<1> HIDE DEF u
<1>2. View(u, rec, a) = View(o, rec, a)
  BY <1>1 DEF View, Kind, AgeAt
<1> QED
  BY <1>2 DEF u

\* The retract test takes the place of every other movement.
LEMMA RetractShows ==
  ASSUME NEW o, Sound(o), NEW open \in BOOLEAN, NEW rec, NEW lead
  PROVE  View(RetractStarted(o, open, lead), rec, lead) = Remote!Resting(View(o, rec, lead))
<1>1. o \in Operator /\ ~Off.on
  BY OffIsMovement DEF Sound
<1> DEFINE r == RetractStarted(o, open, lead)
           p == View(o, rec, lead)
<1>2. r.manual = Off /\ r.bench = Off /\ r.request = Off /\ r.enabled = o.enabled
  <2> DEFINE u == Unlocked(TiltStopped(DirectStopped(o)))
             ph == IF open THEN "EXTEND1" ELSE "INTERLOCKED"
             since == IF open THEN -lead ELSE 0
  <2>1. u.manual = Off /\ u.bench = Off /\ u.request = Off /\ u.enabled = o.enabled
    BY <1>1 DEF Unlocked, TiltStopped, DirectStopped, Operator
  <2>2. r = [u EXCEPT !.retract = ph, !.since = since]
    BY DEF RetractStarted
  <2>3. DOMAIN u = DOMAIN o
    BY DEF Unlocked, TiltStopped, DirectStopped
  <2>4. {"manual", "bench", "request", "enabled"} \subseteq DOMAIN o
    BY <1>1 DEF Operator
  <2> HIDE DEF u, r, ph, since
  <2> QED
    BY <2>1, <2>2, <2>3, <2>4
<1> HIDE DEF r
<1>3. Remote!Resting(p) = Shown(rec, o.enabled, "nothing", 0)
  BY ViewShows
<1> HIDE DEF p
<1>4. View(r, rec, lead) = Remote!Resting(p)
  BY <1>1, <1>2, <1>3 DEF View, Kind, AgeAt
<1> QED
  BY <1>4 DEF r, p

LEMMA DisabledShows ==
  ASSUME NEW o, Sound(o), NEW rec, NEW a
  PROVE  View([Silenced(o) EXCEPT !.enabled = FALSE], rec, a)
           = Remote!Disabled(Remote!Resting(View(o, rec, a)))
<1>1. o \in Operator /\ ~Off.on
  BY OffIsMovement DEF Sound
<1> DEFINE s == Silenced(o)
           p == View(o, rec, a)
<1>2. s.manual = Off /\ s.bench = Off /\ s.request = Off /\ DOMAIN s = DOMAIN o
  BY <1>1 DEF TestsStopped, DirectStopped, TiltStopped, Silenced, RetractStopped, Unlocked, Operator
<1>3. {"manual", "bench", "request", "enabled"} \subseteq DOMAIN o
  BY <1>1 DEF Operator
<1> HIDE DEF s
<1>4. \A no \in BOOLEAN : LET q == [s EXCEPT !.enabled = no]
         IN q.manual = Off /\ q.bench = Off /\ q.request = Off /\ q.enabled = no
  BY <1>2, <1>3
<1>5. Remote!Resting(p) = Shown(rec, o.enabled, "nothing", 0)
  BY ViewShows
<1> HIDE DEF p
<1>6. Remote!Disabled(Remote!Resting(p)) = Shown(rec, FALSE, "nothing", 0)
  BY <1>5, ShownDisables
<1>7. \A no \in BOOLEAN : View([s EXCEPT !.enabled = no], rec, a) = Shown(rec, no, "nothing", 0)
  BY <1>1, <1>4 DEF View, Kind, AgeAt
<1> QED
  BY <1>6, <1>7 DEF s, p

\* What the rest of an iteration may end.
LEMMA ServicedFields ==
  ASSUME NEW o, Ready(o), NEW open \in BOOLEAN
  PROVE  LET q == Serviced(o, open) IN
         /\ q.manual = o.manual /\ q.enabled = o.enabled
         /\ q.bench = IF open THEN o.bench ELSE Off
         /\ q.request \in {o.request, Off}
<1> DEFINE t == TiltServiced(o)
           r == RetractServiced(t, open)
           q == Serviced(o, open)
<1>1. o \in Operator
  BY DEF Ready, Sound
<1>2. /\ t.manual = o.manual /\ t.enabled = o.enabled /\ t.bench = o.bench
      /\ t.request \in {o.request, Off} /\ DOMAIN t = DOMAIN o
  <2> DEFINE n == TiltStopped(o)
             l == [n EXCEPT !.locked = TRUE]
             z == [o EXCEPT !.armed = Off]
  <2>1. /\ n.manual = o.manual /\ n.enabled = o.enabled /\ n.bench = o.bench
        /\ n.request = Off /\ DOMAIN n = DOMAIN o
    BY <1>1 DEF TiltStopped, Operator
  <2>2. /\ z.manual = o.manual /\ z.enabled = o.enabled /\ z.bench = o.bench
        /\ z.request = o.request /\ DOMAIN z = DOMAIN o
    BY <1>1 DEF Operator
  <2>3. t \in {o, l, z}
    BY DEF TiltServiced
  <2>4. {"manual", "bench", "request", "enabled"} \subseteq DOMAIN o
    BY <1>1 DEF Operator
  <2> HIDE DEF n, t, z
  <2>5. /\ l.manual = o.manual /\ l.enabled = o.enabled /\ l.bench = o.bench
        /\ l.request = Off /\ DOMAIN l = DOMAIN o
    BY <2>1, <2>4
  <2> HIDE DEF l
  <2> QED
    BY <2>2, <2>3, <2>5
<1> HIDE DEF t
<1>3. /\ r.manual = t.manual /\ r.enabled = t.enabled /\ r.bench = t.bench
      /\ r.request = t.request /\ DOMAIN r = DOMAIN o
  <2>1. {"manual", "bench", "request", "enabled"} \subseteq DOMAIN t
    BY <1>1, <1>2 DEF Operator
  <2>2. ASSUME NEW ph, NEW s, s = [t EXCEPT !.retract = ph, !.since = 0]
        PROVE  /\ s.manual = t.manual /\ s.enabled = t.enabled /\ s.bench = t.bench
               /\ s.request = t.request /\ DOMAIN s = DOMAIN o
    BY <1>2, <2>1, <2>2
  <2>3. r = t \/ \E ph : r = [t EXCEPT !.retract = ph, !.since = 0]
    BY DEF RetractServiced
  <2> HIDE DEF r
  <2>4. CASE r = t
    BY <1>2, <2>4
  <2>5. CASE \E ph : r = [t EXCEPT !.retract = ph, !.since = 0]
    BY <2>2, <2>5
  <2> QED
    BY <2>3, <2>4, <2>5
<1>4. q = IF open THEN r ELSE [r EXCEPT !.bench = Off]
  BY DEF Serviced, BenchServiced, t
<1>5. {"manual", "bench", "request", "enabled"} \subseteq DOMAIN r
  BY <1>1, <1>3 DEF Operator
<1> HIDE DEF r, q
<1>6. /\ q.manual = o.manual /\ q.enabled = o.enabled
      /\ q.bench = IF open THEN o.bench ELSE Off
      /\ q.request \in {o.request, Off}
  BY <1>2, <1>3, <1>4, <1>5
<1> QED
  BY <1>6 DEF q

\* The recorder and the gate end movements, and start none.
LEMMA ServicedShows ==
  ASSUME NEW o, Ready(o), NEW open \in BOOLEAN, NEW rec \in BOOLEAN, NEW now \in BOOLEAN,
         now => rec /\ ~open /\ ~o.request.on, NEW a
  PROVE  \E ends, shut \in BOOLEAN :
           View(Serviced(o, open), now, a) = Remote!Settled(View(o, rec, a), ends, shut)
<1> DEFINE q == Serviced(o, open)
           ends == ~now
           shut == ~(q.bench = o.bench /\ q.request = o.request)
           s == View(o, now, a)
<1>1. /\ q.manual = o.manual /\ q.enabled = o.enabled
      /\ q.bench = IF open THEN o.bench ELSE Off
      /\ q.request \in {o.request, Off}
  BY ServicedFields
<1>2. Exclusive(o) /\ ~Off.on
  BY OffIsMovement DEF Ready, Sound
<1> HIDE DEF q
<1>3. View(o, rec, a).recording = rec
  BY ViewShows
<1>4. (rec /\ ~ends) = now
  OBVIOUS
<1>5. Remote!Recorded(View(o, rec, a), View(o, rec, a).recording /\ ~ends) = s
  BY <1>3, <1>4, RecordingShows
<1>6. /\ s = Shown(now, o.enabled, Kind(o), AgeAt(o, a))
      /\ s.move = Kind(o) /\ s.recording = now
      /\ Remote!Resting(s) = Shown(now, o.enabled, "nothing", 0)
  BY ViewShows
<1> HIDE DEF s
<1>7. Remote!Settled(View(o, rec, a), ends, shut)
        = IF now \/ shut THEN Remote!Stopped(s, {"BENCH_SERVO", "START_TILT"}) ELSE s
  BY <1>5, <1>6 DEF Remote!Settled
<1>8. View(q, now, a)
        = IF now \/ shut THEN Remote!Stopped(s, {"BENCH_SERVO", "START_TILT"}) ELSE s
  <2>1. CASE o.manual.on
    BY <1>1, <1>6, <2>1 DEF View, Kind, AgeAt, Remote!Stopped
  <2>2. CASE ~o.manual.on /\ o.bench.on
    <3>1. ~o.request.on /\ ~q.request.on
      BY <1>1, <1>2, <2>2 DEF Exclusive
    <3>2. CASE open
      <4>1. ~now /\ q.bench = o.bench
        BY <1>1, <3>2
      <4>2. CASE shut
        <5>1. q.request # o.request /\ q.request = Off
          BY <1>1, <4>1, <4>2
        <5>2. o.request \in Movement
          BY DEF Ready, Sound, Operator
        <5> QED
          BY <3>1, <5>1, <5>2, OffIsMovement DEF Movement
      <4>3. CASE ~shut
        BY <1>1, <1>6, <2>2, <4>1, <4>3 DEF View, Kind, AgeAt
      <4> QED
        BY <4>2, <4>3
    <3>3. CASE ~open
      <4>1. shut
        BY <1>1, <1>2, <2>2, <3>3
      <4>2. View(q, now, a) = Shown(now, o.enabled, "nothing", 0)
        BY <1>1, <1>2, <2>2, <3>1, <3>3 DEF View, Kind, AgeAt
      <4>3. s.move = "BENCH_SERVO"
        BY <1>6, <2>2 DEF Kind
      <4> QED
        BY <1>6, <4>1, <4>2, <4>3 DEF Remote!Stopped
    <3> QED
      BY <3>2, <3>3
  <2>3. CASE ~o.manual.on /\ ~o.bench.on
    <3>1. ~q.manual.on /\ ~q.bench.on
      BY <1>1, <1>2, <2>3
    <3>2. CASE o.request.on
      <4>0. s.move = "START_TILT" /\ ~now
        BY <1>6, <2>3, <3>2 DEF Kind
      <4>1. CASE q.request = Off
        <5>1. View(q, now, a) = Shown(now, o.enabled, "nothing", 0)
          BY <1>1, <1>2, <3>1, <4>1 DEF View, Kind, AgeAt
        <5>2. shut
          BY <1>2, <3>2, <4>1
        <5> QED
          BY <1>6, <4>0, <5>1, <5>2 DEF Remote!Stopped
      <4>2. CASE q.request = o.request
        <5>1. View(q, now, a) = s
          BY <1>1, <1>6, <2>3, <3>1, <4>2 DEF View, Kind, AgeAt
        <5>2. CASE q.bench = o.bench
          BY <4>0, <4>2, <5>1, <5>2
        <5>3. CASE q.bench # o.bench
          <6>1. o.bench \in Movement /\ q.bench = Off
            BY <1>1, <5>3 DEF Ready, Sound, Operator
          <6> QED
            BY <2>3, <5>3, <6>1, OffIsMovement DEF Movement
        <5> QED
          BY <5>2, <5>3
      <4> QED
        BY <1>1, <4>1, <4>2
    <3>3. CASE ~o.request.on
      <4>1. ~q.request.on
        BY <1>1, <1>2, <3>3
      <4>2. View(q, now, a) = s /\ s.move = "nothing"
        BY <1>1, <1>6, <2>3, <3>1, <3>3, <4>1 DEF View, Kind, AgeAt
      <4> QED
        BY <4>2 DEF Remote!Stopped
    <3> QED
      BY <3>2, <3>3
  <2> QED
    BY <2>1, <2>2, <2>3
<1>9. ends \in BOOLEAN /\ shut \in BOOLEAN
  OBVIOUS
<1> HIDE DEF ends, shut
<1> QED
  BY <1>7, <1>8, <1>9 DEF q

Exposed ==
  [recording |-> stage # "idle", enabled |-> op.enabled,
   move |-> Underway.kind, age |-> Underway.age]

LEMMA ExposedIsSeen == Exposed = Seen /\ Exposed' = Seen'
<1>1. Underway.kind = Kind(op) /\ Underway.age = AgeAt(op, ahead)
  BY DEF Underway, Kind, AgeAt
<1>2. Underway'.kind = Kind(op') /\ Underway'.age = AgeAt(op', ahead')
  BY DEF Underway, Kind, AgeAt
<1> QED
  BY <1>1, <1>2 DEF Exposed, Seen, View, Shown

\* A command leaves o; no recording goes on beside a tilt test.
Inert == stage # "idle" => ~op.request.on

\* The command has taken effect as the abstract payload has it.
Effect(o, rec, dt, lead, type, accepts) ==
  /\ Ready(o)
  /\ View(o, rec, lead)
       = Remote!Obeyed(View(Polled(dt, lead), stage # "idle", lead), type, accepts)
  /\ rec \in BOOLEAN
  /\ stage' # "idle" => rec /\ ~o.request.on

\* The step is the step of the abstract payload for this command.
Heeds(dt, lead, type, accepts) ==
  \E ends, shut \in BOOLEAN : Remote!Iterate(dt + lead - ahead, type, accepts, ends, shut)

LEMMA EffectIsHeeded ==
  ASSUME Sound(op), ahead \in Int, NEW dt \in Ticks, NEW lead \in Leads, NEW type,
         type # "nothing" => op.enabled, NEW accepts \in BOOLEAN, NEW o, NEW rec,
         Effect(o, rec, dt, lead, type, accepts),
         NEW wants, NEW open, NEW began, Continue(o, wants, open, began), ahead' = lead
  PROVE  Heeds(dt, lead, type, accepts) /\ Inert'
<1> DEFINE gate == GateOpen(stage' # "idle", phase', launched')
           now == stage' # "idle"
           d == dt + lead - ahead
<1>1. op' = Serviced(o, gate)
  BY DEF Continue
<1>2. gate \in BOOLEAN /\ now \in BOOLEAN /\ (now => ~gate)
  BY DEF GateOpen
<1>3. Ready(o) /\ rec \in BOOLEAN /\ (now => rec /\ ~o.request.on)
  BY DEF Effect
<1> HIDE DEF gate, now
<1>4. PICK ends \in BOOLEAN, shut \in BOOLEAN :
        View(Serviced(o, gate), now, lead) = Remote!Settled(View(o, rec, lead), ends, shut)
  BY <1>2, <1>3, ServicedShows
<1>5. Seen' = Remote!Settled(View(o, rec, lead), ends, shut)
  BY <1>1, <1>4 DEF Seen, now
<1>6. View(o, rec, lead)
        = Remote!Obeyed(Remote!MovesExpired(Remote!Aged(Seen, d)), type, accepts)
  BY PolledShows DEF Effect, Seen
<1>7. Exposed' = Remote!Settled(Remote!Obeyed(Remote!MovesExpired(Remote!Aged(Exposed, d)),
                                              type, accepts), ends, shut)
  BY <1>5, <1>6, ExposedIsSeen
<1>8. type # Remote!Nothing => Exposed.enabled
  BY DEF Remote!Nothing, Exposed
<1>9. Remote!Iterate(d, type, accepts, ends, shut)
  BY <1>7, <1>8 DEF Remote!Iterate, Exposed
<1>10. Inert'
  <2>1. now => ~o.request.on
    BY <1>3
  <2>2. op'.request \in {o.request, Off}
    BY <1>1, <1>2, <1>3, ServicedFields
  <2> QED
    BY <2>1, <2>2, OffIsMovement DEF Inert, now
<1> QED
  BY <1>9, <1>10 DEF Heeds

\* No command but START_TILT_STABILIZER requests a tilt test.
LEMMA RequestsAreKept ==
  ASSUME NEW o, Sound(o), ~o.request.on, NEW lead \in Leads, NEW open \in BOOLEAN
  PROVE  /\ ~TestsStopped(o).request.on /\ ~Silenced(o).request.on
         /\ ~DirectStopped(o).request.on
         /\ ~TiltStopped(o).request.on /\ ~Unlocked(TiltStopped(o)).request.on
         /\ ~[o EXCEPT !.manual = Off].request.on /\ ~[o EXCEPT !.bench = Off].request.on
         /\ ~[Silenced(o) EXCEPT !.bench = Asked(lead)].request.on
         /\ ~[TestsStopped(o) EXCEPT !.manual = Asked(lead)].request.on
         /\ ~[Silenced(o) EXCEPT !.enabled = FALSE].request.on
         /\ ~RetractStarted(o, open, lead).request.on
<1>1. o \in Operator /\ ~Off.on
  BY OffIsMovement DEF Sound
<1> DEFINE t == TestsStopped(o)
           s == Silenced(o)
<1>2. /\ t.request = Off /\ s.request = Off /\ DirectStopped(o).request = o.request
      /\ DOMAIN t = DOMAIN o /\ DOMAIN s = DOMAIN o
  BY <1>1 DEF TestsStopped, Silenced, DirectStopped, TiltStopped, RetractStopped, Unlocked, Operator
<1>3. /\ TiltStopped(o).request = Off /\ Unlocked(TiltStopped(o)).request = Off
      /\ [o EXCEPT !.manual = Off].request = o.request
      /\ [o EXCEPT !.bench = Off].request = o.request
  BY <1>1 DEF TiltStopped, Unlocked, Operator
<1>4. ~RetractStarted(o, open, lead).request.on
  <2> DEFINE u == Unlocked(TiltStopped(DirectStopped(o)))
             ph == IF open THEN "EXTEND1" ELSE "INTERLOCKED"
             since == IF open THEN -lead ELSE 0
  <2>1. u.request = Off /\ DOMAIN u = DOMAIN o
    BY <1>1 DEF Unlocked, TiltStopped, DirectStopped, Operator
  <2>2. RetractStarted(o, open, lead) = [u EXCEPT !.retract = ph, !.since = since]
    BY DEF RetractStarted
  <2>3. "request" \in DOMAIN o
    BY <1>1 DEF Operator
  <2> HIDE DEF u, ph, since
  <2>4. RetractStarted(o, open, lead).request = Off
    BY <2>1, <2>2, <2>3
  <2> QED
    BY <1>1, <2>4
<1>5. "request" \in DOMAIN o
  BY <1>1 DEF Operator
<1> HIDE DEF t, s
<1>6. /\ [s EXCEPT !.bench = Asked(lead)].request = Off
      /\ [t EXCEPT !.manual = Asked(lead)].request = Off
  BY <1>2, <1>5
<1>7. \A no \in BOOLEAN : [s EXCEPT !.enabled = no].request = Off
  BY <1>2, <1>5
<1>8. ~[s EXCEPT !.enabled = FALSE].request.on
  BY <1>1, <1>7
<1> QED
  BY <1>1, <1>2, <1>3, <1>4, <1>6, <1>8 DEF t, s

\* What each command does to the abstract payload.
LEMMA CommandsMean ==
  ASSUME NEW p, NEW ok \in BOOLEAN
  PROVE  /\ Remote!Obeyed(p, "nothing", ok) = p
         /\ Remote!Obeyed(p, "NEUTRAL", ok) = Remote!Resting(p)
         /\ Remote!Obeyed(p, "STOP_TILT", ok) = Remote!Stopped(p, {"START_TILT"})
         /\ Remote!Obeyed(p, "ARM", ok)
              = Remote!Recorded(Remote!Stopped(p, {"START_TILT"}), p.recording \/ ok)
         /\ Remote!Obeyed(p, "ABORT", ok)
              = Remote!Recorded(Remote!Stopped(p, {"MANUAL_BRAKE", "BENCH_SERVO"}), FALSE)
         /\ Remote!Obeyed(p, "DISABLE", ok) = Remote!Disabled(Remote!Resting(p))
         /\ Remote!Obeyed(p, "TEST", ok) = IF ok THEN Remote!Resting(p) ELSE p
         /\ \A kind \in Remote!Kinds : Remote!Obeyed(p, kind, ok)
              = IF ok /\ ~p.recording THEN Remote!Moved(p, kind) ELSE Remote!Stopped(p, {kind})
<1>1. /\ Remote!Obeyed(p, "nothing", ok) = p
      /\ Remote!Obeyed(p, "NEUTRAL", ok) = Remote!Resting(p)
      /\ Remote!Obeyed(p, "STOP_TILT", ok) = Remote!Stopped(p, {"START_TILT"})
  BY DEF Remote!Obeyed, Remote!Kinds
<1>2. Remote!Obeyed(p, "ARM", ok)
        = Remote!Recorded(Remote!Stopped(p, {"START_TILT"}), p.recording \/ ok)
  BY DEF Remote!Obeyed, Remote!Kinds
<1>3. Remote!Obeyed(p, "ABORT", ok)
        = Remote!Recorded(Remote!Stopped(p, {"MANUAL_BRAKE", "BENCH_SERVO"}), FALSE)
  BY DEF Remote!Obeyed, Remote!Kinds
<1>4. Remote!Obeyed(p, "DISABLE", ok) = Remote!Disabled(Remote!Resting(p))
  BY DEF Remote!Obeyed, Remote!Kinds
<1>5. Remote!Obeyed(p, "TEST", ok) = IF ok THEN Remote!Resting(p) ELSE p
  BY DEF Remote!Obeyed, Remote!Kinds
<1>6. \A kind \in Remote!Kinds : Remote!Obeyed(p, kind, ok)
        = IF ok /\ ~p.recording THEN Remote!Moved(p, kind) ELSE Remote!Stopped(p, {kind})
  BY DEF Remote!Obeyed, Remote!Kinds
<1> QED
  BY <1>1, <1>2, <1>3, <1>4, <1>5, <1>6

LEMMA KindsAre == Remote!Kinds = {"MANUAL_BRAKE", "BENCH_SERVO", "START_TILT"}
  BY DEF Remote!Kinds

\* Each command of the code has its name in the abstract payload.
Instructs(dt, lead) ==
  /\ Quiet(dt, lead) => Heeds(dt, lead, "nothing", FALSE)
  /\ op.enabled =>
       /\ Neutral(dt, lead)      => Heeds(dt, lead, "NEUTRAL", FALSE)
       /\ BenchServo(dt, lead)   => Heeds(dt, lead, "BENCH_SERVO", Gate)
       /\ ManualBrake(dt, lead)  => \E ok \in BOOLEAN : Heeds(dt, lead, "MANUAL_BRAKE", ok)
       /\ StartTilt(dt, lead)    => \E ok \in BOOLEAN : Heeds(dt, lead, "START_TILT", ok)
       /\ StopTilt(dt, lead)     => Heeds(dt, lead, "STOP_TILT", FALSE)
       /\ StartRetract(dt, lead) => Heeds(dt, lead, "TEST", TRUE)
       /\ StopTests(dt, lead)    => \E ok \in BOOLEAN : Heeds(dt, lead, "TEST", ok)
       /\ ArmDropTest(dt, lead)  => Heeds(dt, lead, "ARM", TRUE)
       /\ ArmWithoutLog(dt, lead) => Heeds(dt, lead, "ARM", FALSE)
       /\ Abort(dt, lead)        => Heeds(dt, lead, "ABORT", FALSE)
       /\ Disable(dt, lead)      => Heeds(dt, lead, "DISABLE", FALSE)

LEMMA LoopInstructs ==
  ASSUME PayloadInv, Inert, ahead \in Int, NEW dt \in Ticks, NEW lead \in Leads, ahead' = lead
  PROVE  /\ Instructs(dt, lead)
         /\ \/ Quiet(dt, lead)
            \/ /\ op.enabled
               /\ \/ Neutral(dt, lead) \/ BenchServo(dt, lead) \/ ManualBrake(dt, lead)
                  \/ StartTilt(dt, lead) \/ StopTilt(dt, lead) \/ StartRetract(dt, lead)
                  \/ StopTests(dt, lead) \/ ArmDropTest(dt, lead) \/ ArmWithoutLog(dt, lead)
                  \/ Abort(dt, lead) \/ Disable(dt, lead)
            => Inert'
<1> DEFINE q == Polled(dt, lead)
           rec == stage # "idle"
           p == View(q, rec, lead)
<1>1. Sound(op) /\ (OnBench(op) => Gate) /\ AirIsLaunched
  BY DEF PayloadInv
<1>2. Ready(q) /\ Within(q, op) /\ Sound(q) /\ q \in Operator
  BY <1>1, PolledIsReady DEF Ready, Sound
<1>3. rec => ~q.request.on
  <2>1. rec => ~op.request.on
    BY DEF Inert
  <2>2. op.request \in Movement /\ dt \in Int /\ lead \in Int /\ TiltTimeout \in Int /\ op \in Operator
    BY <1>1, PayloadAssumption DEF Sound, Operator
  <2>3. q.request = IF Over(Grown(op.request, dt), TiltTimeout, lead) THEN Off
                    ELSE Grown(op.request, dt)
    BY <2>2 DEF Polled, Expired, Aged, Operator
  <2>4. q.request.on => op.request.on
    BY <2>2, <2>3, OneExpires
  <2> QED
    BY <2>1, <2>4
<1>4. p.recording = rec /\ rec \in BOOLEAN
  BY ViewShows
<1>5. \A x, y : Remote!Recorded(View(x, rec, lead), y) = View(x, y, lead)
  BY RecordingShows
<1>6. ASSUME NEW o, NEW rec1, NEW type, NEW ok \in BOOLEAN, type # "nothing" => op.enabled,
             Ready(o), View(o, rec1, lead) = Remote!Obeyed(p, type, ok), rec1 \in BOOLEAN,
             stage' # "idle" => rec1 /\ ~o.request.on,
             NEW wants, NEW open, NEW began, Continue(o, wants, open, began)
      PROVE  Heeds(dt, lead, type, ok) /\ Inert'
  <2>1. Effect(o, rec1, dt, lead, type, ok)
    BY <1>6 DEF Effect
  <2> HIDE DEF q, rec, p
  <2> QED
    BY <1>1, <1>6, <2>1, EffectIsHeeded
<1>7. ASSUME NEW o, NEW type, NEW ok \in BOOLEAN, type # "nothing" => op.enabled,
             Ready(o), View(o, rec, lead) = Remote!Obeyed(p, type, ok),
             rec => ~o.request.on, Ordinary(o)
      PROVE  Heeds(dt, lead, type, ok) /\ Inert'
  <2>1. Continue(o, guided, log, FALSE) /\ (stage' # "idle" => rec)
    BY <1>7 DEF Ordinary, RecorderStep, ReleaseTest, Observe, EndTest, stageVars
  <2> QED
    BY <1>4, <1>6, <1>7, <2>1
<1>8. Ready(TestsStopped(q)) /\ Ready(Silenced(q)) /\ Ready(DirectStopped(q)) /\ Gate \in BOOLEAN
  BY <1>2, TestsStoppedIsSound, SilencedIsSound, DirectStoppedIsReady DEF Ready, Fresh, Gate, GateOpen
<1> HIDE DEF q, rec, p
<1>9. ASSUME Quiet(dt, lead) PROVE Heeds(dt, lead, "nothing", FALSE) /\ Inert'
  <2>1. Ordinary(q)
    BY <1>9 DEF Quiet, q
  <2>2. View(q, rec, lead) = Remote!Obeyed(p, "nothing", FALSE)
    BY CommandsMean DEF p
  <2> QED
    BY <1>2, <1>3, <1>7, <2>1, <2>2
<1>10. ASSUME op.enabled, Neutral(dt, lead) PROVE Heeds(dt, lead, "NEUTRAL", FALSE) /\ Inert'
  <2>1. Ordinary(Silenced(q))
    BY <1>10 DEF Neutral, q
  <2>2. View(Silenced(q), rec, lead) = Remote!Obeyed(p, "NEUTRAL", FALSE)
    <3>1. Remote!Obeyed(p, "NEUTRAL", FALSE) = Remote!Resting(p)
      BY CommandsMean
    <3>2. View(Silenced(q), rec, lead) = Remote!Resting(p)
      BY <1>2, StopsShow DEF p
    <3> QED
      BY <3>1, <3>2
  <2>3. rec => ~Silenced(q).request.on
    BY <1>2, <1>3, RequestsAreKept
  <2> QED
    BY <1>7, <1>8, <1>10, <2>1, <2>2, <2>3
<1>11. ASSUME op.enabled, BenchServo(dt, lead) PROVE Heeds(dt, lead, "BENCH_SERVO", Gate) /\ Inert'
  <2> DEFINE safe == Gate
  <2>1. Ordinary(IF safe THEN [Silenced(q) EXCEPT !.bench = Asked(lead)]
                 ELSE [q EXCEPT !.bench = Off])
    BY <1>11 DEF BenchServo, q
  <2>2. Remote!Obeyed(p, "BENCH_SERVO", safe)
          = IF safe /\ ~rec THEN Remote!Moved(p, "BENCH_SERVO")
            ELSE Remote!Stopped(p, {"BENCH_SERVO"})
    BY <1>4, <1>8, CommandsMean, KindsAre
  <2>3. safe \in BOOLEAN /\ (safe => ~rec)
    BY DEF Gate, GateOpen, rec
  <2> HIDE DEF safe
  <2>4. CASE safe
    <3> DEFINE b == [Silenced(q) EXCEPT !.bench = Asked(lead)]
    <3>1. Ready(b) /\ Ordinary(b)
      BY <1>2, <2>1, <2>4, BenchIsReady
    <3>2. View(b, rec, lead) = Remote!Obeyed(p, "BENCH_SERVO", safe)
      BY <1>2, <2>2, <2>3, <2>4, GrantShows DEF p
    <3> HIDE DEF b
    <3>3. Heeds(dt, lead, "BENCH_SERVO", safe) /\ Inert'
      BY <1>7, <1>11, <2>3, <2>4, <3>1, <3>2
    <3> QED
      BY <3>3 DEF safe
  <2>5. CASE ~safe
    <3> DEFINE b == [q EXCEPT !.bench = Off]
    <3>1. Ready(b) /\ Ordinary(b)
      BY <1>2, <2>1, <2>5, BenchRefusedIsReady
    <3>2. View(b, rec, lead) = Remote!Obeyed(p, "BENCH_SERVO", safe)
      BY <1>2, <2>2, <2>5, RefusalShows DEF p
    <3>3. rec => ~b.request.on
      BY <1>2, <1>3, RequestsAreKept
    <3> HIDE DEF b
    <3>4. Heeds(dt, lead, "BENCH_SERVO", safe) /\ Inert'
      BY <1>7, <1>11, <2>3, <3>1, <3>2, <3>3
    <3> QED
      BY <3>4 DEF safe
  <2> QED
    BY <2>4, <2>5
<1>12. ASSUME op.enabled, ManualBrake(dt, lead)
       PROVE  (\E ok \in BOOLEAN : Heeds(dt, lead, "MANUAL_BRAKE", ok)) /\ Inert'
  <2>1. PICK safe \in BOOLEAN :
          /\ safe => phase = "gliding" /\ stage = "idle"
          /\ Ordinary(IF safe THEN [TestsStopped(q) EXCEPT !.manual = Asked(lead)]
                      ELSE [q EXCEPT !.manual = Off])
    BY <1>12 DEF ManualBrake, q
  <2>2. Remote!Obeyed(p, "MANUAL_BRAKE", safe)
          = IF safe /\ ~rec THEN Remote!Moved(p, "MANUAL_BRAKE")
            ELSE Remote!Stopped(p, {"MANUAL_BRAKE"})
    BY <1>4, CommandsMean, KindsAre
  <2>3. CASE safe
    <3> DEFINE m == [TestsStopped(q) EXCEPT !.manual = Asked(lead)]
    <3>1. ~OnBench(q) /\ ~rec
      BY <1>1, <1>2, <2>1, <2>3 DEF AirIsLaunched, Gate, GateOpen, Within, rec
    <3>2. Ready(m) /\ Ordinary(m)
      BY <1>2, <2>1, <2>3, <3>1, ManualIsReady
    <3>3. View(m, rec, lead) = Remote!Obeyed(p, "MANUAL_BRAKE", safe)
      BY <1>2, <2>2, <2>3, <3>1, GrantShows DEF p
    <3> HIDE DEF m
    <3>4. Heeds(dt, lead, "MANUAL_BRAKE", safe) /\ Inert'
      BY <1>7, <1>12, <3>1, <3>2, <3>3
    <3> QED
      BY <3>4
  <2>4. CASE ~safe
    <3> DEFINE m == [q EXCEPT !.manual = Off]
    <3>1. Ready(m) /\ Ordinary(m)
      BY <1>2, <2>1, <2>4, ManualRefusedIsReady
    <3>2. View(m, rec, lead) = Remote!Obeyed(p, "MANUAL_BRAKE", safe)
      BY <1>2, <2>2, <2>4, RefusalShows DEF p
    <3>3. rec => ~m.request.on
      BY <1>2, <1>3, RequestsAreKept
    <3> HIDE DEF m
    <3>4. Heeds(dt, lead, "MANUAL_BRAKE", safe) /\ Inert'
      BY <1>7, <1>12, <3>1, <3>2, <3>3
    <3> QED
      BY <3>4
  <2> QED
    BY <2>3, <2>4
<1>13. ASSUME op.enabled, StartTilt(dt, lead)
       PROVE  (\E ok \in BOOLEAN : Heeds(dt, lead, "START_TILT", ok)) /\ Inert'
  <2>1. PICK safe \in BOOLEAN :
          /\ safe => Gate
          /\ Ordinary(IF safe THEN TiltStarted(q, lead) ELSE TiltStopped(q))
    BY <1>8, <1>13 DEF StartTilt, q
  <2>2. Remote!Obeyed(p, "START_TILT", safe)
          = IF safe /\ ~rec THEN Remote!Moved(p, "START_TILT")
            ELSE Remote!Stopped(p, {"START_TILT"})
    BY <1>4, CommandsMean, KindsAre
  <2>3. CASE safe
    <3> DEFINE t == TiltStarted(q, lead)
    <3>1. ~rec
      BY <2>1, <2>3 DEF Gate, GateOpen, rec
    <3>2. Ready(t) /\ Ordinary(t)
      BY <1>2, <2>1, <2>3, TiltIsReady
    <3>3. View(t, rec, lead) = Remote!Obeyed(p, "START_TILT", safe)
      BY <1>2, <2>2, <2>3, <3>1, GrantShows DEF p
    <3> HIDE DEF t
    <3>4. Heeds(dt, lead, "START_TILT", safe) /\ Inert'
      BY <1>7, <1>13, <3>1, <3>2, <3>3
    <3> QED
      BY <3>4
  <2>4. CASE ~safe
    <3>1. Ready(TiltStopped(q)) /\ Ordinary(TiltStopped(q))
      BY <1>2, <2>1, <2>4, TiltStoppedIsReady
    <3>2. View(TiltStopped(q), rec, lead) = Remote!Obeyed(p, "START_TILT", safe)
      BY <1>2, <2>2, <2>4, StopsShow DEF p
    <3>3. rec => ~TiltStopped(q).request.on
      BY <1>2, <1>3, RequestsAreKept
    <3>4. Heeds(dt, lead, "START_TILT", safe) /\ Inert'
      BY <1>7, <1>13, <3>1, <3>2, <3>3
    <3> QED
      BY <3>4
  <2> QED
    BY <2>3, <2>4
<1>14. ASSUME op.enabled, StopTilt(dt, lead) PROVE Heeds(dt, lead, "STOP_TILT", FALSE) /\ Inert'
  <2> DEFINE t == TiltStopped(q)
             u == Unlocked(t)
  <2>1. Ordinary(u) /\ Ready(u) /\ Sound(t)
    BY <1>2, <1>14, TiltStoppedIsReady DEF StopTilt, q, Ready
  <2>2. View(u, rec, lead) = Remote!Obeyed(p, "STOP_TILT", FALSE)
    <3>1. Remote!Obeyed(p, "STOP_TILT", FALSE) = Remote!Stopped(p, {"START_TILT"})
      BY CommandsMean
    <3>2. View(u, rec, lead) = Remote!Stopped(p, {"START_TILT"})
      BY <1>2, <2>1, StopsShow, UnlockedShows DEF p
    <3> QED
      BY <3>1, <3>2
  <2>3. rec => ~u.request.on
    BY <1>2, <1>3, RequestsAreKept
  <2> HIDE DEF t, u
  <2> QED
    BY <1>7, <1>14, <2>1, <2>2, <2>3
<1>15. ASSUME op.enabled, StartRetract(dt, lead) PROVE Heeds(dt, lead, "TEST", TRUE) /\ Inert'
  <2> DEFINE r == RetractStarted(q, Gate, lead)
  <2>1. Ordinary(r) /\ Ready(r)
    BY <1>2, <1>8, <1>15, RetractIsReady DEF StartRetract, q
  <2>2. View(r, rec, lead) = Remote!Obeyed(p, "TEST", TRUE)
    <3>1. Remote!Obeyed(p, "TEST", TRUE) = Remote!Resting(p)
      BY CommandsMean
    <3>2. View(r, rec, lead) = Remote!Resting(p)
      BY <1>2, <1>8, RetractShows DEF p
    <3> QED
      BY <3>1, <3>2
  <2>3. rec => ~r.request.on
    BY <1>2, <1>3, <1>8, RequestsAreKept
  <2> HIDE DEF r
  <2> QED
    BY <1>7, <1>15, <2>1, <2>2, <2>3
<1>16. ASSUME op.enabled, StopTests(dt, lead)
       PROVE  (\E ok \in BOOLEAN : Heeds(dt, lead, "TEST", ok)) /\ Inert'
  <2>1. Ordinary(TestsStopped(q))
    BY <1>16 DEF StopTests, q
  <2> DEFINE ok == p.move = "START_TILT"
  <2>2. View(TestsStopped(q), rec, lead) = Remote!Stopped(p, {"START_TILT"})
    BY <1>2, StopsShow DEF p
  <2>3. Remote!Obeyed(p, "TEST", ok) = IF ok THEN Remote!Resting(p) ELSE p
    BY CommandsMean
  <2>4. View(TestsStopped(q), rec, lead) = Remote!Obeyed(p, "TEST", ok)
    BY <2>2, <2>3 DEF Remote!Stopped
  <2>5. rec => ~TestsStopped(q).request.on
    BY <1>2, <1>3, RequestsAreKept
  <2>6. ok \in BOOLEAN
    OBVIOUS
  <2> HIDE DEF ok
  <2> QED
    BY <1>7, <1>8, <1>16, <2>1, <2>4, <2>5, <2>6
<1>17. ASSUME op.enabled, ArmDropTest(dt, lead) PROVE Heeds(dt, lead, "ARM", TRUE) /\ Inert'
  <2>1. PICK wants \in BOOLEAN : Continue(TestsStopped(q), wants, TRUE, TRUE)
    BY <1>17 DEF ArmDropTest, q
  <2>2. View(TestsStopped(q), rec, lead) = Remote!Stopped(p, {"START_TILT"})
    BY <1>2, StopsShow DEF p
  <2>3. Remote!Obeyed(p, "ARM", TRUE)
          = Remote!Recorded(Remote!Stopped(p, {"START_TILT"}), p.recording \/ TRUE)
    BY CommandsMean
  <2>4. View(TestsStopped(q), TRUE, lead) = Remote!Obeyed(p, "ARM", TRUE)
    BY <1>5, <2>2, <2>3
  <2>5. ~TestsStopped(q).request.on
    BY <1>2, TestsStoppedIsSound
  <2> QED
    BY <1>6, <1>8, <1>17, <2>1, <2>4, <2>5
<1>18. ASSUME op.enabled, ArmWithoutLog(dt, lead) PROVE Heeds(dt, lead, "ARM", FALSE) /\ Inert'
  <2>1. Continue(TestsStopped(q), FALSE, FALSE, FALSE) /\ stage' = stage
    BY <1>18 DEF ArmWithoutLog, q, stageVars
  <2>2. View(TestsStopped(q), rec, lead) = Remote!Stopped(p, {"START_TILT"})
    BY <1>2, StopsShow DEF p
  <2>3. Remote!Obeyed(p, "ARM", FALSE)
          = Remote!Recorded(Remote!Stopped(p, {"START_TILT"}), p.recording \/ FALSE)
    BY CommandsMean
  <2>4. View(TestsStopped(q), rec, lead) = Remote!Obeyed(p, "ARM", FALSE)
    BY <1>4, <1>5, <2>2, <2>3
  <2>5. ~TestsStopped(q).request.on /\ (stage' # "idle" => rec)
    BY <1>2, <2>1, TestsStoppedIsSound DEF rec
  <2> QED
    BY <1>4, <1>6, <1>8, <1>18, <2>1, <2>4, <2>5
<1>19. ASSUME op.enabled, Abort(dt, lead) PROVE Heeds(dt, lead, "ABORT", FALSE) /\ Inert'
  <2>1. Continue(DirectStopped(q), FALSE, log, FALSE) /\ stage' = "idle"
    BY <1>19 DEF Abort, q, stageVars, EndTest
  <2>2. View(DirectStopped(q), rec, lead) = Remote!Stopped(p, {"MANUAL_BRAKE", "BENCH_SERVO"})
    BY <1>2, StopsShow DEF p
  <2>3. Remote!Obeyed(p, "ABORT", FALSE)
          = Remote!Recorded(Remote!Stopped(p, {"MANUAL_BRAKE", "BENCH_SERVO"}), FALSE)
    BY CommandsMean
  <2>4. View(DirectStopped(q), FALSE, lead) = Remote!Obeyed(p, "ABORT", FALSE)
    BY <1>5, <2>2, <2>3
  <2> QED
    BY <1>6, <1>8, <1>19, <2>1, <2>4
<1>20. ASSUME op.enabled, Disable(dt, lead) PROVE Heeds(dt, lead, "DISABLE", FALSE) /\ Inert'
  <2> DEFINE d == [Silenced(q) EXCEPT !.enabled = FALSE]
  <2>1. Ordinary(d) /\ Ready(d)
    BY <1>2, <1>20, DisabledIsReady DEF Disable, q
  <2>2. View(d, rec, lead) = Remote!Obeyed(p, "DISABLE", FALSE)
    <3>1. Remote!Obeyed(p, "DISABLE", FALSE) = Remote!Disabled(Remote!Resting(p))
      BY CommandsMean
    <3>2. View(d, rec, lead) = Remote!Disabled(Remote!Resting(p))
      BY <1>2, DisabledShows DEF p
    <3> QED
      BY <3>1, <3>2
  <2>3. rec => ~d.request.on
    BY <1>2, <1>3, RequestsAreKept
  <2> HIDE DEF d
  <2> QED
    BY <1>7, <1>20, <2>1, <2>2, <2>3
<1>21. Instructs(dt, lead)
  BY <1>9, <1>10, <1>11, <1>12, <1>13, <1>14, <1>15, <1>16, <1>17, <1>18, <1>19, <1>20 DEF Instructs
<1> QED
  BY <1>9, <1>10, <1>11, <1>12, <1>13, <1>14, <1>15, <1>16, <1>17, <1>18, <1>19, <1>20, <1>21

\* Time passes between two polls, because a command is handled before the next
\* iteration begins: the abstract payload is composed with natural delays.
LEMMA DelaysAreNatural ==
  \A t \in Ticks, l \in Leads, k \in Leads \cup {0} : t + l - k \in Nat
  BY PayloadAssumption, LeadsAreShort

Heard == PayloadInv /\ Inert /\ ahead \in Leads \cup {0}

LEMMA BootIsRestart ==
  /\ PayloadInit => Heard /\ Remote!MovesInit
  /\ Reboot => Heard' /\ Remote!Restart
<1> DEFINE p == Shown(FALSE, TRUE, "nothing", 0)
<1>1. Remote!AtRest = p
  BY DEF Remote!AtRest, Remote!Nothing, Shown
<1>2. /\ ~NoOperator.manual.on /\ ~NoOperator.bench.on /\ ~NoOperator.request.on
      /\ NoOperator.enabled = TRUE
  BY OffIsMovement DEF NoOperator
<1>3. \A a : View(NoOperator, FALSE, a) = p
  BY <1>2 DEF View, Kind, AgeAt
<1>4. ASSUME PayloadInit
      PROVE  Heard /\ Remote!MovesInit
  <2>1. op = NoOperator /\ stage = "idle" /\ ahead = 0
    BY <1>4 DEF PayloadInit, StagesInit
  <2>2. Seen = p
    BY <1>3, <2>1 DEF Seen
  <2>3. Exposed = Remote!AtRest
    BY <1>1, <2>2, ExposedIsSeen
  <2> QED
    BY <1>4, <2>1, <2>3, PayloadInitEstablishes DEF Heard, Inert, Remote!MovesInit, Exposed
<1>5. ASSUME Reboot
      PROVE  Heard' /\ Remote!Restart
  <2>1. op' = NoOperator /\ stage' = "idle" /\ ahead' = 0
    BY <1>5 DEF Reboot
  <2>2. Seen' = p
    BY <1>3, <2>1 DEF Seen
  <2>3. Exposed' = Remote!AtRest
    BY <1>1, <2>2, ExposedIsSeen
  <2> QED
    BY <1>5, <2>1, <2>3, RebootKeeps DEF Heard, Inert, Remote!Restart, Exposed
<1> QED
  BY <1>4, <1>5

LEMMA HeardIsKept ==
  Heard /\ [PayloadNext]_payloadVars => Heard'
<1> SUFFICES ASSUME Heard, [PayloadNext]_payloadVars
             PROVE  Heard'
  OBVIOUS
<1>1. CASE Loop
  <2>1. PICK dt \in Ticks, lead \in Leads :
          /\ \/ Quiet(dt, lead)
             \/ /\ op.enabled
                /\ \/ Neutral(dt, lead) \/ BenchServo(dt, lead) \/ ManualBrake(dt, lead)
                   \/ StartTilt(dt, lead) \/ StopTilt(dt, lead) \/ StartRetract(dt, lead)
                   \/ StopTests(dt, lead) \/ ArmDropTest(dt, lead) \/ ArmWithoutLog(dt, lead)
                   \/ Abort(dt, lead) \/ Disable(dt, lead)
          /\ ahead' = lead
    BY <1>1 DEF Loop
  <2>2. ahead \in Int
    BY PayloadAssumption DEF Heard
  <2>3. Inert'
    BY <2>1, <2>2, LoopInstructs DEF Heard
  <2>4. PayloadInv'
    BY <1>1, PayloadNextKeeps DEF PayloadNext, Heard
  <2> QED
    BY <2>1, <2>3, <2>4 DEF Heard
<1>2. CASE Reboot
  BY <1>2, BootIsRestart
<1>3. CASE UNCHANGED payloadVars
  <2>1. PayloadInv'
    BY <1>3, PayloadStutterKeeps DEF Heard
  <2> QED
    BY <1>3, <2>1 DEF Heard, Inert, payloadVars, stageVars
<1> QED
  BY <1>1, <1>2, <1>3 DEF PayloadNext

\* Every step is one of the abstract payload.
LEMMA LoopIterates ==
  ASSUME Heard, Loop
  PROVE  \E d \in {t + l - k : t \in Ticks, l \in Leads, k \in Leads \cup {0}},
            type \in Remote!Command \cup {Remote!Nothing}, accepts, ends, shut \in BOOLEAN :
           Remote!Iterate(d, type, accepts, ends, shut)
<1>1. PICK dt \in Ticks, lead \in Leads :
        /\ \/ Quiet(dt, lead)
           \/ /\ op.enabled
              /\ \/ Neutral(dt, lead) \/ BenchServo(dt, lead) \/ ManualBrake(dt, lead)
                 \/ StartTilt(dt, lead) \/ StopTilt(dt, lead) \/ StartRetract(dt, lead)
                 \/ StopTests(dt, lead) \/ ArmDropTest(dt, lead) \/ ArmWithoutLog(dt, lead)
                 \/ Abort(dt, lead) \/ Disable(dt, lead)
        /\ ahead' = lead
  BY DEF Loop
<1>2. ahead \in Int /\ ahead \in Leads \cup {0}
  BY PayloadAssumption DEF Heard
<1>3. Instructs(dt, lead)
  BY <1>1, <1>2, LoopInstructs DEF Heard
<1>4. Gate \in BOOLEAN
  BY DEF Gate, GateOpen
<1>5. PICK type \in Remote!Command \cup {Remote!Nothing}, accepts \in BOOLEAN :
        Heeds(dt, lead, type, accepts)
  BY <1>1, <1>3, <1>4 DEF Instructs, Remote!Command, Remote!Kinds, Remote!Nothing
<1>6. dt + lead - ahead \in {t + l - k : t \in Ticks, l \in Leads, k \in Leads \cup {0}}
  <2>1. \E t \in Ticks, l \in Leads, k \in Leads \cup {0} : dt + lead - ahead = t + l - k
    BY <1>2
  <2> QED
    BY <2>1
<1> QED
  BY <1>5, <1>6 DEF Heeds

\* To whoever is at the other end of the radio link the payload is RemoteMoves:
\* one movement at a time, begun and refreshed by its command alone, and over
\* after its timeout, whatever gates, flight, tests and recorder do.
THEOREM ImplementsRemote == PayloadSpec => ImplementsRemoteMoves
<1>1. PayloadInit => Heard /\ Remote!MovesInit
  BY BootIsRestart
<1>2. Heard /\ [PayloadNext]_payloadVars => Heard'
  BY HeardIsKept
<1>3. ASSUME Heard, [PayloadNext]_payloadVars
      PROVE  [Remote!MovesNext]_Exposed
  <2>1. CASE Loop
    BY <1>3, <2>1, LoopIterates DEF Remote!MovesNext
  <2>2. CASE Reboot
    BY <2>2, BootIsRestart DEF Remote!MovesNext
  <2>3. CASE UNCHANGED payloadVars
    BY <2>3, ExposedIsSeen DEF Seen, payloadVars, stageVars
  <2> QED
    BY <1>3, <2>1, <2>2, <2>3 DEF PayloadNext
<1> QED
  BY <1>1, <1>2, <1>3, PTL DEF PayloadSpec, ImplementsRemoteMoves, Remote!MovesSpec, Exposed

\* What each command does to it: an accepted MANUAL_BRAKE, BENCH_SERVO or
\* START_TILT_STABILIZER takes the place of every other movement; an abort leaves a
\* tilt test and ends the rest; arming a drop test ends the tilt test even when it is
\* refused, and leaves a manual brake to its timeout.
THEOREM CommandsAreHeeded ==
  PayloadSpec => [][\A dt \in Ticks, lead \in Leads : ahead' = lead => Instructs(dt, lead)]_payloadVars
<1>1. PayloadInit => Heard
  BY BootIsRestart
<1>2. Heard /\ [PayloadNext]_payloadVars => Heard'
  BY HeardIsKept
<1>3. Heard => \A dt \in Ticks, lead \in Leads : ahead' = lead => Instructs(dt, lead)
  BY LoopInstructs, PayloadAssumption DEF Heard
<1> QED
  BY <1>1, <1>2, <1>3, PTL DEF PayloadSpec

=============================================================================
