----------------------------- MODULE LinkProofs -----------------------------
(***************************************************************************)
(* Theorems about the ground station's hold on the payload, for every        *)
(* interval, hold, wait and number of orders.                               *)
(*                                                                          *)
(* A movement that was checked before a wait may go out after the recording  *)
(* it should have stopped for.  That it stays at one follows from the queue  *)
(* of a handler: a movement is its last message, and none is queued once a   *)
(* recording was seen.                                                      *)
(*                                                                          *)
(* MovementsHaveAnOperator follows an order on its way: in the queue behind    *)
(* its STOP, in the wait, in the hold, in the radio and on the payload, each   *)
(* with the age it may have there (Watching).                                *)
(***************************************************************************)
EXTENDS Link, SequenceTheorems, TLAPS

Item == [type : Command, starts : BOOLEAN]
ManualHold == [on : BOOLEAN, bench : BOOLEAN, left : Nat, rep : Nat]
TiltHold   == [on : BOOLEAN, left : Nat, rep : Nat]

\* A movement is the last message of its handler.
Queue(q) == q \in Seq(Item) /\ \A i \in 1 .. Len(q) : q[i].type \in Kinds => i = Len(q)

\* No movement is queued.
Free(q) == \A i \in 1 .. Len(q) : q[i].type \notin Kinds

\* A movement that is to start a hold was ordered after the other hold had ended.
Starting(q, manual, roll) ==
  \A i \in 1 .. Len(q) : q[i].starts =>
    /\ q[i].type \in {"MANUAL_BRAKE", "BENCH_SERVO"} => ~roll.on
    /\ q[i].type = "START_TILT" => ~manual.on

Inv ==
  /\ LinkTypeOK
  /\ seen \in [fresh : BOOLEAN, recording : BOOLEAN]
  /\ hold \in ManualHold /\ tilt \in TiltHold
  /\ Queue(sends) /\ Starting(sends, hold, tilt)
  /\ strays \in {0, 1}
  /\ ~seen.recording => strays = 0
  /\ strays = 1 => Free(sends)

-----------------------------------------------------------------------------
(* The queue of a handler.                                                  *)

LEMMA ConstantFacts ==
  /\ SlotWait \in Nat \ {0} /\ Repeat \in Nat \ {0} /\ Late \in Nat \ {0}
  /\ IdleInterval \in Nat \ {0} /\ AgeCap \in Nat
  /\ Hold \in [Kinds -> Nat \ {0}] /\ Timeout \in [Kinds -> Nat \ {0}]
  /\ SlotWait < AgeCap
<1>1. "MANUAL_BRAKE" \in Kinds
  BY DEF Kinds, Remote!Kinds
<1>2. 2 * SlotWait + Hold["MANUAL_BRAKE"] + 2 * Late + Timeout["MANUAL_BRAKE"] < AgeCap
  BY <1>1, LinkAssumption
<1>3. Hold["MANUAL_BRAKE"] \in Nat /\ Timeout["MANUAL_BRAKE"] \in Nat
  BY <1>1, LinkAssumption
<1> QED
  BY <1>2, <1>3, LinkAssumption, AgeCapIsNat

LEMMA EmptyQueue == Queue(<<>>) /\ Free(<<>>) /\ \A h, t : Starting(<<>>, h, t)
  BY DEF Queue, Free, Starting

\* What remains when the head is sent.
LEMMA TailOfQueue ==
  ASSUME NEW q, Queue(q), q # <<>>
  PROVE  /\ Queue(Tail(q)) /\ Head(q) \in Item
         /\ Head(q).type \in Kinds => Tail(q) = <<>>
         /\ Free(q) => Free(Tail(q)) /\ Head(q).type \notin Kinds
         /\ \A h, t : Starting(q, h, t) => Starting(Tail(q), h, t)
<1> DEFINE r == Tail(q)
           n == Len(q)
<1>1. /\ q \in Seq(Item) /\ n \in Nat /\ n >= 1
      /\ r \in Seq(Item) /\ Len(r) = n - 1
      /\ Head(q) = q[1] /\ Head(q) \in Item
  BY DEF Queue
<1>2. \A i \in 1 .. Len(r) : r[i] = q[i + 1]
  BY <1>1
<1>3. \A i \in 1 .. n : q[i].type \in Kinds => i = n
  BY DEF Queue
<1> HIDE DEF r
<1>4. ASSUME NEW i \in 1 .. Len(r)
      PROVE  r[i] = q[i + 1] /\ i + 1 \in 1 .. Len(q) /\ (r[i].type \in Kinds => i = Len(r))
  <2> HIDE DEF n
  <2>1. i + 1 \in 1 .. n
    BY <1>1
  <2>2. q[i + 1].type \in Kinds => i + 1 = n
    BY <1>3, <2>1
  <2>3. r[i] = q[i + 1]
    BY <1>2
  <2>4. i + 1 = n => i = Len(r)
    BY <1>1
  <2> QED
    BY <2>1, <2>2, <2>3, <2>4 DEF n
<1>5. Queue(r)
  BY <1>1, <1>4 DEF Queue
<1>6. Head(q).type \in Kinds => r = <<>>
  <2> HIDE DEF n
  <2>1. 1 \in 1 .. n
    BY <1>1
  <2>2. Head(q).type \in Kinds => n = 1
    BY <1>1, <1>3, <2>1
  <2>3. n = 1 => Len(r) = 0
    BY <1>1
  <2> QED
    BY <1>1, <2>2, <2>3
<1>7. Free(q) => Free(r) /\ Head(q).type \notin Kinds
  BY <1>1, <1>4 DEF Free
<1>8. \A h, t : Starting(q, h, t) => Starting(r, h, t)
  BY <1>4 DEF Starting
<1> QED
  BY <1>1, <1>5, <1>6, <1>7, <1>8 DEF r

LEMMA ItemsAreTyped ==
  ASSUME NEW type \in Command
  PROVE  Order(type) \in Item /\ Message(type) \in Item
  BY DEF Order, Message, Item

LEMMA OneMessage ==
  ASSUME NEW m \in Item
  PROVE  /\ Queue(<<m>>) /\ (m.type \notin Kinds => Free(<<m>>))
         /\ \A i \in DOMAIN <<m>> : <<m>>[i] = m
         /\ ~m.starts => \A h, t : Starting(<<m>>, h, t)
         /\ \A h, t :
              /\ m.type \in {"MANUAL_BRAKE", "BENCH_SERVO"} /\ ~t.on => Starting(<<m>>, h, t)
              /\ m.type = "START_TILT" /\ ~h.on => Starting(<<m>>, h, t)
<1>1. Len(<<m>>) = 1 /\ <<m>>[1] = m /\ <<m>> \in Seq(Item)
  OBVIOUS
<1> QED
  BY <1>1 DEF Queue, Free, Starting

\* stopTiltHold before a message.
StoppedFirst(q, m) ==
  q \in Seq(Item) /\ Len(q) = 2 /\ q[1] = Message("STOP_TILT") /\ q[2] = m

LEMMA StopThen ==
  ASSUME NEW m \in Item
  PROVE  StopFirst \o <<m>> = <<m>> \/ StoppedFirst(StopFirst \o <<m>>, m)
<1> DEFINE stop == Message("STOP_TILT")
           q == StopFirst \o <<m>>
<1>1. stop \in Item
  BY DEF Message, Item, Command, Remote!Command
<1> HIDE DEF stop
<1>2. CASE tilt.on
  <2>1. q = <<stop>> \o <<m>>
    BY <1>2 DEF StopFirst, stop
  <2> HIDE DEF q
  <2> DEFINE a == <<stop>>  b == <<m>>
  <2>2. a \in Seq(Item) /\ Len(a) = 1 /\ a[1] = stop
    BY <1>1
  <2>3. b \in Seq(Item) /\ Len(b) = 1 /\ b[1] = m
    OBVIOUS
  <2>4. q = a \o b
    BY <2>1
  <2> HIDE DEF a, b
  <2>5. /\ a \o b \in Seq(Item) /\ Len(a \o b) = Len(a) + Len(b)
        /\ (a \o b)[1] = IF 1 <= Len(a) THEN a[1] ELSE b[1 - Len(a)]
        /\ (a \o b)[2] = IF 2 <= Len(a) THEN a[2] ELSE b[2 - Len(a)]
    BY <2>2, <2>3, ConcatProperties
  <2>6. q \in Seq(Item) /\ Len(q) = 2 /\ q[1] = stop /\ q[2] = m
    BY <2>2, <2>3, <2>4, <2>5
  <2> QED
    BY <2>6 DEF StoppedFirst, stop, q
<1>3. CASE ~tilt.on
  <2>1. <<m>> \in Seq(Item)
    OBVIOUS
  <2> QED
    BY <1>3, <2>1, ConcatEmptySeq DEF StopFirst
<1> QED
  BY <1>2, <1>3

LEMMA StopThenMessage ==
  ASSUME NEW m \in Item
  PROVE  LET q == StopFirst \o <<m>> IN
         /\ Queue(q) /\ (m.type \notin Kinds => Free(q))
         /\ ~m.starts => \A h, t : Starting(q, h, t)
         /\ \A h, t :
              m.type \in {"MANUAL_BRAKE", "BENCH_SERVO"} /\ ~t.on => Starting(q, h, t)
<1> DEFINE q == StopFirst \o <<m>>
<1>1. CASE StoppedFirst(q, m)
  <2> HIDE DEF q
  <2>1. /\ q \in Seq(Item) /\ Len(q) = 2 /\ q[2] = m
        /\ q[1].type \notin Kinds /\ ~q[1].starts
    BY <1>1 DEF StoppedFirst, Message, Kinds, Remote!Kinds
  <2>2. Queue(q) /\ (m.type \notin Kinds => Free(q))
    BY <2>1 DEF Queue, Free
  <2>3. ~m.starts => \A h, t : Starting(q, h, t)
    BY <2>1 DEF Starting
  <2>4. \A h, t : m.type \in {"MANUAL_BRAKE", "BENCH_SERVO"} /\ ~t.on => Starting(q, h, t)
    BY <2>1 DEF Starting
  <2> QED
    BY <2>2, <2>3, <2>4 DEF q
<1>2. CASE q = <<m>>
  BY <1>2, OneMessage
<1> QED
  BY <1>1, <1>2, StopThen

-----------------------------------------------------------------------------
(* The payload.                                                             *)

Payload ==
  [recording : BOOLEAN, enabled : BOOLEAN, move : Kinds \cup {Nothing}, age : Nat]

\* What q still has of a movement is p's, at the same age.
Keeps(q, p) ==
  /\ q \in Payload /\ (q.enabled => p.enabled)
  /\ q.move # Nothing => q.move = p.move /\ q.age = p.age

LEMMA MovedIsTyped ==
  ASSUME NEW p \in Payload, NEW kind \in Kinds \cup {Nothing}
  PROVE  LET q == Remote!Moved(p, kind) IN
         /\ q \in Payload /\ q.move = kind /\ q.age = 0 /\ q.enabled = p.enabled
<1> DEFINE r == [p EXCEPT !.move = kind]
           q == Remote!Moved(p, kind)
<1>1. r \in Payload /\ r.move = kind /\ r.enabled = p.enabled
  BY DEF Payload
<1>2. q = [r EXCEPT !.age = 0]
  BY DEF Remote!Moved
<1> HIDE DEF r, q
<1>3. q \in Payload /\ q.move = kind /\ q.age = 0 /\ q.enabled = p.enabled
  BY <1>1, <1>2 DEF Payload
<1> QED
  BY <1>3 DEF q

LEMMA StopsKeep ==
  ASSUME NEW p \in Payload, NEW kinds
  PROVE  Keeps(p, p) /\ Keeps(Remote!Resting(p), p) /\ Keeps(Remote!Stopped(p, kinds), p)
<1>1. Remote!Resting(p) \in Payload /\ Remote!Resting(p).move = Nothing
      /\ Remote!Resting(p).enabled = p.enabled
  BY MovedIsTyped DEF Remote!Resting, Nothing
<1> QED
  BY <1>1 DEF Keeps, Remote!Stopped

LEMMA FlagsKeep ==
  ASSUME NEW p \in Payload, NEW on \in BOOLEAN
  PROVE  Keeps(Remote!Recorded(p, on), p) /\ Keeps(Remote!Disabled(p), p)
<1>1. Keeps(Remote!Recorded(p, on), p)
  BY DEF Keeps, Payload, Remote!Recorded
<1>2. \A no \in BOOLEAN : LET q == [p EXCEPT !.enabled = no]
        IN q \in Payload /\ q.move = p.move /\ q.age = p.age /\ q.enabled = no
  BY DEF Payload
<1>3. LET q == Remote!Disabled(p)
      IN q \in Payload /\ q.move = p.move /\ q.age = p.age /\ q.enabled = FALSE
  BY <1>2 DEF Remote!Disabled
<1> QED
  BY <1>1, <1>3 DEF Keeps

LEMMA KeepsIsTransitive ==
  ASSUME NEW r, NEW q, NEW p, Keeps(r, q), Keeps(q, p)
  PROVE  Keeps(r, p)
BY DEF Keeps

\* A command moves, or starts nothing.
LEMMA ObeyedKeeps ==
  ASSUME NEW p \in Payload, NEW type \in Command \cup {Nothing}, NEW accepts \in BOOLEAN
  PROVE  LET q == Remote!Obeyed(p, type, accepts)
         IN  Keeps(q, p) \/ (type \in Kinds /\ q = Remote!Moved(p, type))
<1> DEFINE q == Remote!Obeyed(p, type, accepts)
<1>1. CASE type \in Kinds
  <2>1. q = IF accepts /\ ~p.recording THEN Remote!Moved(p, type)
            ELSE Remote!Stopped(p, {type})
    BY <1>1 DEF Remote!Obeyed, Kinds, Remote!Kinds
  <2> QED
    BY <1>1, <2>1, StopsKeep
<1>2. CASE type = "ARM"
  <2> DEFINE r == Remote!Stopped(p, {"START_TILT"})
             on == p.recording \/ accepts
  <2>1. q = Remote!Recorded(r, on)
    BY <1>2 DEF Remote!Obeyed, Remote!Kinds
  <2>2. Keeps(r, p) /\ r \in Payload /\ on \in BOOLEAN
    BY StopsKeep DEF Keeps, Payload
  <2> HIDE DEF r, on
  <2> QED
    BY <2>1, <2>2, FlagsKeep, KeepsIsTransitive
<1>3. CASE type = "ABORT"
  <2> DEFINE r == Remote!Stopped(p, {"MANUAL_BRAKE", "BENCH_SERVO"})
  <2>1. q = Remote!Recorded(r, FALSE)
    BY <1>3 DEF Remote!Obeyed, Remote!Kinds
  <2>2. Keeps(r, p) /\ r \in Payload
    BY StopsKeep DEF Keeps
  <2> HIDE DEF r
  <2>3. Keeps(Remote!Recorded(r, FALSE), r)
    BY <2>2, FlagsKeep
  <2> QED
    BY <2>1, <2>2, <2>3, KeepsIsTransitive
<1>4. CASE type = "DISABLE"
  <2> DEFINE r == Remote!Resting(p)
  <2>1. q = Remote!Disabled(r)
    BY <1>4 DEF Remote!Obeyed, Remote!Kinds
  <2>2. Keeps(r, p) /\ r \in Payload
    BY StopsKeep DEF Keeps
  <2> HIDE DEF r
  <2> QED
    BY <2>1, <2>2, FlagsKeep, KeepsIsTransitive
<1>5. CASE type \notin Kinds \cup {"ARM", "ABORT", "DISABLE"}
  <2>1. q \in {p, Remote!Resting(p), Remote!Stopped(p, {"START_TILT"})}
    BY <1>5 DEF Remote!Obeyed, Kinds
  <2> QED
    BY <2>1, StopsKeep
<1> QED
  BY <1>1, <1>2, <1>3, <1>4, <1>5

LEMMA SettledKeeps ==
  ASSUME NEW p \in Payload, NEW ends \in BOOLEAN, NEW shut \in BOOLEAN
  PROVE  Keeps(Remote!Settled(p, ends, shut), p)
<1> DEFINE on == p.recording /\ ~ends
           q == Remote!Recorded(p, on)
<1>1. Keeps(q, p) /\ q \in Payload
  BY FlagsKeep DEF Payload, Keeps
<1>2. Keeps(Remote!Stopped(q, {"BENCH_SERVO", "START_TILT"}), q)
  BY <1>1, StopsKeep
<1>3. Remote!Settled(p, ends, shut) \in {q, Remote!Stopped(q, {"BENCH_SERVO", "START_TILT"})}
  BY DEF Remote!Settled
<1> HIDE DEF q
<1> QED
  BY <1>1, <1>2, <1>3, KeepsIsTransitive

\* Of the movements before an iteration those that are younger than their timeout go
\* on, unless the command begins another.
LEMMA IterateMoves ==
  ASSUME payload \in Payload, NEW dt \in Nat, NEW type \in Command \cup {Nothing},
         NEW accepts \in BOOLEAN, NEW ends \in BOOLEAN, NEW shut \in BOOLEAN,
         Remote!Iterate(dt, type, accepts, ends, shut)
  PROVE  /\ payload' \in Payload /\ (payload'.enabled => payload.enabled)
         /\ payload'.move # Nothing =>
              \/ /\ payload'.move = payload.move /\ payload'.age = payload.age + dt
                 /\ payload'.age < Timeout[payload'.move]
              \/ type \in Kinds /\ payload'.move = type /\ payload'.age = 0
<1> DEFINE a == Remote!Aged(payload, dt)
           e == Remote!MovesExpired(a)
           q == Remote!Obeyed(e, type, accepts)
<1>1. /\ a \in Payload /\ a.enabled = payload.enabled /\ a.move = payload.move
      /\ a.move # Nothing => a.age = payload.age + dt
  <2>1. payload.age + dt \in Nat
    BY DEF Payload
  <2> DEFINE z == payload.age + dt
  <2>2. a = IF payload.move = Nothing THEN payload ELSE [payload EXCEPT !.age = z]
    BY DEF Remote!Aged, Nothing
  <2> HIDE DEF z
  <2>3. z \in Nat
    BY <2>1 DEF z
  <2>4. LET r == [payload EXCEPT !.age = z]
        IN r \in Payload /\ r.enabled = payload.enabled /\ r.move = payload.move /\ r.age = z
    BY <2>3 DEF Payload
  <2> HIDE DEF a
  <2> QED
    BY <2>2, <2>4 DEF z
<1> HIDE DEF a
<1>2. Keeps(e, a) /\ (e.move # Nothing => e.age < Timeout[e.move])
  <2>1. Keeps(a, a) /\ Keeps(Remote!Resting(a), a) /\ Remote!Resting(a).move = Nothing
    BY <1>1, StopsKeep, MovedIsTyped DEF Remote!Resting, Nothing
  <2>2. e = IF a.move # Nothing /\ a.age >= Timeout[a.move] THEN Remote!Resting(a) ELSE a
    BY DEF Remote!MovesExpired, Nothing
  <2>3. a.move # Nothing => a.age \in Nat /\ Timeout[a.move] \in Nat
    BY <1>1, ConstantFacts DEF Payload
  <2> HIDE DEF e
  <2>4. CASE a.move # Nothing /\ a.age >= Timeout[a.move]
    BY <2>1, <2>2, <2>4
  <2>5. CASE ~(a.move # Nothing /\ a.age >= Timeout[a.move])
    <3>1. e = a /\ (a.move # Nothing => a.age < Timeout[a.move])
      BY <2>2, <2>3, <2>5
    <3> QED
      BY <2>1, <3>1
  <2> QED
    BY <2>4, <2>5
<1> HIDE DEF e
<1>3. e \in Payload
  BY <1>2 DEF Keeps
<1>4. Keeps(q, e) \/ (type \in Kinds /\ q = Remote!Moved(e, type))
  BY <1>3, ObeyedKeeps
<1>5. type \in Kinds => /\ Remote!Moved(e, type) \in Payload /\ Remote!Moved(e, type).move = type
                        /\ Remote!Moved(e, type).age = 0 /\ Remote!Moved(e, type).enabled = e.enabled
  BY <1>3, MovedIsTyped
<1> HIDE DEF q
<1>6. q \in Payload
  BY <1>4, <1>5 DEF Keeps
<1>7. payload' = Remote!Settled(q, ends, shut)
  BY DEF Remote!Iterate, q, e, a
<1>8. Keeps(payload', q)
  BY <1>6, <1>7, SettledKeeps
<1>9. CASE Keeps(q, e)
  BY <1>1, <1>2, <1>8, <1>9 DEF Keeps
<1>10. CASE type \in Kinds /\ q = Remote!Moved(e, type)
  <2>1. q.move = type /\ q.age = 0 /\ q.enabled = e.enabled
    BY <1>5, <1>10
  <2> QED
    BY <1>1, <1>2, <1>8, <1>10, <2>1 DEF Keeps
<1> QED
  BY <1>4, <1>9, <1>10

LEMMA RestTyped ==
  Remote!AtRest \in Payload /\ Remote!AtRest.move = Nothing /\ Remote!AtRest.enabled = TRUE
  BY DEF Remote!AtRest, Payload, Nothing

-----------------------------------------------------------------------------
(* The steps.                                                               *)

LEMMA QueueIsTyped ==
  ASSUME NEW q, Queue(q)
  PROVE  \A i \in DOMAIN q : q[i].type \in Command
<1>1. q \in Seq(Item) /\ DOMAIN q = 1 .. Len(q)
  BY DEF Queue
<1>2. \A i \in 1 .. Len(q) : q[i] \in Item
  BY <1>1
<1> QED
  BY <1>1, <1>2 DEF Item

LEMMA InitHolds == LinkInit => Inv
<1> SUFFICES ASSUME LinkInit PROVE Inv
  OBVIOUS
<1>1. LinkTypeOK
  <2>1. payload \in Payload
    BY RestTyped DEF LinkInit, Remote!MovesInit
  <2>2. since \in 0 .. IdleInterval /\ late \in 0 .. Late
    BY ConstantFacts DEF LinkInit
  <2>3. /\ up \in Command \cup {Nothing} /\ down \in {Nothing, "idle", "recording"}
        /\ tested \in BOOLEAN /\ waited = Unset /\ ~(hold.on /\ tilt.on)
    BY DEF LinkInit
  <2>4. \A i \in DOMAIN sends : sends[i].type \in Command
    BY EmptyQueue, QueueIsTyped DEF LinkInit
  <2> QED
    BY <2>1, <2>2, <2>3, <2>4 DEF LinkTypeOK, Payload
<1> QED
  BY <1>1, EmptyQueue DEF LinkInit, Inv, ManualHold, TiltHold

\* What a poll of the payload finds, and leaves.
LEMMA PollMoves ==
  ASSUME Inv, PayloadPolls
  PROVE  /\ payload' \in Payload /\ (payload'.enabled => payload.enabled) /\ tested' \in BOOLEAN
         /\ payload'.move # Nothing =>
              \/ /\ payload'.move = payload.move /\ payload'.age = payload.age + late
                 /\ payload'.age < Timeout[payload'.move]
              \/ payload.enabled /\ up \in Kinds /\ payload'.move = up /\ payload'.age = 0
<1> DEFINE type == IF payload.enabled THEN up ELSE Nothing
<1>1. payload \in Payload /\ late \in Nat /\ up \in Command \cup {Nothing} /\ tested \in BOOLEAN
  BY ConstantFacts DEF Inv, LinkTypeOK, Payload
<1>2. type \in Command \cup {Nothing} /\ (type \in Kinds => payload.enabled /\ up = type)
  BY <1>1 DEF Kinds, Remote!Kinds, Nothing, Remote!Nothing
<1> HIDE DEF type
<1>3. PICK accepts \in BOOLEAN, ends \in BOOLEAN, shut \in BOOLEAN :
        /\ Remote!Iterate(late, type, accepts, ends, shut)
        /\ tested' = (tested \/ (type = "ARM" /\ accepts /\ ~payload.recording))
  BY DEF PayloadPolls, type
<1>4. /\ payload' \in Payload /\ (payload'.enabled => payload.enabled)
      /\ payload'.move # Nothing =>
           \/ /\ payload'.move = payload.move /\ payload'.age = payload.age + late
              /\ payload'.age < Timeout[payload'.move]
           \/ type \in Kinds /\ payload'.move = type /\ payload'.age = 0
  BY <1>1, <1>2, <1>3, IterateMoves
<1>5. tested' \in BOOLEAN
  BY <1>1, <1>3
<1> QED
  BY <1>2, <1>4, <1>5

\* Steps of the payload leave the ground station alone.
LEMMA PayloadSteps ==
  ASSUME Inv, PayloadPolls \/ PayloadRestarts \/ SendTelemetry
  PROVE  Inv'
<1>1. UNCHANGED groundVars
  BY DEF PayloadPolls, PayloadRestarts, SendTelemetry
<1>2. CASE PayloadPolls
  <2>1. payload' \in Payload /\ tested' \in BOOLEAN
    BY <1>2, PollMoves
  <2>2. up' \in Command \cup {Nothing} /\ late' \in 0 .. Late /\ UNCHANGED <<since, down>>
    BY <1>2, ConstantFacts DEF PayloadPolls, Inv, LinkTypeOK
  <2> QED
    BY <1>1, <2>1, <2>2 DEF Inv, LinkTypeOK, Payload, groundVars
<1>3. CASE PayloadRestarts
  <2>1. payload' \in Payload /\ tested' \in BOOLEAN
    BY <1>3, RestTyped DEF PayloadRestarts, Remote!Restart
  <2>2. /\ up' \in Command \cup {Nothing} /\ late' \in 0 .. Late /\ since' \in 0 .. IdleInterval
        /\ UNCHANGED down
    BY <1>3, ConstantFacts DEF PayloadRestarts, Inv, LinkTypeOK
  <2> QED
    BY <1>1, <2>1, <2>2 DEF Inv, LinkTypeOK, Payload, groundVars
<1>4. CASE SendTelemetry
  <2>1. /\ since' \in 0 .. IdleInterval /\ down' \in {Nothing, "idle", "recording"}
        /\ UNCHANGED <<payload, tested, late, up>>
    BY <1>4, ConstantFacts DEF SendTelemetry, Inv, LinkTypeOK
  <2> QED
    BY <1>1, <2>1 DEF Inv, LinkTypeOK, groundVars
<1> QED
  BY <1>2, <1>3, <1>4

\* The part of the invariant that a step of the ground station disturbs.
Ground ==
  /\ seen \in [fresh : BOOLEAN, recording : BOOLEAN]
  /\ hold \in ManualHold /\ tilt \in TiltHold /\ ~(hold.on /\ tilt.on)
  /\ Queue(sends) /\ Starting(sends, hold, tilt)
  /\ waited = Unset \/ (waited \in 0 .. SlotWait /\ sends # <<>>)
  /\ strays \in {0, 1}
  /\ ~seen.recording => strays = 0
  /\ strays = 1 => Free(sends)

Radios == up \in Command \cup {Nothing} /\ down \in {Nothing, "idle", "recording"}

LEMMA GroundStepHolds ==
  ASSUME Inv, Ground', Radios', UNCHANGED <<payload, tested, late, since>>
  PROVE  Inv'
<1>1. \A i \in DOMAIN sends' : sends'[i].type \in Command
  BY QueueIsTyped DEF Ground
<1> QED
  BY <1>1 DEF Inv, LinkTypeOK, Ground, Radios

LEMMA InvIsGround == Inv => Ground /\ Radios
  BY DEF Inv, LinkTypeOK, Ground, Radios

\* The order of a movement starts its hold, before the wait for the slot.
LEMMA BegunHolds ==
  ASSUME Inv, sends # <<>>,
         IF Head(sends).starts THEN Begun(Head(sends).type) ELSE UNCHANGED <<hold, tilt>>
  PROVE  /\ hold' \in ManualHold /\ tilt' \in TiltHold /\ ~(hold'.on /\ tilt'.on)
         /\ Starting(sends, hold', tilt')
<1>1. /\ Queue(sends) /\ Starting(sends, hold, tilt) /\ ~(hold.on /\ tilt.on)
      /\ hold \in ManualHold /\ tilt \in TiltHold
  BY DEF Inv, LinkTypeOK
<1> DEFINE kind == Head(sends).type
<1>2. /\ sends \in Seq(Item) /\ 1 \in 1 .. Len(sends) /\ Head(sends) = sends[1]
      /\ Head(sends) \in Item
  BY <1>1, TailOfQueue DEF Queue
<1>3. kind \in Kinds => \A i \in 1 .. Len(sends) : sends[i] = Head(sends)
  <2>1. kind \in Kinds => Len(sends) = 1
    BY <1>1, <1>2 DEF Queue
  <2> QED
    BY <1>2, <2>1
<1> HIDE DEF kind
<1>4. CASE ~Head(sends).starts \/ kind \notin Kinds
  <2>1. UNCHANGED <<hold, tilt>>
    BY <1>4 DEF Begun, Kinds, Remote!Kinds, kind
  <2> QED
    BY <1>1, <2>1
<1>5. CASE Head(sends).starts /\ kind \in {"MANUAL_BRAKE", "BENCH_SERVO"}
  <2>1. ~tilt.on
    BY <1>1, <1>2, <1>5 DEF Starting, kind
  <2>2. Hold[kind] \in Nat /\ Repeat \in Nat
    BY <1>5, ConstantFacts DEF Kinds, Remote!Kinds
  <2> Begun(kind)
    BY <1>5 DEF kind
  <2>3. tilt' = tilt /\ hold' \in ManualHold
    BY <1>1, <1>5, <2>2 DEF Begun, ManualHold
  <2>4. Starting(sends, hold', tilt')
    BY <1>3, <1>5, <2>1, <2>3 DEF Starting, Kinds, Remote!Kinds, kind
  <2> QED
    BY <1>1, <2>1, <2>3, <2>4
<1>6. CASE Head(sends).starts /\ kind = "START_TILT"
  <2>1. ~hold.on
    BY <1>1, <1>2, <1>6 DEF Starting, kind
  <2>2. Hold[kind] \in Nat
    BY <1>6, ConstantFacts DEF Kinds, Remote!Kinds
  <2> Begun(kind)
    BY <1>6 DEF kind
  <2>3. hold' = hold /\ tilt' \in TiltHold
    BY <1>1, <1>6, <2>2 DEF Begun, TiltHold
  <2>4. Starting(sends, hold', tilt')
    BY <1>3, <1>6, <2>1, <2>3 DEF Starting, Kinds, Remote!Kinds, kind
  <2> QED
    BY <1>1, <2>1, <2>3, <2>4
<1> QED
  BY <1>4, <1>5, <1>6 DEF Kinds, Remote!Kinds

\* A transmission, with the telemetry s at hand.
LEMMA TransmittedHolds ==
  ASSUME Inv, sends # <<>>, NEW s \in [fresh : BOOLEAN, recording : BOOLEAN], Transmitted(s)
  PROVE  /\ seen' \in [fresh : BOOLEAN, recording : BOOLEAN]
         /\ up' \in Command \cup {Nothing} /\ waited' = Unset
         /\ sends' = Tail(sends) /\ Queue(sends') /\ strays' \in {0, 1}
         /\ ~seen'.recording => strays' = 0
         /\ strays' = 1 => Free(sends')
<1>1. /\ Queue(sends) /\ strays \in {0, 1} /\ (strays = 1 => Free(sends))
      /\ up \in Command \cup {Nothing}
  BY DEF Inv, LinkTypeOK
<1>2. /\ Queue(Tail(sends)) /\ Head(sends) \in Item
      /\ Head(sends).type \in Kinds => Tail(sends) = <<>>
      /\ Free(sends) => Free(Tail(sends)) /\ Head(sends).type \notin Kinds
  BY <1>1, TailOfQueue
<1>3. seen' \in [fresh : BOOLEAN, recording : BOOLEAN] /\ seen'.recording = s.recording
  BY DEF Transmitted
<1>4. Head(sends).type \in Command
  BY <1>2 DEF Item
<1>5. up' \in Command \cup {Nothing} /\ waited' = Unset /\ sends' = Tail(sends)
  BY <1>1, <1>4 DEF Transmitted
<1>6. strays' = (IF s.recording THEN strays ELSE 0)
                  + (IF s.recording /\ Head(sends).type \in Kinds THEN 1 ELSE 0)
  BY DEF Transmitted, StraysAfter
<1>7. strays' \in {0, 1} /\ (strays' = 1 => Free(Tail(sends))) /\ (~s.recording => strays' = 0)
  <2>1. CASE ~s.recording
    BY <1>6, <2>1
  <2>2. CASE s.recording /\ Head(sends).type \in Kinds
    <3>1. strays # 1 /\ Free(Tail(sends))
      BY <1>1, <1>2, <2>2, EmptyQueue
    <3> QED
      BY <1>1, <1>6, <2>2, <3>1
  <2>3. CASE s.recording /\ Head(sends).type \notin Kinds
    <3>1. strays' = strays
      BY <1>1, <1>6, <2>3
    <3> QED
      BY <1>1, <1>2, <2>3, <3>1
  <2> QED
    BY <2>1, <2>2, <2>3
<1> QED
  BY <1>2, <1>3, <1>5, <1>7

LEMMA RadioSteps ==
  ASSUME Inv, SendNow \/ AwaitSlot \/ SlotComes \/ SlotFails
  PROVE  Inv'
<1> USE InvIsGround
<1>1. Queue(sends) /\ down \in {Nothing, "idle", "recording"}
  BY DEF Ground, Radios
<1>2. CASE SendNow
  <2>1. seen \in [fresh : BOOLEAN, recording : BOOLEAN] /\ sends # <<>> /\ Transmitted(seen)
        /\ UNCHANGED <<payload, tested, late, since, down>>
    BY <1>2 DEF SendNow, Ground
  <2>2. /\ hold' \in ManualHold /\ tilt' \in TiltHold /\ ~(hold'.on /\ tilt'.on)
        /\ Starting(sends, hold', tilt')
    BY <1>2, BegunHolds DEF SendNow
  <2>3. Starting(Tail(sends), hold', tilt')
    BY <1>1, <2>1, <2>2, TailOfQueue
  <2>4. Ground' /\ up' \in Command \cup {Nothing}
    BY <2>1, <2>2, <2>3, TransmittedHolds DEF Ground
  <2> QED
    BY <1>1, <2>1, <2>4, GroundStepHolds DEF Radios
<1>3. CASE AwaitSlot
  <2>1. /\ hold' \in ManualHold /\ tilt' \in TiltHold /\ ~(hold'.on /\ tilt'.on)
        /\ Starting(sends, hold', tilt')
    BY <1>3, BegunHolds DEF AwaitSlot
  <2>2. waited' \in 0 .. SlotWait /\ sends' # <<>>
    BY <1>3, ConstantFacts DEF AwaitSlot
  <2>3. Ground'
    BY <1>3, <2>1, <2>2 DEF AwaitSlot, Ground
  <2> QED
    BY <1>3, <2>3, GroundStepHolds DEF AwaitSlot, Radios
<1>4. CASE SlotComes
  <2>1. /\ Polled \in [fresh : BOOLEAN, recording : BOOLEAN] /\ sends # <<>>
        /\ Transmitted(Polled) /\ UNCHANGED <<payload, tested, late, since, hold, tilt>>
        /\ down' = Nothing
    BY <1>4 DEF SlotComes, Ground, Polled
  <2>2. Starting(Tail(sends), hold', tilt')
    BY <1>1, <2>1, TailOfQueue DEF Ground
  <2>3. Ground' /\ up' \in Command \cup {Nothing}
    BY <2>1, <2>2, TransmittedHolds DEF Ground
  <2> QED
    BY <2>1, <2>3, GroundStepHolds DEF Radios
<1>5. CASE SlotFails
  <2>1. /\ sends # <<>> /\ sends' = Tail(sends) /\ waited' = Unset
        /\ UNCHANGED <<payload, tested, late, since, up, down, seen, hold, tilt, strays>>
    BY <1>5 DEF SlotFails, Ground
  <2>2. /\ Queue(sends') /\ Starting(sends', hold, tilt)
        /\ Free(sends) => Free(sends')
    BY <1>1, <2>1, TailOfQueue DEF Ground
  <2>3. Ground'
    BY <2>1, <2>2 DEF Ground
  <2> QED
    BY <2>1, <2>3, GroundStepHolds DEF Radios
<1> QED
  BY <1>2, <1>3, <1>4, <1>5

\* A handler that has changed the holds and queued its messages.
LEMMA HandlesHolds ==
  ASSUME Inv, NEW q, NEW m \in ManualHold, NEW r \in TiltHold, NEW kind,
         Handles(q, m, r, kind), Queue(q), Starting(q, m, r), ~(m.on /\ r.on),
         strays = 1 => Free(q)
  PROVE  Inv'
<1>1. /\ sends = <<>> /\ sends' = q /\ hold' = m /\ tilt' = r
      /\ UNCHANGED <<payload, tested, late, since, up, down, seen, waited, strays>>
  BY DEF Handles, Ready
<1>2. waited = Unset
  BY <1>1, InvIsGround DEF Ground
<1>3. Ground'
  BY <1>1, <1>2, InvIsGround DEF Ground
<1> QED
  BY <1>1, <1>3, InvIsGround, GroundStepHolds DEF Radios

\* Messages that move nothing may be queued at any time.
Harmless(q) == Queue(q) /\ Free(q) /\ \A h, r : Starting(q, h, r)

LEMMA HarmlessQueues ==
  ASSUME NEW type \in Command, type \notin Kinds
  PROVE  Harmless(<<Message(type)>>) /\ Harmless(StopFirst \o <<Message(type)>>)
<1> DEFINE m == Message(type)
<1>1. m \in Item /\ m.type \notin Kinds /\ ~m.starts
  BY DEF Message, Item
<1> HIDE DEF m
<1>2. Harmless(<<m>>)
  BY <1>1, OneMessage DEF Harmless
<1>3. Harmless(StopFirst \o <<m>>)
  BY <1>1, StopThenMessage DEF Harmless
<1> QED
  BY <1>2, <1>3 DEF m

LEMMA HoldsAreTyped ==
  ASSUME NEW h \in ManualHold, NEW b \in BOOLEAN
  PROVE  /\ [h EXCEPT !.bench = b] \in ManualHold /\ [h EXCEPT !.bench = b].on = h.on
         /\ [h EXCEPT !.on = FALSE, !.bench = b] \in ManualHold
         /\ [h EXCEPT !.on = FALSE, !.bench = b].on = FALSE
         /\ [h EXCEPT !.on = FALSE] \in ManualHold /\ [h EXCEPT !.on = FALSE].on = FALSE
  BY DEF ManualHold

LEMMA OrdersHold ==
  ASSUME Inv, Orders
  PROVE  Inv'
<1>1. /\ hold \in ManualHold /\ tilt \in TiltHold /\ ~(hold.on /\ tilt.on)
      /\ hold.bench \in BOOLEAN /\ (~seen.recording => strays = 0)
  BY InvIsGround DEF Ground, ManualHold
<1>2. TiltOff \in TiltHold /\ ~TiltOff.on
  BY <1>1 DEF TiltOff, TiltHold
<1>3. Kinds \subseteq Command
  BY DEF Command, Remote!Command, Kinds
<1> HIDE DEF TiltOff
<1>4. CASE OrderBench
  <2> DEFINE m == [hold EXCEPT !.bench = TRUE]
             q == StopFirst \o <<Order("BENCH_SERVO")>>
  <2>1. Handles(q, m, TiltOff, "BENCH_SERVO") /\ strays = 0 /\ m \in ManualHold
    BY <1>1, <1>4, HoldsAreTyped DEF OrderBench
  <2>2. Order("BENCH_SERVO") \in Item /\ Order("BENCH_SERVO").type = "BENCH_SERVO"
    BY <1>3, ItemsAreTyped DEF Order, Kinds, Remote!Kinds
  <2>3. Queue(q) /\ Starting(q, m, TiltOff)
    BY <1>2, <2>2, StopThenMessage
  <2> HIDE DEF q, m
  <2> QED
    BY <1>2, <2>1, <2>3, HandlesHolds
<1>5. ASSUME NEW web \in BOOLEAN, OrderServo(web) PROVE Inv'
  <2> DEFINE b == hold.bench /\ web
             m == [hold EXCEPT !.bench = b]
             q == StopFirst \o <<Order("MANUAL_BRAKE")>>
  <2>1. Handles(q, m, TiltOff, "MANUAL_BRAKE") /\ strays = 0
    BY <1>1, <1>5 DEF OrderServo
  <2>2. b \in BOOLEAN
    BY <1>1
  <2> HIDE DEF b
  <2>3. m \in ManualHold
    BY <1>1, <2>2, HoldsAreTyped
  <2>4. Order("MANUAL_BRAKE") \in Item /\ Order("MANUAL_BRAKE").type = "MANUAL_BRAKE"
    BY <1>3, ItemsAreTyped DEF Order, Kinds, Remote!Kinds
  <2>5. Queue(q) /\ Starting(q, m, TiltOff)
    BY <1>2, <2>4, StopThenMessage
  <2> HIDE DEF q, m
  <2> QED
    BY <1>2, <2>1, <2>3, <2>5, HandlesHolds
<1>6. ASSUME NEW web \in BOOLEAN, OrderTilt(web) PROVE Inv'
  <2> DEFINE b == hold.bench /\ ~web
             m == [hold EXCEPT !.on = FALSE, !.bench = b]
             q == <<Order("START_TILT")>>
  <2>1. Handles(q, m, tilt, "START_TILT") /\ strays = 0
    BY <1>1, <1>6 DEF OrderTilt
  <2>2. b \in BOOLEAN
    BY <1>1
  <2> HIDE DEF b
  <2>3. m \in ManualHold /\ ~m.on
    BY <1>1, <2>2, HoldsAreTyped
  <2>4. Order("START_TILT") \in Item /\ Order("START_TILT").type = "START_TILT"
    BY <1>3, ItemsAreTyped DEF Order, Kinds, Remote!Kinds
  <2>5. Queue(q) /\ Starting(q, m, tilt)
    BY <2>3, <2>4, OneMessage
  <2> HIDE DEF q, m
  <2> QED
    BY <1>1, <2>1, <2>3, <2>5, HandlesHolds
<1>7. ASSUME NEW q, NEW m \in ManualHold, NEW r \in TiltHold, NEW kind,
             Handles(q, m, r, kind), Harmless(q), ~(m.on /\ r.on)
      PROVE  Inv'
  BY <1>7, HandlesHolds DEF Harmless
<1>8. /\ {"STOP_TILT", "NEUTRAL", "DISABLE", "ARM", "ABORT", "TEST", "PING"} \subseteq Command
      /\ \A k \in {"STOP_TILT", "NEUTRAL", "DISABLE", "ARM", "ABORT", "TEST", "PING"} :
           k \notin Kinds
  BY DEF Command, Remote!Command, Kinds, Remote!Kinds
<1>9. CASE OrderTiltStop
  <2>1. Harmless(<<Message("STOP_TILT")>>)
    BY <1>8, HarmlessQueues
  <2> QED
    BY <1>1, <1>2, <1>7, <1>9, <2>1 DEF OrderTiltStop
<1>10. CASE OrderTest
  <2>1. Harmless(StopFirst \o <<Message("TEST")>>)
    BY <1>8, HarmlessQueues
  <2>2. [hold EXCEPT !.on = FALSE, !.bench = FALSE] \in ManualHold
    BY <1>1, HoldsAreTyped
  <2> QED
    BY <1>2, <1>7, <1>10, <2>1, <2>2 DEF OrderTest
<1>11. CASE OrderOther
  <2>1. Harmless(<<Message("PING")>>)
    BY <1>8, HarmlessQueues
  <2> QED
    BY <1>1, <1>7, <1>11, <2>1 DEF OrderOther
<1>12. ASSUME NEW web \in BOOLEAN, OrderNeutral(web) \/ OrderDisable(web) PROVE Inv'
  <2> DEFINE b == hold.bench /\ web
             m == [hold EXCEPT !.on = FALSE, !.bench = b]
  <2>1. b \in BOOLEAN
    BY <1>1
  <2> HIDE DEF b
  <2>2. m \in ManualHold
    BY <1>1, <2>1, HoldsAreTyped
  <2>3. /\ Harmless(<<Message("NEUTRAL")>>)
        /\ Harmless(StopFirst \o <<Message("DISABLE")>>)
    BY <1>8, HarmlessQueues
  <2>4. \/ Handles(<<Message("NEUTRAL")>>, m, TiltOff, "stop")
        \/ Handles(StopFirst \o <<Message("DISABLE")>>, m, TiltOff, "stop")
    BY <1>12 DEF OrderNeutral, OrderDisable, b
  <2> HIDE DEF m
  <2> QED
    BY <1>2, <1>7, <2>2, <2>3, <2>4
<1>13. ASSUME NEW web \in BOOLEAN, OrderArm(web) PROVE Inv'
  <2> DEFINE m == IF web THEN [hold EXCEPT !.on = FALSE, !.bench = FALSE] ELSE hold
  <2>1. m \in ManualHold
    BY <1>1, HoldsAreTyped
  <2>2. Harmless(StopFirst \o <<Message("ARM")>>)
    BY <1>8, HarmlessQueues
  <2>3. Handles(StopFirst \o <<Message("ARM")>>, m, TiltOff, Nothing)
    BY <1>13 DEF OrderArm
  <2> HIDE DEF m
  <2> QED
    BY <1>2, <1>7, <2>1, <2>2, <2>3
<1>14. ASSUME NEW web \in BOOLEAN, OrderAbort(web) PROVE Inv'
  <2> DEFINE m == [hold EXCEPT !.on = FALSE, !.bench = FALSE]
             r == IF web THEN TiltOff ELSE tilt
             q == (IF web THEN StopFirst ELSE <<>>) \o <<Message("ABORT")>>
  <2>1. m \in ManualHold /\ ~m.on /\ r \in TiltHold
    BY <1>1, <1>2, HoldsAreTyped
  <2>2. Message("ABORT") \in Item
    BY <1>8, ItemsAreTyped
  <2>3. <<>> \o <<Message("ABORT")>> = <<Message("ABORT")>>
    <3>1. <<Message("ABORT")>> \in Seq(Item)
      BY <2>2
    <3> QED
      BY <3>1, ConcatEmptySeq
  <2>4. Harmless(q)
    BY <1>8, <2>3, HarmlessQueues
  <2>5. Handles(q, m, r, Nothing)
    BY <1>14 DEF OrderAbort
  <2> HIDE DEF q, m, r
  <2> QED
    BY <1>7, <2>1, <2>4, <2>5
<1> QED
  BY <1>4, <1>5, <1>6, <1>9, <1>10, <1>11, <1>12, <1>13, <1>14 DEF Orders

\* Between the handlers: polling, no order, and the repeats of both holds.
LEMMA LoopSteps ==
  ASSUME Inv, PollTelemetry \/ NoOrder \/ UpdateManualHold \/ UpdateTiltHold
  PROVE  Inv'
<1>1. Ground /\ Radios
  BY InvIsGround
<1>2. /\ {"STOP_TILT", "NEUTRAL"} \subseteq Command \ Kinds /\ Kinds \subseteq Command
      /\ {"MANUAL_BRAKE", "BENCH_SERVO", "START_TILT"} \subseteq Kinds
  BY DEF Command, Remote!Command, Kinds, Remote!Kinds
<1>3. CASE PollTelemetry
  <2>1. /\ seen' \in [fresh : BOOLEAN, recording : BOOLEAN] /\ strays' \in {0, strays}
        /\ ~seen'.recording => strays' = 0
    <3>1. CASE Pending
      <4>1. seen' = Polled /\ strays' = StraysAfter(Polled)
        BY <1>3, <3>1 DEF PollTelemetry
      <4>2. Polled \in [fresh : BOOLEAN, recording : BOOLEAN]
        BY DEF Polled
      <4> QED
        BY <4>1, <4>2 DEF StraysAfter
    <3>2. CASE ~Pending
      BY <1>1, <1>3, <3>2 DEF PollTelemetry, Ground
    <3> QED
      BY <3>1, <3>2
  <2>2. UNCHANGED <<payload, tested, late, since, up, hold, tilt, sends, waited>>
        /\ down' \in {Nothing, "idle", "recording"}
    BY <1>1, <1>3 DEF PollTelemetry, Radios
  <2>3. Ground'
    BY <1>1, <2>1, <2>2 DEF Ground
  <2> QED
    BY <1>1, <2>2, <2>3, GroundStepHolds DEF Radios
<1>4. CASE NoOrder
  <2>1. UNCHANGED <<payload, tested, late, since, up, down, seen, hold, tilt, sends, waited, strays>>
    BY <1>4 DEF NoOrder
  <2> QED
    BY <2>1 DEF Inv, LinkTypeOK
<1>5. ASSUME NEW type \in Command, sends = <<>>, sends' = <<Message(type)>>,
             hold' \in ManualHold, tilt' \in TiltHold, ~(hold'.on /\ tilt'.on),
             type \in Kinds => ~seen.recording,
             UNCHANGED <<payload, tested, late, since, up, down, seen, waited, strays>>
      PROVE  Inv'
  <2>1. Message(type) \in Item /\ Message(type).type = type /\ ~Message(type).starts
    BY ItemsAreTyped DEF Message
  <2>2. Queue(sends') /\ Starting(sends', hold', tilt') /\ (type \notin Kinds => Free(sends'))
    BY <1>5, <2>1, OneMessage
  <2>3. Ground'
    BY <1>1, <1>5, <2>2 DEF Ground
  <2> QED
    BY <1>1, <1>5, <2>3, GroundStepHolds DEF Radios
<1>6. ASSUME UNCHANGED sends, sends = <<>>, hold' \in ManualHold, tilt' \in TiltHold,
             ~(hold'.on /\ tilt'.on),
             UNCHANGED <<payload, tested, late, since, up, down, seen, waited, strays>>
      PROVE  Inv'
  <2>1. Ground'
    BY <1>1, <1>6, EmptyQueue DEF Ground
  <2> QED
    BY <1>1, <1>6, <2>1, GroundStepHolds DEF Radios
<1>7. CASE UpdateManualHold
  <2>1. /\ sends = <<>> /\ hold \in ManualHold /\ tilt' = tilt /\ tilt \in TiltHold
        /\ ~(hold.on /\ tilt.on)
        /\ UNCHANGED <<payload, tested, late, since, up, down, seen, waited, strays>>
    BY <1>1, <1>7 DEF UpdateManualHold, Ground
  <2>2. CASE UNCHANGED <<hold, sends>>
    BY <1>6, <2>1, <2>2
  <2>3. CASE hold' = [hold EXCEPT !.on = FALSE, !.bench = FALSE] /\ UNCHANGED sends
    BY <1>6, <2>1, <2>3, HoldsAreTyped
  <2>4. CASE hold' = [hold EXCEPT !.on = FALSE] /\ sends' = <<Message("NEUTRAL")>>
    BY <1>2, <1>5, <2>1, <2>4, HoldsAreTyped
  <2>5. CASE /\ hold' = [hold EXCEPT !.rep = 0] /\ ~Locked
             /\ sends' = <<Message(IF hold.bench THEN "BENCH_SERVO" ELSE "MANUAL_BRAKE")>>
    <3>1. hold' \in ManualHold /\ hold'.on = hold.on
      BY <2>1, <2>5 DEF ManualHold
    <3> QED
      BY <1>2, <1>5, <2>1, <2>5, <3>1 DEF Locked
  <2> QED
    BY <1>7, <2>2, <2>3, <2>4, <2>5 DEF UpdateManualHold
<1>8. CASE UpdateTiltHold
  <2>1. /\ sends = <<>> /\ tilt \in TiltHold /\ hold' = hold /\ hold \in ManualHold
        /\ ~(hold.on /\ tilt.on)
        /\ UNCHANGED <<payload, tested, late, since, up, down, seen, waited, strays>>
    BY <1>1, <1>8 DEF UpdateTiltHold, Ground
  <2>2. CASE UNCHANGED <<tilt, sends>>
    BY <1>6, <2>1, <2>2
  <2>3. CASE tilt' = TiltOff /\ sends' = <<Message("STOP_TILT")>>
    <3>1. tilt' \in TiltHold /\ ~tilt'.on
      BY <2>1, <2>3 DEF TiltOff, TiltHold
    <3> QED
      BY <1>2, <1>5, <2>1, <2>3, <3>1
  <2>4. CASE /\ tilt' = [tilt EXCEPT !.rep = 0] /\ ~seen.recording
             /\ sends' = <<Message("START_TILT")>>
    <3>1. tilt' \in TiltHold /\ tilt'.on = tilt.on
      BY <2>1, <2>4 DEF TiltHold
    <3> QED
      BY <1>2, <1>5, <2>1, <2>4, <3>1
  <2> QED
    BY <1>8, <2>2, <2>3, <2>4 DEF UpdateTiltHold
<1> QED
  BY <1>3, <1>4, <1>7, <1>8

LEMMA HeldLater ==
  /\ \A h \in ManualHold : HoldLater(h) \in ManualHold /\ HoldLater(h).on = h.on
  /\ \A h \in TiltHold : HoldLater(h) \in TiltHold /\ HoldLater(h).on = h.on
<1> DEFINE left(h) == IF h.left > 0 THEN h.left - 1 ELSE 0
           rep(h) == IF h.rep < Repeat THEN h.rep + 1 ELSE h.rep
<1>1. \A h \in ManualHold \cup TiltHold : left(h) \in Nat /\ rep(h) \in Nat
  BY ConstantFacts DEF ManualHold, TiltHold
<1>2. \A h : HoldLater(h) = IF h.on THEN [h EXCEPT !.left = left(h), !.rep = rep(h)] ELSE h
  BY DEF HoldLater
<1> HIDE DEF left, rep
<1> QED
  BY <1>1, <1>2 DEF ManualHold, TiltHold

LEMMA TickHolds ==
  ASSUME Inv, Tick
  PROVE  Inv'
<1>1. Ground /\ Radios /\ payload \in Payload
  BY InvIsGround DEF Inv, LinkTypeOK, Payload
<1>2. late' \in 0 .. Late /\ since' \in 0 .. IdleInterval
  BY ConstantFacts DEF Tick, Inv, LinkTypeOK
<1>3. payload' \in Payload /\ UNCHANGED tested
  BY <1>1 DEF Tick
<1>4. UNCHANGED <<up, down, sends, strays>>
  BY DEF Tick
<1>5. waited' = Unset \/ (waited' \in 0 .. SlotWait /\ sends' # <<>>)
  BY <1>1, <1>4, ConstantFacts DEF Tick, GivesUp, Later, Unset, Ground
<1>6. hold' \in ManualHold /\ hold'.on = hold.on
  BY <1>1, HeldLater DEF Tick, Ground
<1>7. tilt' \in TiltHold /\ tilt'.on = tilt.on
  BY <1>1, HeldLater DEF Tick, Ground
<1>8. seen' \in [fresh : BOOLEAN, recording : BOOLEAN] /\ seen'.recording = seen.recording
  BY <1>1 DEF Tick, Ground
<1>9. Starting(sends', hold', tilt')
  BY <1>1, <1>4, <1>6, <1>7 DEF Ground, Starting
<1>10. \A i \in DOMAIN sends : sends[i].type \in Command
  BY <1>1, QueueIsTyped DEF Ground
<1> QED
  BY <1>1, <1>2, <1>3, <1>4, <1>5, <1>6, <1>7, <1>8, <1>9, <1>10
     DEF Inv, LinkTypeOK, Ground, Radios, Payload

LEMMA StepPreserves == Inv /\ [LinkNext]_linkVars => Inv'
<1>1. Inv /\ UNCHANGED linkVars => Inv'
  BY DEF Inv, LinkTypeOK, linkVars, groundVars
<1> QED
  BY <1>1, PayloadSteps, RadioSteps, LoopSteps, OrdersHold, TickHolds DEF LinkNext, GroundStep

-----------------------------------------------------------------------------
(* From hand to servo.  An order waits for its handler's STOP and for the slot *)
(* (Asked), then its hold repeats it; what the radio or the payload has of it   *)
(* is no older than both together and the polls.                              *)

OrderType == [kind : Kinds \cup {"stop"}, age : Age]

Sofar(w) == IF w = Unset THEN 0 ELSE w

\* The order whose hold has yet to begin is the last message of its handler.
Asked(q, w) == q # <<>> /\ q[Len(q)].starts /\ (Len(q) = 1 => w = Unset)

Shape(q, kind) ==
  /\ Len(q) <= 2
  /\ \A i \in 1 .. Len(q) :
       q[i].starts => i = Len(q) /\ q[i].type = kind /\ kind \in Kinds
  /\ Len(q) = 2 => q[2].starts \/ q[2].type \notin Kinds

\* A hold that goes on is of the last order, and ends in its time.
Holding(h, t, o) ==
  /\ h.on => /\ o.kind \in {"MANUAL_BRAKE", "BENCH_SERVO"}
             /\ h.left > 0 => o.age + h.left <= SlotWait + Hold[o.kind]
  /\ t.on => /\ o.kind = "START_TILT"
             /\ t.left > 0 => o.age + t.left <= SlotWait + Hold[o.kind]

Hands(q, w, h, t, o) ==
  /\ Shape(q, o.kind)
  /\ Asked(q, w) => o.age <= IF Len(q) = 2 THEN Sofar(w) ELSE SlotWait
  /\ ~Asked(q, w) =>
       /\ Holding(h, t, o)
       /\ ~Free(q) => o.kind \in Kinds /\ o.age <= SlotWait + Hold[o.kind] + Sofar(w)

\* How long after its order a movement may still be sent.
Share(kind) == IF kind = "stop" THEN 0 ELSE 2 * SlotWait + Hold[kind]

Reach(p, u, l, o) ==
  /\ p.enabled /\ u \in Kinds => o.age <= Share(o.kind) + l
  /\ p.move # Nothing => /\ p.age < Timeout[p.move]
                         /\ o.age <= Share(o.kind) + Late + p.age + l

Watching ==
  /\ ordered \in OrderType
  /\ Hands(sends, waited, hold, tilt, ordered)
  /\ Reach(payload, up, late, ordered)

LEMMA WatchFacts ==
  /\ Unset \notin Nat /\ Nothing \notin Kinds /\ "stop" \notin Kinds
  /\ \A k \in Kinds : Hold[k] \in Nat \ {0} /\ Timeout[k] \in Nat \ {0}
  /\ \A k \in Kinds \cup {"stop"} : Share(k) \in Nat
<1>1. \A k \in Kinds : Hold[k] \in Nat \ {0} /\ Timeout[k] \in Nat \ {0}
  BY ConstantFacts
<1>2. Nothing \notin Kinds /\ "stop" \notin Kinds
  BY DEF Kinds, Remote!Kinds, Nothing, Remote!Nothing
<1>3. \A k \in Kinds \cup {"stop"} : Share(k) \in Nat
  BY <1>1, ConstantFacts DEF Share
<1> QED
  BY <1>1, <1>2, <1>3 DEF Unset

LEMMA EmptyHands ==
  ASSUME NEW w, NEW h, NEW t, NEW o, Holding(h, t, o)
  PROVE  Hands(<<>>, w, h, t, o)
<1>1. Len(<<>>) = 0 /\ ~Asked(<<>>, w)
  BY DEF Asked
<1> QED
  BY <1>1, EmptyQueue DEF Hands, Shape

\* One message, or a STOP before it.
LEMMA HandsOf ==
  ASSUME NEW m \in Item, NEW q, NEW h, NEW t, NEW o \in OrderType,
         q = <<m>> \/ StoppedFirst(q, m),
         m.starts => m.type = o.kind /\ o.kind \in Kinds /\ o.age = 0,
         ~m.starts => m.type \notin Kinds /\ Holding(h, t, o)
  PROVE  Hands(q, Unset, h, t, o)
<1>1. CASE q = <<m>>
  <2>1. Len(q) = 1 /\ q[1] = m /\ q # <<>>
    BY <1>1
  <2>2. Shape(q, o.kind)
    BY <2>1 DEF Shape
  <2>3. Asked(q, Unset) <=> m.starts
    BY <2>1 DEF Asked, Item
  <2>4. ~m.starts => Free(q)
    BY <2>1 DEF Free
  <2> QED
    BY <2>1, <2>2, <2>3, <2>4, ConstantFacts DEF Hands
<1>2. CASE StoppedFirst(q, m)
  <2>1. /\ Len(q) = 2 /\ q[2] = m /\ q # <<>>
        /\ ~q[1].starts /\ q[1].type \notin Kinds
    BY <1>2 DEF StoppedFirst, Message, Kinds, Remote!Kinds
  <2>2. Shape(q, o.kind)
    BY <2>1 DEF Shape
  <2>3. Asked(q, Unset) <=> m.starts
    BY <2>1 DEF Asked, Item
  <2>4. ~m.starts => Free(q)
    BY <2>1 DEF Free
  <2>5. Sofar(Unset) = 0
    BY DEF Sofar
  <2> QED
    BY <2>1, <2>2, <2>3, <2>4, <2>5 DEF Hands
<1> QED
  BY <1>1, <1>2

\* A repeat.
LEMMA HandsRepeat ==
  ASSUME NEW type \in Kinds, NEW h, NEW t, NEW o \in OrderType, Holding(h, t, o),
         o.kind \in Kinds, o.age <= SlotWait + Hold[o.kind]
  PROVE  Hands(<<Message(type)>>, Unset, h, t, o)
<1> DEFINE m == Message(type)
           q == <<m>>
<1>1. Len(q) = 1 /\ q[1] = m /\ ~m.starts /\ m.type = type
  BY DEF Message
<1> HIDE DEF m
<1>2. Shape(q, o.kind) /\ ~Asked(q, Unset)
  BY <1>1 DEF Shape, Asked
<1>3. Hold[o.kind] \in Nat /\ o.age \in Nat
  BY WatchFacts, AgeCapIsNat DEF OrderType, Age
<1>4. o.age <= SlotWait + Hold[o.kind] + Sofar(Unset)
  BY <1>3, ConstantFacts DEF Sofar
<1> QED
  BY <1>2, <1>4 DEF Hands, m

\* The head of the queue is sent, or given up.
LEMMA HandsAfter ==
  ASSUME NEW q, Queue(q), q # <<>>, NEW w \in {Unset} \cup 0 .. SlotWait,
         NEW h, NEW t, NEW o \in OrderType, Hands(q, w, h, t, o),
         NEW h2, NEW t2, Len(q) = 1 => Holding(h2, t2, o), Len(q) = 2 => h2 = h /\ t2 = t
  PROVE  /\ Hands(Tail(q), Unset, h2, t2, o)
         /\ Head(q).type \in Kinds => o.age <= Share(o.kind)
<1>1. /\ q \in Seq(Item) /\ Len(q) \in Nat /\ Len(q) >= 1 /\ Len(q) <= 2
      /\ Head(q) = q[1] /\ Len(Tail(q)) = Len(q) - 1
      /\ Len(q) = 2 => Tail(q)[1] = q[2]
      /\ Len(q) = 1 => Tail(q) = <<>>
  <2>1. q \in Seq(Item) /\ Len(q) <= 2
    BY DEF Queue, Hands, Shape
  <2>2. /\ Len(q) \in Nat /\ Len(q) >= 1 /\ Head(q) = q[1] /\ Tail(q) \in Seq(Item)
        /\ Len(Tail(q)) = Len(q) - 1 /\ (Len(q) = 2 => Tail(q)[1] = q[2])
    BY <2>1
  <2>3. Len(q) = 1 => Tail(q) = <<>>
    <3> DEFINE r == Tail(q)
    <3>1. r \in Seq(Item) /\ (Len(q) = 1 => Len(r) = 0)
      BY <2>2
    <3> HIDE DEF r
    <3>2. Len(r) = 0 => r = <<>>
      BY <3>1
    <3> QED
      BY <3>1, <3>2 DEF r
  <2> QED
    BY <2>1, <2>2, <2>3
<1>2. Sofar(w) \in 0 .. SlotWait /\ Sofar(Unset) = 0
  BY ConstantFacts DEF Sofar
<1>3. o.age \in Nat /\ (o.kind \in Kinds => Hold[o.kind] \in Nat)
  BY WatchFacts, AgeCapIsNat DEF OrderType, Age
<1>4. CASE Len(q) = 1
  <2>1. Tail(q) = <<>>
    BY <1>1, <1>4
  <2>2. Hands(Tail(q), Unset, h2, t2, o)
    BY <1>4, <2>1, EmptyHands
  <2>3. ASSUME Head(q).type \in Kinds
        PROVE  o.kind \in Kinds /\ o.age <= SlotWait + Hold[o.kind] + SlotWait
    <3>1. ~Free(q) /\ 1 \in 1 .. Len(q)
      BY <1>1, <1>4, <2>3 DEF Free
    <3>2. CASE Asked(q, w)
      <4>1. q[1].starts /\ o.age <= SlotWait
        BY <1>4, <3>2 DEF Asked, Hands
      <4>2. o.kind \in Kinds
        BY <3>1, <4>1 DEF Hands, Shape
      <4> QED
        BY <1>3, <4>1, <4>2, ConstantFacts
    <3>3. CASE ~Asked(q, w)
      <4>1. o.kind \in Kinds /\ o.age <= SlotWait + Hold[o.kind] + Sofar(w)
        BY <3>1, <3>3 DEF Hands
      <4> QED
        BY <1>2, <1>3, <4>1, ConstantFacts
    <3> QED
      BY <3>2, <3>3
  <2> QED
    BY <1>3, <2>2, <2>3, WatchFacts, ConstantFacts DEF Share
<1>5. CASE Len(q) = 2
  <2> DEFINE r == Tail(q)
  <2>1. Len(r) = 1 /\ r[1] = q[2] /\ h2 = h /\ t2 = t
    BY <1>1, <1>5
  <2> HIDE DEF r
  <2> r # <<>>
    BY <2>1
  <2>2. Head(q).type \notin Kinds
    BY <1>1, <1>5 DEF Queue
  <2>3. 2 \in 1 .. Len(q) /\ (q[2].starts => q[2].type = o.kind /\ o.kind \in Kinds)
    BY <1>5 DEF Hands, Shape
  <2>4. Shape(r, o.kind)
    BY <2>1, <2>3 DEF Shape
  <2>5. (Asked(r, Unset) <=> q[2].starts) /\ (Asked(q, w) <=> q[2].starts)
    <3>1. q[2] \in Item
      BY <1>1, <2>3
    <3> QED
      BY <1>5, <2>1, <3>1 DEF Asked, Item
  <2>6. CASE q[2].starts
    <3>1. o.age <= SlotWait
      BY <1>2, <1>3, <1>5, <2>5, <2>6, ConstantFacts DEF Hands
    <3>2. Asked(r, Unset) /\ Len(r) # 2
      BY <2>1, <2>5, <2>6
    <3>3. Hands(r, Unset, h2, t2, o)
      BY <2>4, <3>1, <3>2 DEF Hands
    <3> QED
      BY <2>2, <3>3 DEF r
  <2>7. CASE ~q[2].starts
    <3>1. Holding(h, t, o)
      BY <2>5, <2>7 DEF Hands
    <3>2. q[2].type \notin Kinds
      BY <1>5, <2>7 DEF Hands, Shape
    <3>3. Free(r)
      BY <2>1, <3>2 DEF Free
    <3> QED
      BY <2>1, <2>2, <2>4, <2>5, <2>7, <3>1, <3>3 DEF Hands, r
  <2> QED
    BY <2>6, <2>7
<1> QED
  BY <1>1, <1>4, <1>5

\* Steps of the payload: what it polls, it has had for at most Late.
LEMMA PayloadWatches ==
  ASSUME Inv, Watching, PayloadPolls \/ PayloadRestarts \/ SendTelemetry
  PROVE  Watching'
<1>1. UNCHANGED <<sends, waited, hold, tilt, ordered>>
  BY DEF PayloadPolls, PayloadRestarts, SendTelemetry, groundVars
<1>2. payload \in Payload /\ ordered \in OrderType /\ late \in 0 .. Late
  BY DEF Inv, LinkTypeOK, Payload, Watching
<1>3. CASE PayloadPolls
  <2>1. /\ payload' \in Payload /\ (payload'.enabled => payload.enabled)
        /\ payload'.move # Nothing =>
             \/ /\ payload'.move = payload.move /\ payload'.age = payload.age + late
                /\ payload'.age < Timeout[payload'.move]
             \/ payload.enabled /\ up \in Kinds /\ payload'.move = up /\ payload'.age = 0
    BY <1>3, PollMoves
  <2>2. late' = 0 /\ (payload'.enabled => up' \notin Kinds)
    BY <1>3, <2>1, WatchFacts DEF PayloadPolls
  <2>3. /\ ordered.age \in Nat /\ Share(ordered.kind) \in Nat /\ Late \in Nat
        /\ payload.age \in Nat /\ payload'.age \in Nat
    BY <1>2, <2>1, WatchFacts, ConstantFacts, AgeCapIsNat DEF OrderType, Age, Payload
  <2>4. ASSUME payload'.move # Nothing
        PROVE  /\ payload'.age < Timeout[payload'.move]
               /\ ordered.age <= Share(ordered.kind) + Late + payload'.age + 0
    <3>1. CASE /\ payload'.move = payload.move /\ payload'.age = payload.age + late
               /\ payload'.age < Timeout[payload'.move]
      <4>1. ordered.age <= Share(ordered.kind) + Late + payload.age + late
        BY <2>4, <3>1 DEF Watching, Reach
      <4> QED
        BY <1>2, <2>3, <3>1, <4>1
    <3>2. CASE payload.enabled /\ up \in Kinds /\ payload'.move = up /\ payload'.age = 0
      <4>1. ordered.age <= Share(ordered.kind) + late
        BY <3>2 DEF Watching, Reach
      <4>2. Timeout[up] \in Nat \ {0}
        BY <3>2, WatchFacts
      <4> QED
        BY <1>2, <2>3, <3>2, <4>1, <4>2
    <3> QED
      BY <2>1, <2>4, <3>1, <3>2
  <2>5. Reach(payload', up', late', ordered)
    BY <2>2, <2>4 DEF Reach
  <2> QED
    BY <1>1, <2>5 DEF Watching
<1>4. CASE PayloadRestarts
  <2>1. payload'.move = Nothing /\ up' \notin Kinds
    BY <1>4, RestTyped, WatchFacts DEF PayloadRestarts, Remote!Restart
  <2>2. Reach(payload', up', late', ordered)
    BY <2>1 DEF Reach
  <2> QED
    BY <1>1, <2>2 DEF Watching
<1>5. CASE SendTelemetry
  BY <1>1, <1>5 DEF SendTelemetry, Watching
<1> QED
  BY <1>3, <1>4, <1>5

\* The hold begins before the wait for the slot.
LEMMA BegunIsHeld ==
  ASSUME Inv, Watching, sends # <<>>, waited = Unset,
         IF Head(sends).starts THEN Begun(Head(sends).type) ELSE UNCHANGED <<hold, tilt>>
  PROVE  /\ Len(sends) = 1 => Holding(hold', tilt', ordered)
         /\ Len(sends) = 1 /\ ~Free(sends) =>
              ordered.kind \in Kinds /\ ordered.age <= SlotWait + Hold[ordered.kind]
         /\ Len(sends) = 2 => hold' = hold /\ tilt' = tilt
<1>1. /\ Queue(sends) /\ Starting(sends, hold, tilt)
      /\ hold \in ManualHold /\ tilt \in TiltHold
  BY DEF Inv
<1>2. Head(sends) = sends[1] /\ 1 \in 1 .. Len(sends) /\ sends[1] \in Item
  BY <1>1 DEF Queue
<1>3. Hands(sends, Unset, hold, tilt, ordered) /\ ordered \in OrderType
  BY DEF Watching
<1>4. ordered.age \in Nat /\ (ordered.kind \in Kinds => Hold[ordered.kind] \in Nat \ {0})
  BY <1>3, WatchFacts, AgeCapIsNat DEF OrderType, Age
<1>5. CASE ~Head(sends).starts
  <2>1. Len(sends) = 1 => ~Asked(sends, Unset)
    BY <1>2, <1>5 DEF Asked, Item
  <2>2. Sofar(Unset) = 0
    BY DEF Sofar
  <2> QED
    BY <1>3, <1>4, <1>5, <2>1, <2>2, ConstantFacts DEF Hands
<1>6. CASE Head(sends).starts
  <2>1. Len(sends) = 1 /\ sends[1].type = ordered.kind /\ ordered.kind \in Kinds
    BY <1>2, <1>3, <1>6 DEF Hands, Shape
  <2>2. Asked(sends, Unset)
    BY <1>2, <1>6, <2>1 DEF Asked
  <2>3. ordered.age <= SlotWait
    BY <1>3, <2>1, <2>2 DEF Hands
  <2>4. Begun(ordered.kind)
    BY <1>2, <1>6, <2>1
  <2>5. CASE ordered.kind \in {"MANUAL_BRAKE", "BENCH_SERVO"}
    <3>1. tilt' = tilt /\ ~tilt.on
      BY <1>1, <1>2, <1>6, <2>1, <2>4, <2>5 DEF Begun, Starting
    <3>2. hold'.left = Hold[ordered.kind]
      BY <1>1, <2>4, <2>5 DEF Begun, ManualHold
    <3> QED
      BY <1>4, <2>1, <2>3, <2>5, <3>1, <3>2, ConstantFacts DEF Holding
  <2>6. CASE ordered.kind = "START_TILT"
    <3>1. hold' = hold /\ ~hold.on
      BY <1>1, <1>2, <1>6, <2>1, <2>4, <2>6 DEF Begun, Starting
    <3>2. tilt'.left = Hold[ordered.kind]
      BY <2>4, <2>6 DEF Begun
    <3> QED
      BY <1>4, <2>1, <2>3, <2>6, <3>1, <3>2, ConstantFacts DEF Holding
  <2> QED
    BY <2>1, <2>5, <2>6 DEF Kinds, Remote!Kinds
<1> QED
  BY <1>5, <1>6

\* Whatever goes out has reached the payload, or not.
LEMMA TransmittedReaches ==
  ASSUME Inv, Watching, UNCHANGED <<payload, tested, late, ordered>>,
         up' \in {up, Head(sends).type},
         Head(sends).type \in Kinds => ordered.age <= Share(ordered.kind)
  PROVE  Reach(payload', up', late', ordered')
<1>1. ordered.age \in Nat /\ Share(ordered.kind) \in Nat /\ late \in Nat
  BY WatchFacts, AgeCapIsNat, ConstantFacts DEF Watching, OrderType, Age, Inv, LinkTypeOK
<1> QED
  BY <1>1 DEF Watching, Reach

LEMMA RadioWatches ==
  ASSUME Inv, Watching, SendNow \/ AwaitSlot \/ SlotComes \/ SlotFails
  PROVE  Watching'
<1>1. /\ Queue(sends) /\ waited \in {Unset} \cup 0 .. SlotWait /\ (waited # Unset => sends # <<>>)
      /\ ordered \in OrderType /\ Hands(sends, waited, hold, tilt, ordered)
  BY DEF Inv, LinkTypeOK, Watching
<1>2. Len(sends) \in Nat /\ Len(sends) <= 2 /\ (sends # <<>> => Len(sends) \in {1, 2})
  <2>1. Len(sends) \in Nat /\ Len(sends) <= 2 /\ (sends # <<>> => Len(sends) # 0)
    BY <1>1 DEF Hands, Shape, Queue
  <2>2. \A n \in Nat : n <= 2 /\ n # 0 => n \in {1, 2}
    OBVIOUS
  <2> QED
    BY <2>1, <2>2
<1>3. CASE SendNow
  <2>1. /\ sends # <<>> /\ waited = Unset /\ Transmitted(seen)
        /\ UNCHANGED <<payload, tested, late, ordered>>
    BY <1>3 DEF SendNow
  <2>2. /\ Len(sends) = 1 => Holding(hold', tilt', ordered)
        /\ Len(sends) = 2 => hold' = hold /\ tilt' = tilt
    BY <1>3, <2>1, BegunIsHeld DEF SendNow
  <2>3. /\ Hands(Tail(sends), Unset, hold', tilt', ordered)
        /\ Head(sends).type \in Kinds => ordered.age <= Share(ordered.kind)
    BY <1>1, <2>1, <2>2, HandsAfter
  <2>4. sends' = Tail(sends) /\ waited' = Unset /\ up' \in {up, Head(sends).type}
    BY <2>1 DEF Transmitted
  <2>5. Reach(payload', up', late', ordered')
    BY <2>1, <2>3, <2>4, TransmittedReaches
  <2> QED
    BY <1>1, <2>1, <2>3, <2>4, <2>5 DEF Watching
<1>4. CASE AwaitSlot
  <2>1. /\ sends # <<>> /\ waited = Unset /\ waited' = 0 /\ sends' = sends
        /\ UNCHANGED <<payload, tested, late, up, ordered>>
    BY <1>4 DEF AwaitSlot
  <2>2. /\ Len(sends) = 1 => Holding(hold', tilt', ordered)
        /\ Len(sends) = 1 /\ ~Free(sends) =>
             ordered.kind \in Kinds /\ ordered.age <= SlotWait + Hold[ordered.kind]
        /\ Len(sends) = 2 => hold' = hold /\ tilt' = tilt
    BY <1>4, <2>1, BegunIsHeld DEF AwaitSlot
  <2>3. 0 # Unset /\ Sofar(0) = 0 /\ Sofar(Unset) = 0
    BY DEF Sofar, Unset
  <2>4. Hands(sends, 0, hold', tilt', ordered)
    <3>1. CASE Len(sends) = 1
      <4>1. ~Asked(sends, 0) /\ Shape(sends, ordered.kind)
        BY <1>1, <2>3, <3>1 DEF Asked, Hands
      <4>2. ~Free(sends) => SlotWait + Hold[ordered.kind] + 0 = SlotWait + Hold[ordered.kind]
        BY <2>2, <3>1, WatchFacts, ConstantFacts
      <4> QED
        BY <2>2, <2>3, <3>1, <4>1, <4>2 DEF Hands
    <3>2. CASE Len(sends) = 2
      <4>1. Asked(sends, 0) <=> Asked(sends, waited)
        BY <3>2 DEF Asked
      <4> QED
        BY <1>1, <2>1, <2>2, <2>3, <3>2, <4>1 DEF Hands
    <3> QED
      BY <1>2, <2>1, <3>1, <3>2
  <2> QED
    BY <1>1, <2>1, <2>4 DEF Watching
<1>5. CASE SlotComes \/ SlotFails
  <2>1. /\ waited # Unset /\ sends' = Tail(sends) /\ waited' = Unset
        /\ UNCHANGED <<payload, tested, late, ordered, hold, tilt>>
        /\ up' \in {up, Head(sends).type}
    BY <1>5 DEF SlotComes, SlotFails, Transmitted
  <2>2. Len(sends) = 1 => Holding(hold, tilt, ordered)
    <3>1. Len(sends) = 1 => ~Asked(sends, waited)
      BY <2>1 DEF Asked
    <3> QED
      BY <1>1, <3>1 DEF Hands
  <2>3. /\ Hands(Tail(sends), Unset, hold, tilt, ordered)
        /\ Head(sends).type \in Kinds => ordered.age <= Share(ordered.kind)
    BY <1>1, <2>1, <2>2, HandsAfter
  <2>4. Reach(payload', up', late', ordered')
    BY <2>1, <2>3, TransmittedReaches
  <2> QED
    BY <1>1, <2>1, <2>3, <2>4 DEF Watching
<1> QED
  BY <1>3, <1>4, <1>5

\* A hold that is stopped, or goes on as it is.
LEMMA HeldLess ==
  ASSUME NEW h, NEW t, NEW o, Holding(h, t, o),
         NEW h2, NEW t2, h2.on => h.on /\ h2.left = h.left, t2.on => t.on /\ t2.left = t.left
  PROVE  Holding(h2, t2, o)
  BY DEF Holding

\* Between the handlers the order is at work.
LEMMA IdleHolds ==
  ASSUME Inv, Watching, sends = <<>>
  PROVE  waited = Unset /\ Holding(hold, tilt, ordered) /\ ordered \in OrderType
<1>1. ~Asked(sends, waited) /\ ordered \in OrderType
  BY DEF Asked, Watching
<1> QED
  BY <1>1 DEF Watching, Hands, Inv, LinkTypeOK

\* The repeats go on as long as their hold.
LEMMA LoopWatches ==
  ASSUME Inv, Watching, PollTelemetry \/ NoOrder \/ UpdateManualHold \/ UpdateTiltHold
  PROVE  Watching'
<1>1. /\ hold \in ManualHold /\ tilt \in TiltHold
      /\ ordered \in OrderType /\ Hands(sends, waited, hold, tilt, ordered)
      /\ Reach(payload, up, late, ordered)
  BY DEF Inv, Watching
<1>2. UNCHANGED <<payload, tested, late, up, waited, ordered>>
  BY DEF PollTelemetry, NoOrder, UpdateManualHold, UpdateTiltHold
<1>3. CASE PollTelemetry \/ NoOrder
  BY <1>2, <1>3 DEF PollTelemetry, NoOrder, Watching
<1>4. ASSUME sends = <<>>, Hands(sends', Unset, hold', tilt', ordered) PROVE Watching'
  BY <1>1, <1>2, <1>4, IdleHolds DEF Watching
<1>5. ASSUME sends = <<>>, NEW type \in Command \ Kinds, sends' = <<Message(type)>>,
             Holding(hold', tilt', ordered)
      PROVE  Watching'
  <2>1. Message(type) \in Item /\ ~Message(type).starts /\ Message(type).type \notin Kinds
    BY DEF Message, Item
  <2>2. Hands(sends', Unset, hold', tilt', ordered)
    BY <1>1, <1>5, <2>1, HandsOf
  <2> QED
    BY <1>4, <1>5, <2>2
<1>6. ASSUME sends = <<>>, UNCHANGED sends, Holding(hold', tilt', ordered) PROVE Watching'
  <2>1. Hands(sends', Unset, hold', tilt', ordered)
    BY <1>6, EmptyHands
  <2> QED
    BY <1>4, <1>6, <2>1
<1>7. ASSUME sends = <<>>, NEW type \in Kinds, sends' = <<Message(type)>>,
             Holding(hold', tilt', ordered),
             NEW left \in Nat, left > 0, ordered.kind \in Kinds,
             ordered.age + left <= SlotWait + Hold[ordered.kind]
      PROVE  Watching'
  <2>1. ordered.age \in Nat /\ Hold[ordered.kind] \in Nat
    BY <1>1, <1>7, WatchFacts, AgeCapIsNat DEF OrderType, Age
  <2>2. ordered.age <= SlotWait + Hold[ordered.kind]
    BY <1>7, <2>1, ConstantFacts
  <2>3. Hands(sends', Unset, hold', tilt', ordered)
    BY <1>1, <1>7, <2>2, HandsRepeat
  <2> QED
    BY <1>4, <1>7, <2>3
<1>8. {"STOP_TILT", "NEUTRAL"} \subseteq Command \ Kinds
  BY DEF Command, Remote!Command, Kinds, Remote!Kinds
<1>9. CASE UpdateManualHold
  <2>1. sends = <<>> /\ tilt' = tilt /\ Holding(hold, tilt, ordered)
    BY <1>9, IdleHolds DEF UpdateManualHold
  <2>2. CASE UNCHANGED <<hold, sends>>
    BY <1>6, <2>1, <2>2
  <2>3. CASE hold' = [hold EXCEPT !.on = FALSE, !.bench = FALSE] /\ UNCHANGED sends
    <3>1. ~hold'.on
      BY <1>1, <2>3 DEF ManualHold
    <3>2. Holding(hold', tilt', ordered)
      BY <2>1, <3>1, HeldLess
    <3> QED
      BY <1>6, <2>1, <2>3, <3>2
  <2>4. CASE hold' = [hold EXCEPT !.on = FALSE] /\ sends' = <<Message("NEUTRAL")>>
    <3>1. ~hold'.on
      BY <1>1, <2>4 DEF ManualHold
    <3>2. Holding(hold', tilt', ordered)
      BY <2>1, <3>1, HeldLess
    <3> QED
      BY <1>5, <1>8, <2>1, <2>4, <3>2
  <2>5. CASE /\ hold' = [hold EXCEPT !.rep = 0] /\ hold.on /\ ~(hold.left <= 0)
             /\ sends' = <<Message(IF hold.bench THEN "BENCH_SERVO" ELSE "MANUAL_BRAKE")>>
    <3>1. hold'.on = hold.on /\ hold'.left = hold.left /\ hold.left \in Nat /\ hold.left > 0
      <4>1. hold.left \in Nat /\ hold'.on = hold.on /\ hold'.left = hold.left
        BY <1>1, <2>5 DEF ManualHold
      <4> QED
        BY <4>1, <2>5
    <3>2. Holding(hold', tilt', ordered)
      BY <2>1, <3>1, HeldLess
    <3>3. ordered.kind \in Kinds /\ ordered.age + hold.left <= SlotWait + Hold[ordered.kind]
      BY <2>1, <2>5, <3>1 DEF Holding, Kinds, Remote!Kinds
    <3>4. (IF hold.bench THEN "BENCH_SERVO" ELSE "MANUAL_BRAKE") \in Kinds
      BY DEF Kinds, Remote!Kinds
    <3> QED
      BY <1>7, <2>1, <2>5, <3>1, <3>2, <3>3, <3>4
  <2> QED
    BY <1>9, <2>2, <2>3, <2>4, <2>5 DEF UpdateManualHold
<1>10. CASE UpdateTiltHold
  <2>1. sends = <<>> /\ hold' = hold /\ Holding(hold, tilt, ordered)
    BY <1>10, IdleHolds DEF UpdateTiltHold
  <2>2. CASE UNCHANGED <<tilt, sends>>
    BY <1>6, <2>1, <2>2
  <2>3. CASE tilt' = TiltOff /\ sends' = <<Message("STOP_TILT")>>
    <3>1. ~tilt'.on
      BY <1>1, <2>3 DEF TiltHold, TiltOff
    <3>2. Holding(hold', tilt', ordered)
      BY <2>1, <3>1, HeldLess
    <3> QED
      BY <1>5, <1>8, <2>1, <2>3, <3>2
  <2>4. CASE /\ tilt' = [tilt EXCEPT !.rep = 0] /\ tilt.on /\ ~(tilt.left <= 0)
             /\ sends' = <<Message("START_TILT")>>
    <3>1. tilt'.on = tilt.on /\ tilt'.left = tilt.left /\ tilt.left \in Nat /\ tilt.left > 0
      <4>1. tilt.left \in Nat /\ tilt'.on = tilt.on /\ tilt'.left = tilt.left
        BY <1>1, <2>4 DEF TiltHold
      <4> QED
        BY <4>1, <2>4
    <3>2. Holding(hold', tilt', ordered)
      BY <2>1, <3>1, HeldLess
    <3>3. ordered.kind \in Kinds /\ ordered.age + tilt.left <= SlotWait + Hold[ordered.kind]
      BY <2>1, <2>4, <3>1 DEF Holding, Kinds, Remote!Kinds
    <3>4. "START_TILT" \in Kinds
      BY DEF Kinds, Remote!Kinds
    <3> QED
      BY <1>7, <2>1, <2>4, <3>1, <3>2, <3>3, <3>4
  <2> QED
    BY <1>10, <2>2, <2>3, <2>4 DEF UpdateTiltHold
<1> QED
  BY <1>3, <1>9, <1>10

\* A handler: it leaves the order, or gives a new one.
LEMMA HandlesWatches ==
  ASSUME Inv, Watching, NEW q, NEW m, NEW r, NEW kind, Handles(q, m, r, kind),
         kind = Nothing => Hands(q, Unset, m, r, ordered),
         kind # Nothing => /\ kind \in Kinds \cup {"stop"}
                           /\ Hands(q, Unset, m, r, [kind |-> kind, age |-> 0])
  PROVE  Watching'
<1>1. /\ waited = Unset /\ sends' = q /\ hold' = m /\ tilt' = r
      /\ ordered' = IF kind = Nothing THEN ordered ELSE [kind |-> kind, age |-> 0]
      /\ UNCHANGED <<payload, tested, late, up, waited>>
  BY IdleHolds DEF Handles, Ready
<1>2. CASE kind = Nothing
  BY <1>1, <1>2 DEF Watching
<1>3. CASE kind # Nothing
  <2> DEFINE o == [kind |-> kind, age |-> 0]
  <2>1. o \in OrderType /\ o.kind = kind /\ o.age = 0
    BY <1>3, AgeCapIsNat DEF OrderType, Age
  <2>2. ordered' = o /\ Hands(q, Unset, m, r, o)
    BY <1>1, <1>3
  <2> HIDE DEF o
  <2>3. /\ Share(kind) \in Nat /\ late \in Nat /\ Late \in Nat
        /\ payload.age \in Nat
    BY <1>3, WatchFacts, ConstantFacts DEF Inv, LinkTypeOK
  <2>4. Reach(payload, up, late, o)
    BY <2>1, <2>3 DEF Watching, Reach
  <2> QED
    BY <1>1, <2>1, <2>2, <2>4 DEF Watching
<1> QED
  BY <1>2, <1>3

LEMMA OrdersWatch ==
  ASSUME Inv, Watching, Orders
  PROVE  Watching'
<1>1. hold \in ManualHold /\ tilt \in TiltHold
  BY DEF Inv
<1>2. sends = <<>>
  BY DEF Orders, OrderBench, OrderServo, OrderTilt, OrderTiltStop, OrderNeutral, OrderDisable,
         OrderArm, OrderAbort, OrderTest, OrderOther, Handles, Ready
<1>3. Holding(hold, tilt, ordered) /\ ordered \in OrderType
  BY <1>2, IdleHolds
<1>4. ~TiltOff.on
  BY <1>1 DEF TiltOff, TiltHold
<1>5. /\ [hold EXCEPT !.on = FALSE, !.bench = FALSE].on = FALSE
      /\ \A web \in BOOLEAN :
           /\ [hold EXCEPT !.on = FALSE, !.bench = @ /\ web].on = FALSE
           /\ [hold EXCEPT !.on = FALSE, !.bench = @ /\ ~web].on = FALSE
  BY <1>1 DEF ManualHold
<1> HIDE DEF TiltOff
\* An order to move.
<1>6. ASSUME NEW kind \in Kinds, NEW q, NEW m, NEW r, Handles(q, m, r, kind),
             q = <<Order(kind)>> \/ q = StopFirst \o <<Order(kind)>>
      PROVE  Watching'
  <2> DEFINE o == [kind |-> kind, age |-> 0]
  <2>1. o \in OrderType /\ o.kind = kind /\ o.age = 0
    BY AgeCapIsNat DEF OrderType, Age
  <2>2. Order(kind) \in Item /\ Order(kind).starts /\ Order(kind).type = kind
    BY DEF Order, Item, Command, Remote!Command, Kinds
  <2>3. q = <<Order(kind)>> \/ StoppedFirst(q, Order(kind))
    BY <1>6, <2>2, StopThen
  <2> HIDE DEF o
  <2>4. Hands(q, Unset, m, r, o)
    BY <2>1, <2>2, <2>3, HandsOf
  <2>5. kind # Nothing
    BY WatchFacts
  <2> QED
    BY <1>6, <2>4, <2>5, HandlesWatches DEF o
\* Any other.
<1>7. ASSUME NEW type \in Command \ Kinds, NEW q, NEW m, NEW r, NEW kind \in {Nothing, "stop"},
             Handles(q, m, r, kind),
             q = <<Message(type)>> \/ q = StopFirst \o <<Message(type)>>,
             m.on => kind = Nothing /\ m = hold, r.on => kind = Nothing /\ r = tilt
      PROVE  Watching'
  <2>1. /\ Message(type) \in Item /\ ~Message(type).starts
        /\ Message(type).type \notin Kinds
    BY DEF Message, Item
  <2>2. q = <<Message(type)>> \/ StoppedFirst(q, Message(type))
    BY <1>7, <2>1, StopThen
  <2>3. CASE kind = Nothing
    <3>1. Holding(m, r, ordered)
      BY <1>3, <1>7, HeldLess
    <3>2. Hands(q, Unset, m, r, ordered)
      BY <1>3, <2>1, <2>2, <3>1, HandsOf
    <3> QED
      BY <1>7, <2>3, <3>2, HandlesWatches
  <2>4. CASE kind = "stop"
    <3> DEFINE o == [kind |-> kind, age |-> 0]
    <3>1. o \in OrderType
      BY <2>4, AgeCapIsNat DEF OrderType, Age
    <3>2. kind # Nothing
      BY <2>4 DEF Nothing, Remote!Nothing
    <3> HIDE DEF o
    <3>3. Holding(m, r, o)
      BY <1>7, <3>2 DEF Holding
    <3>4. Hands(q, Unset, m, r, o)
      BY <2>1, <2>2, <3>1, <3>3, HandsOf
    <3> QED
      BY <1>7, <2>4, <3>2, <3>4, HandlesWatches DEF o
  <2> QED
    BY <2>3, <2>4
<1>8. /\ {"STOP_TILT", "NEUTRAL", "DISABLE", "ARM", "ABORT", "TEST", "PING"}
           \subseteq Command \ Kinds
      /\ {"BENCH_SERVO", "MANUAL_BRAKE", "START_TILT"} \subseteq Kinds
  BY DEF Command, Remote!Command, Kinds, Remote!Kinds
<1>9. CASE OrderBench
  BY <1>6, <1>8, <1>9 DEF OrderBench
<1>10. ASSUME NEW web \in BOOLEAN, OrderServo(web) PROVE Watching'
  BY <1>6, <1>8, <1>10 DEF OrderServo
<1>11. ASSUME NEW web \in BOOLEAN, OrderTilt(web) PROVE Watching'
  BY <1>6, <1>8, <1>11 DEF OrderTilt
<1>12. CASE OrderTiltStop
  BY <1>4, <1>7, <1>8, <1>12 DEF OrderTiltStop
<1>13. CASE OrderTest
  BY <1>4, <1>5, <1>7, <1>8, <1>13 DEF OrderTest
<1>14. CASE OrderOther
  BY <1>7, <1>8, <1>14 DEF OrderOther
<1>15. ASSUME NEW web \in BOOLEAN, OrderNeutral(web) PROVE Watching'
  BY <1>4, <1>5, <1>7, <1>8, <1>15 DEF OrderNeutral
<1>16. ASSUME NEW web \in BOOLEAN, OrderDisable(web) PROVE Watching'
  BY <1>4, <1>5, <1>7, <1>8, <1>16 DEF OrderDisable
<1>17. ASSUME NEW web \in BOOLEAN, OrderArm(web) PROVE Watching'
  <2> DEFINE m == IF web THEN [hold EXCEPT !.on = FALSE, !.bench = FALSE] ELSE hold
  <2>1. m.on => m = hold
    BY <1>5
  <2>2. Handles(StopFirst \o <<Message("ARM")>>, m, TiltOff, Nothing)
    BY <1>17 DEF OrderArm
  <2> HIDE DEF m
  <2> QED
    BY <1>4, <1>7, <1>8, <2>1, <2>2
<1>18. ASSUME NEW web \in BOOLEAN, OrderAbort(web) PROVE Watching'
  <2> DEFINE m == [hold EXCEPT !.on = FALSE, !.bench = FALSE]
             r == IF web THEN TiltOff ELSE tilt
             q == (IF web THEN StopFirst ELSE <<>>) \o <<Message("ABORT")>>
  <2>1. ~m.on /\ (r.on => r = tilt)
    BY <1>4, <1>5
  <2>2. <<>> \o <<Message("ABORT")>> = <<Message("ABORT")>>
    <3>1. Message("ABORT") \in Item
      BY <1>8, ItemsAreTyped
    <3>2. <<Message("ABORT")>> \in Seq(Item)
      BY <3>1
    <3> QED
      BY <3>2, ConcatEmptySeq
  <2>3. q = <<Message("ABORT")>> \/ q = StopFirst \o <<Message("ABORT")>>
    BY <2>2
  <2>4. Handles(q, m, r, Nothing)
    BY <1>18 DEF OrderAbort
  <2> HIDE DEF m, r, q
  <2> QED
    BY <1>7, <1>8, <2>1, <2>3, <2>4
<1> QED
  BY <1>9, <1>10, <1>11, <1>12, <1>13, <1>14, <1>15, <1>16, <1>17, <1>18 DEF Orders

LEMMA OlderHolds ==
  ASSUME NEW h \in ManualHold, NEW t \in TiltHold, NEW o \in OrderType, Holding(h, t, o),
         NEW o2 \in OrderType, o2.kind = o.kind, o2.age <= o.age + 1
  PROVE  Holding(HoldLater(h), HoldLater(t), o2)
<1>1. /\ HoldLater(h).on = h.on
      /\ h.on => HoldLater(h).left = IF h.left > 0 THEN h.left - 1 ELSE 0
  BY DEF HoldLater, ManualHold
<1>2. /\ HoldLater(t).on = t.on
      /\ t.on => HoldLater(t).left = IF t.left > 0 THEN t.left - 1 ELSE 0
  BY DEF HoldLater, TiltHold
<1>3. h.left \in Nat /\ t.left \in Nat /\ o.age \in Nat /\ o2.age \in Nat
  BY AgeCapIsNat DEF ManualHold, TiltHold, OrderType, Age
<1>4. o.kind \in Kinds => SlotWait + Hold[o.kind] \in Nat
  BY WatchFacts, ConstantFacts
<1>5. {"MANUAL_BRAKE", "BENCH_SERVO", "START_TILT"} \subseteq Kinds
  BY DEF Kinds, Remote!Kinds
<1> DEFINE max == SlotWait + Hold[o.kind]
<1> HIDE DEF max
<1>6. h.on => /\ o.kind \in {"MANUAL_BRAKE", "BENCH_SERVO"}
              /\ h.left > 0 => o.age + h.left <= max
  BY DEF Holding, max
<1>7. t.on => /\ o.kind = "START_TILT"
              /\ t.left > 0 => o.age + t.left <= max
  BY DEF Holding, max
<1>8. o.kind \in Kinds => max \in Nat
  BY <1>4 DEF max
<1>9. HoldLater(h).on /\ HoldLater(h).left > 0 => o2.age + HoldLater(h).left <= max
  BY <1>1, <1>3, <1>5, <1>6, <1>8
<1>10. HoldLater(t).on /\ HoldLater(t).left > 0 => o2.age + HoldLater(t).left <= max
  BY <1>2, <1>3, <1>5, <1>7, <1>8
<1> QED
  BY <1>1, <1>2, <1>6, <1>7, <1>9, <1>10 DEF Holding, max

LEMMA TickWatches ==
  ASSUME Inv, Watching, Tick
  PROVE  Watching'
<1>1. /\ hold \in ManualHold /\ tilt \in TiltHold /\ ordered \in OrderType
      /\ payload \in Payload /\ late \in 0 .. Late
      /\ waited = Unset \/ waited \in 0 .. SlotWait
  BY DEF Inv, LinkTypeOK, Watching, Payload
<1>2. /\ ordered' \in OrderType /\ ordered'.kind = ordered.kind
      /\ ordered.age \in Nat /\ ordered'.age \in Nat /\ ordered'.age <= ordered.age + 1
  <2>1. ordered.age \in 0 .. AgeCap
    BY <1>1 DEF OrderType, Age
  <2>2. Later(ordered.age, 1) \in 0 .. AgeCap /\ Later(ordered.age, 1) <= ordered.age + 1
    BY <2>1, AgeCapIsNat DEF Later, Unset
  <2>3. ordered' = [ordered EXCEPT !.age = Later(ordered.age, 1)]
    BY DEF Tick
  <2> QED
    BY <1>1, <2>1, <2>2, <2>3, AgeCapIsNat DEF OrderType, Age
<1>3. hold' = HoldLater(hold) /\ tilt' = HoldLater(tilt) /\ sends' = sends /\ up' = up
  BY DEF Tick
<1>4. Holding(hold, tilt, ordered) => Holding(hold', tilt', ordered')
  BY <1>1, <1>2, <1>3, OlderHolds
<1>5. Hands(sends', waited', hold', tilt', ordered')
  <2>1. CASE waited = Unset
    <3>1. sends = <<>>
      BY <2>1 DEF Tick
    <3>2. Holding(hold, tilt, ordered)
      BY <3>1, IdleHolds
    <3> QED
      BY <1>3, <1>4, <3>1, <3>2, EmptyHands
  <2>2. CASE waited # Unset
    <3>1. waited \in Nat /\ waited' = waited + 1 /\ waited' # Unset
      BY <1>1, <2>2, ConstantFacts DEF Tick, GivesUp, Later, Unset
    <3>2. Sofar(waited) = waited /\ Sofar(waited') = waited + 1
      BY <2>2, <3>1 DEF Sofar
    <3>3. Asked(sends', waited') <=> Asked(sends, waited)
      BY <1>3, <2>2, <3>1 DEF Asked
    <3>4. Hands(sends, waited, hold, tilt, ordered)
      BY DEF Watching
    <3>5. Shape(sends', ordered'.kind)
      BY <1>2, <1>3, <3>4 DEF Hands
    <3>6. CASE Asked(sends, waited)
      <4>1. Len(sends) = 2
        <5>1. Len(sends) \in Nat /\ Len(sends) <= 2 /\ Len(sends) # 0 /\ Len(sends) # 1
          BY <2>2, <3>4, <3>6 DEF Asked, Hands, Shape, Inv, Queue
        <5>2. \A n \in Nat : n <= 2 /\ n # 0 /\ n # 1 => n = 2
          OBVIOUS
        <5> QED
          BY <5>1, <5>2
      <4>2. ordered.age <= waited
        BY <3>2, <3>4, <3>6, <4>1 DEF Hands
      <4>3. ordered'.age <= waited + 1
        BY <1>2, <3>1, <4>2
      <4> QED
        BY <1>3, <3>2, <3>3, <3>5, <3>6, <4>1, <4>3 DEF Hands
    <3>7. CASE ~Asked(sends, waited)
      <4>1. Holding(hold', tilt', ordered')
        BY <1>4, <3>4, <3>7 DEF Hands
      <4>2. ASSUME ~Free(sends)
            PROVE  /\ ordered.kind \in Kinds
                   /\ ordered'.age <= SlotWait + Hold[ordered.kind] + (waited + 1)
        <5>1. ordered.kind \in Kinds /\ ordered.age <= SlotWait + Hold[ordered.kind] + waited
          BY <3>2, <3>4, <3>7, <4>2 DEF Hands
        <5>2. Hold[ordered.kind] \in Nat
          BY <5>1, WatchFacts
        <5> QED
          BY <1>2, <3>1, <5>1, <5>2, ConstantFacts
      <4> QED
        BY <1>2, <1>3, <3>2, <3>3, <3>5, <3>7, <4>1, <4>2 DEF Hands
    <3> QED
      BY <3>6, <3>7
  <2> QED
    BY <2>1, <2>2
<1>6. Reach(payload', up', late', ordered')
  <2>1. late' = late + 1 /\ Share(ordered.kind) \in Nat
    BY <1>1, WatchFacts DEF Tick, OrderType
  <2>2. payload' = payload
    BY DEF Tick
  <2>3. Reach(payload, up, late, ordered)
    BY DEF Watching
  <2>4. payload'.enabled /\ up' \in Kinds => ordered'.age <= Share(ordered'.kind) + late'
    BY <1>1, <1>2, <1>3, <2>1, <2>2, <2>3, ConstantFacts DEF Reach
  <2>5. ASSUME payload'.move # Nothing
        PROVE  /\ payload'.age < Timeout[payload'.move]
               /\ ordered'.age <= Share(ordered'.kind) + Late + payload'.age + late'
    <3>1. /\ payload.age < Timeout[payload.move]
          /\ ordered.age <= Share(ordered.kind) + Late + payload.age + late
          /\ payload.age \in Nat
      BY <1>1, <2>2, <2>3, <2>5 DEF Reach, Payload
    <3> QED
      BY <1>1, <1>2, <2>1, <2>2, <2>5, <3>1, ConstantFacts
  <2> QED
    BY <2>4, <2>5 DEF Reach
<1> QED
  BY <1>2, <1>5, <1>6 DEF Watching

LEMMA WatchStarts == LinkInit => Watching
<1> SUFFICES ASSUME LinkInit PROVE Watching
  OBVIOUS
<1>1. ordered \in OrderType /\ Holding(hold, tilt, ordered)
  BY AgeCapIsNat DEF LinkInit, OrderType, Age, Holding
<1>2. Hands(sends, waited, hold, tilt, ordered)
  BY <1>1, EmptyHands DEF LinkInit
<1>3. Reach(payload, up, late, ordered)
  BY WatchFacts, RestTyped DEF LinkInit, Reach, Remote!MovesInit
<1> QED
  BY <1>1, <1>2, <1>3 DEF Watching

LEMMA WatchKeeps == Inv /\ Watching /\ [LinkNext]_linkVars => Watching'
<1>1. Watching /\ UNCHANGED linkVars => Watching'
  BY DEF Watching, linkVars, groundVars
<1> QED
  BY <1>1, PayloadWatches, RadioWatches, LoopWatches, OrdersWatch, TickWatches
     DEF LinkNext, GroundStep

-----------------------------------------------------------------------------
(* How long a handler sends: the wait it is in, and one before it if it has     *)
(* sent, or given up, its STOP.                                              *)

Sending ==
  /\ busy \in Nat
  /\ sends = <<>> => busy = 0
  /\ Len(sends) = 2 => busy <= Sofar(waited)
  /\ sends # <<>> => busy <= SlotWait + Sofar(waited)

LEMMA SofarFacts ==
  Inv /\ Watching => /\ Sofar(waited) \in 0 .. SlotWait /\ Sofar(Unset) = 0
                     /\ sends \in Seq(Item) /\ Len(sends) \in {0, 1, 2}
<1> SUFFICES ASSUME Inv, Watching
             PROVE  /\ Sofar(waited) \in 0 .. SlotWait /\ Sofar(Unset) = 0
                    /\ sends \in Seq(Item) /\ Len(sends) \in {0, 1, 2}
  OBVIOUS
<1>1. Sofar(waited) \in 0 .. SlotWait /\ Sofar(Unset) = 0
  BY ConstantFacts DEF Inv, LinkTypeOK, Sofar
<1>2. sends \in Seq(Item) /\ Len(sends) <= 2
  BY DEF Inv, Queue, Watching, Hands, Shape
<1>3. Len(sends) \in Nat
  BY <1>2
<1>4. \A n \in Nat : n <= 2 => n \in {0, 1, 2}
  OBVIOUS
<1> QED
  BY <1>1, <1>2, <1>3, <1>4

\* Where a handler begins, and between the handlers, nothing was sent yet.
LEMMA IdleSends ==
  ASSUME Sending, sends = <<>>, busy' = busy, Sofar(waited)' \in Nat
  PROVE  Sending'
BY ConstantFacts DEF Sending

\* The head of the queue is sent, or given up.
LEMMA SentSends ==
  ASSUME Inv, Watching, Sending, sends # <<>>, sends' = Tail(sends), waited' = Unset,
         busy' = IF sends' = <<>> THEN 0 ELSE busy
  PROVE  Sending'
<1>1. /\ Sofar(waited) \in 0 .. SlotWait /\ Sofar(waited)' = 0
      /\ sends \in Seq(Item) /\ Len(sends) \in {1, 2}
  <2>1. sends \in Seq(Item) /\ Len(sends) \in {0, 1, 2}
    BY SofarFacts
  <2>2. Len(sends) # 0
    BY <2>1
  <2>3. Sofar(waited)' = 0
    BY DEF Sofar
  <2> QED
    BY <2>1, <2>2, <2>3, SofarFacts
<1>2. Len(sends') = Len(sends) - 1 /\ sends' \in Seq(Item)
  BY <1>1
<1>3. CASE sends' = <<>>
  <2>1. busy' = 0 /\ Len(sends') = 0
    BY <1>3
  <2> QED
    BY <1>3, <2>1 DEF Sending
<1>4. CASE sends' # <<>>
  <2>1. Len(sends') # 0
    BY <1>2, <1>4
  <2>2. Len(sends) = 2 /\ Len(sends') = 1
    BY <1>1, <1>2, <2>1
  <2>3. busy' = busy /\ busy \in Nat /\ busy <= Sofar(waited)
    BY <1>4, <2>2 DEF Sending
  <2>4. busy' <= SlotWait + 0
    BY <1>1, <2>3, ConstantFacts
  <2> QED
    BY <1>1, <1>4, <2>2, <2>3, <2>4 DEF Sending
<1> QED
  BY <1>3, <1>4

LEMMA TickSends ==
  ASSUME Inv, Watching, Sending, Tick
  PROVE  Sending'
<1>1. sends' = sends /\ Sofar(waited) \in 0 .. SlotWait
  BY SofarFacts DEF Tick
<1>2. CASE sends = <<>>
  <2>1. busy' = busy /\ waited = Unset /\ waited' = waited
    BY <1>2 DEF Tick, Inv, LinkTypeOK
  <2>2. Sofar(waited)' \in Nat
    BY <2>1 DEF Sofar
  <2> QED
    BY <1>2, <2>1, <2>2, IdleSends
<1>3. CASE sends # <<>>
  <2>1. waited # Unset /\ waited \in 0 .. SlotWait
    BY <1>3 DEF Tick, Inv, LinkTypeOK
  <2>2. waited' = waited + 1 /\ waited' # Unset
    BY <2>1, ConstantFacts DEF Tick, GivesUp, Later, Unset
  <2>3. Sofar(waited) = waited /\ Sofar(waited)' = waited + 1
    BY <2>1, <2>2 DEF Sofar
  <2>4. busy \in Nat /\ busy' \in Nat /\ busy' <= busy + 1
    <3>1. busy \in Nat /\ busy' = Later(busy, 1)
      BY <1>3 DEF Sending, Tick
    <3> QED
      BY <3>1, AgeCapIsNat DEF Later, Unset
  <2>5. Len(sends) = 2 => busy' <= waited + 1
    BY <2>1, <2>3, <2>4 DEF Sending
  <2>6. busy' <= SlotWait + (waited + 1)
    BY <1>3, <2>1, <2>3, <2>4, ConstantFacts DEF Sending
  <2> QED
    BY <1>1, <1>3, <2>3, <2>4, <2>5, <2>6 DEF Sending
<1> QED
  BY <1>2, <1>3

LEMMA SendingStarts == LinkInit => Sending
BY ConstantFacts DEF LinkInit, Sending

LEMMA SendingKeeps == Inv /\ Watching /\ Sending /\ [LinkNext]_linkVars => Sending'
<1> SUFFICES ASSUME Inv, Watching, Sending, [LinkNext]_linkVars PROVE Sending'
  OBVIOUS
<1>1. CASE UNCHANGED <<sends, waited, busy>>
  BY <1>1 DEF Sending, Sofar
<1>2. UNCHANGED linkVars => UNCHANGED <<sends, waited, busy>>
  BY DEF linkVars, groundVars
<1>3. PayloadPolls \/ PayloadRestarts \/ SendTelemetry \/ PollTelemetry
        => UNCHANGED <<sends, waited, busy>>
  BY DEF PayloadPolls, PayloadRestarts, SendTelemetry, PollTelemetry, groundVars
<1>4. sends = <<>> => waited = Unset
  BY DEF Inv, LinkTypeOK
<1>5. ASSUME sends = <<>>, UNCHANGED <<waited, busy>> PROVE Sending'
  <2>1. Sofar(waited)' \in Nat
    BY <1>4, <1>5 DEF Sofar
  <2> QED
    BY <1>5, <2>1, IdleSends
<1>6. NoOrder \/ UpdateManualHold \/ UpdateTiltHold => sends = <<>> /\ UNCHANGED <<waited, busy>>
  BY DEF NoOrder, UpdateManualHold, UpdateTiltHold
<1>7. Orders => sends = <<>> /\ UNCHANGED <<waited, busy>>
  BY DEF Orders, OrderBench, OrderTiltStop, OrderTest, OrderOther, OrderServo, OrderTilt,
         OrderNeutral, OrderDisable, OrderArm, OrderAbort, Handles, Ready
<1>8. CASE SendNow \/ SlotComes \/ SlotFails
  <2>1. /\ sends # <<>> /\ sends' = Tail(sends) /\ waited' = Unset
        /\ busy' = IF sends' = <<>> THEN 0 ELSE busy
    BY <1>4, <1>8 DEF SendNow, SlotComes, SlotFails, Transmitted
  <2> QED
    BY <2>1, SentSends
<1>9. CASE AwaitSlot
  <2>1. UNCHANGED <<sends, busy>> /\ waited = Unset /\ waited' = 0
    BY <1>9 DEF AwaitSlot
  <2>2. Sofar(waited) = 0 /\ Sofar(waited)' = 0
    BY <2>1 DEF Sofar
  <2> QED
    BY <2>1, <2>2 DEF Sending
<1> QED
  BY <1>1, <1>2, <1>3, <1>5, <1>6, <1>7, <1>8, <1>9, TickSends DEF LinkNext, GroundStep

-----------------------------------------------------------------------------
(* The theorems.                                                            *)

\* The inductive invariant: a handler's movement is its last message, and none is
\* queued behind the one that slipped through.
THEOREM Invariance == LinkSpec => []Inv
  BY InitHolds, StepPreserves, PTL DEF LinkSpec

\* Types of both ends; the ground station never holds two movements at a time.
THEOREM TypeCorrect == LinkSpec => []LinkTypeOK
<1>1. Inv => LinkTypeOK
  BY DEF Inv
<1> QED
  BY <1>1, Invariance, PTL

\* Once the ground station saw a recording, at most the movement that was waiting
\* for the frame still goes out (sendCommand, updateManualHold, updateTiltHold).
THEOREM RecordingStops == LinkSpec => []RecordingStopsMoves
<1>1. Inv => RecordingStopsMoves
  BY DEF Inv, RecordingStopsMoves
<1> QED
  BY <1>1, Invariance, PTL

\* The inductive invariant behind MovementsHaveAnOperator: how old an order may be
\* wherever it, or what it moves, still is.
THEOREM OrdersAge == LinkSpec => []Watching
  BY Invariance, WatchStarts, WatchKeeps, PTL DEF LinkSpec

\* A movement on the payload has a recent order of the operator behind it, however
\* the two loops, the waits and the losses interleave (updateManualHold,
\* updateTiltHold, updateLoRaRemoteControl); one that the operator stopped ends by
\* itself, if the stop is lost.
THEOREM OperatorMoves == LinkSpec => []MovementsHaveAnOperator
<1>1. Inv /\ Watching => MovementsHaveAnOperator
  <2> SUFFICES ASSUME Inv, Watching, payload.move # Nothing
               PROVE  IF ordered.kind = "stop"
                      THEN ordered.age <= 2 * Late + Timeout[payload.move]
                      ELSE ordered.age <= 2 * SlotWait + Hold[ordered.kind] + 2 * Late
                                          + Timeout[payload.move]
    BY DEF MovementsHaveAnOperator
  <2>1. /\ payload.age < Timeout[payload.move]
        /\ ordered.age <= Share(ordered.kind) + Late + payload.age + late
    BY DEF Watching, Reach
  <2>2. /\ payload.age \in Nat /\ payload.move \in Kinds /\ late \in 0 .. Late
        /\ ordered.age \in Nat /\ ordered.kind \in Kinds \cup {"stop"}
    BY AgeCapIsNat DEF Inv, LinkTypeOK, Watching, OrderType, Age
  <2>3. Timeout[payload.move] \in Nat /\ Share(ordered.kind) \in Nat
    BY <2>2, WatchFacts
  <2>4. ordered.age <= Share(ordered.kind) + 2 * Late + Timeout[payload.move]
    BY <2>1, <2>2, <2>3, ConstantFacts
  <2>5. CASE ordered.kind = "stop"
    BY <2>4, <2>5, <2>3, ConstantFacts DEF Share
  <2>6. CASE ordered.kind \in Kinds
    <3>1. Hold[ordered.kind] \in Nat /\ ordered.kind # "stop"
      BY <2>6, WatchFacts
    <3> QED
      BY <2>3, <2>4, <3>1, ConstantFacts DEF Share
  <2> QED
    BY <2>2, <2>5, <2>6
<1> QED
  BY <1>1, Invariance, OrdersAge, PTL
\* A handler of the ground station is back in its loop after two waits for the slot,
\* whatever is lost (awaitPayloadReceiveSlot): it sends a STOP and a message at most.
THEOREM HandlersReturn == LinkSpec => []SendsReturn
<1>1. Inv /\ Watching /\ Sending => SendsReturn
  <2> SUFFICES ASSUME Inv, Watching, Sending PROVE busy <= 2 * SlotWait
    BY DEF SendsReturn
  <2>1. Sofar(waited) \in 0 .. SlotWait
    BY SofarFacts
  <2> QED
    BY <2>1, ConstantFacts DEF Sending
<1> QED
  BY <1>1, Invariance, OrdersAge, SendingStarts, SendingKeeps, PTL DEF LinkSpec
=============================================================================
