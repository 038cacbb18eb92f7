-------------------------------- MODULE Link --------------------------------
(***************************************************************************)
(* The ground station's hold on the payload: the commands of its operator,   *)
(* by serial line or dashboard, and their repeats (main.cpp of the ground     *)
(* station, "MG"), through the half-duplex radio, to the movements of the     *)
(* payload (sendTelemetry and comms/lora.cpp; what its commands do is          *)
(* RemoteMoves, which Payload implements).                                    *)
(*                                                                          *)
(* The ground station is one loop that blocks: a command waits for the next   *)
(* frame of the payload, which it polls itself, so that what was checked      *)
(* before the wait may have changed when the command goes out.  Either radio  *)
(* keeps what it received last until it is polled; anything may be lost.      *)
(* Time passes in units; what is fresh for the command slot is what was       *)
(* received within the unit and not followed by a transmission.               *)
(***************************************************************************)
EXTENDS Ages, Sequences

CONSTANTS
  Interval,      \* between two frames (TELEMETRY_RATE_HZ, DROP_TEST_TELEMETRY_RATE_HZ)
  IdleInterval,  \* the same after a test (DROP_TEST_IDLE_TELEMETRY_RATE_HZ)
  SlotWait,      \* COMMAND_SLOT_WAIT_MS
  Repeat,        \* COMMAND_REPEAT_INTERVAL_MS
  Hold,          \* MANUAL_HOLD_MS, BENCH_HOLD_MS, TILT_TEST_HOLD_MS
  Timeout,       \* how long each movement lasts on the payload
  Late,          \* the longest time between two polls of the payload
  MaxOrders      \* bound: orders of the operator in a behaviour

VARIABLES
  payload,   \* as RemoteMoves has it, at the clock of its last poll
  tested,    \* drop_test_id # 0
  late,      \* time since the payload polled its radio
  since,     \* time since its last frame
  up, down,  \* what the radios of the payload and of the ground station hold
  seen,      \* telemetry: is it fresh for the command slot, and recording
  hold,      \* manual_hold
  tilt,      \* tilt_hold
  at,        \* where loop() of the ground station is
  sends,     \* what the handler it is in has yet to send
  waited,    \* time in awaitPayloadReceiveSlot, Unset outside
  busy,      \* history: how long the handler it is in has been sending
  ordered,   \* history: the last order to move or to stop, and its age
  strays,    \* history: movements sent since a recording was seen
  orders     \* bound

groundVars  == <<seen, hold, tilt, at, sends, waited, busy, ordered, strays, orders>>
linkVars    == <<payload, tested, late, since, up, down, groundVars>>

Remote == INSTANCE RemoteMoves WITH Delays <- 0 .. Late

Kinds   == Remote!Kinds
Command == Remote!Command
Nothing == Remote!Nothing

ASSUME LinkAssumption ==
  /\ {Interval, IdleInterval, SlotWait, Repeat, Late} \subseteq Nat \ {0} /\ MaxOrders \in Nat
  /\ Hold \in [Kinds -> Nat \ {0}] /\ Timeout \in [Kinds -> Nat \ {0}]
  /\ \A k \in Kinds : 2 * SlotWait + Hold[k] + 2 * Late + Timeout[k] < AgeCap

\* The command of an order starts the order's hold, if it has one.
Order(type)   == [type |-> type, starts |-> TRUE]
Message(type) == [type |-> type, starts |-> FALSE]

-----------------------------------------------------------------------------
(* The payload.                                                             *)

\* telemetryIntervalMs
IntervalNow == IF tested /\ ~payload.recording THEN IdleInterval ELSE Interval

\* pollRemoteCommand and its command, in an iteration of the payload.
PayloadPolls ==
  LET type == IF payload.enabled THEN up ELSE Nothing
  IN  /\ \E accepts, ends, shut \in BOOLEAN :
           /\ Remote!Iterate(late, type, accepts, ends, shut)
           /\ tested' = (tested \/ (type = "ARM" /\ accepts /\ ~payload.recording))
      /\ up' = IF payload.enabled THEN Nothing ELSE up
      /\ late' = 0 /\ UNCHANGED <<since, down, groundVars>>

\* setup() of the payload: its first frame is due at once.
PayloadRestarts ==
  /\ Remote!Restart /\ tested' = FALSE
  /\ late' = 0 /\ since' = IdleInterval /\ up' = Nothing
  /\ UNCHANGED <<down, groundVars>>

\* sendTelemetry: a command that was received goes before the frame, which is
\* then skipped; a frame that was sent may be lost.
SendTelemetry ==
  /\ since >= IntervalNow /\ since' = 0
  /\ \/ up = Nothing /\ down' = IF payload.recording THEN "recording" ELSE "idle"
     \/ UNCHANGED down
  /\ UNCHANGED <<payload, tested, late, up, groundVars>>

-----------------------------------------------------------------------------
(* The radio of the ground station.                                          *)

Pending == down # Nothing

\* pollTelemetry, when a frame is pending.
Polled == [fresh |-> TRUE, recording |-> down = "recording"]
StraysAfter(s) == IF s.recording THEN strays ELSE 0

\* Before the wait for the slot, the order's hold begins.
Begun(kind) ==
  /\ hold' = IF kind \in {"MANUAL_BRAKE", "BENCH_SERVO"}
             THEN [hold EXCEPT !.on = TRUE, !.left = Hold[kind],
                               !.rep = IF kind = "BENCH_SERVO" THEN 0 ELSE Repeat]
             ELSE hold
  /\ tilt' = IF kind = "START_TILT" THEN [on |-> TRUE, left |-> Hold[kind], rep |-> 0] ELSE tilt

\* radio.transmit: what the payload's radio holds is overwritten, if it hears.
Transmitted(s) ==
  /\ up' \in {up, Head(sends).type}
  /\ sends' = Tail(sends) /\ waited' = Unset /\ busy' = IF sends' = <<>> THEN 0 ELSE busy
  /\ seen' = [s EXCEPT !.fresh = FALSE]
  /\ strays' = StraysAfter(s) + (IF s.recording /\ Head(sends).type \in Kinds THEN 1 ELSE 0)

\* sendCommand: at once when a frame has just been polled.
SendNow ==
  /\ sends # <<>> /\ waited = Unset /\ seen.fresh
  /\ IF Head(sends).starts THEN Begun(Head(sends).type) ELSE UNCHANGED <<hold, tilt>>
  /\ Transmitted(seen)
  /\ UNCHANGED <<payload, tested, late, since, down, at, ordered, orders>>

AwaitSlot ==
  /\ sends # <<>> /\ waited = Unset /\ ~seen.fresh
  /\ IF Head(sends).starts THEN Begun(Head(sends).type) ELSE UNCHANGED <<hold, tilt>>
  /\ waited' = 0
  /\ UNCHANGED <<payload, tested, late, since, up, down, seen, at, sends, busy, ordered, strays,
                 orders>>

\* awaitPayloadReceiveSlot sees the next frame.
SlotComes ==
  /\ waited # Unset /\ Pending
  /\ down' = Nothing /\ Transmitted(Polled)
  /\ UNCHANGED <<payload, tested, late, since, hold, tilt, at, ordered, orders>>

\* A plausible fault: a wait without an end.
NeverGivesUp == FALSE

\* The end of the wait.
GivesUp == waited >= SlotWait

SlotFails ==
  /\ waited # Unset /\ ~Pending /\ GivesUp
  /\ sends' = Tail(sends) /\ waited' = Unset /\ busy' = IF sends' = <<>> THEN 0 ELSE busy
  /\ UNCHANGED <<payload, tested, late, since, up, down, seen, hold, tilt, at, ordered, strays, orders>>

-----------------------------------------------------------------------------
(* loop() of the ground station.                                             *)

PollTelemetry ==
  /\ at = "poll" /\ at' = "order"
  /\ IF Pending THEN /\ seen' = Polled /\ down' = Nothing /\ strays' = StraysAfter(Polled)
     ELSE UNCHANGED <<seen, down, strays>>
  /\ UNCHANGED <<payload, tested, late, since, up, hold, tilt, sends, waited, busy, ordered,
                 orders>>

\* stopTiltHold(true) sends a STOP only when there was something to stop.
StopFirst == IF tilt.on THEN <<Message("STOP_TILT")>> ELSE <<>>

\* stopTiltHold
TiltOff == [tilt EXCEPT !.on = FALSE]

Ready == at = "order" /\ sends = <<>> /\ orders < MaxOrders

\* What a handler does: it sends, after it has changed the holds.
Handles(messages, manual, roll, kind) ==
  /\ Ready /\ orders' = orders + 1 /\ at' = "manual"
  /\ sends' = messages /\ hold' = manual /\ tilt' = roll
  /\ ordered' = IF kind = Nothing THEN ordered ELSE [kind |-> kind, age |-> 0]
  /\ UNCHANGED <<payload, tested, late, since, up, down, seen, waited, busy, strays>>

\* "bench"
OrderBench ==
  ~seen.recording /\ Handles(StopFirst \o <<Order("BENCH_SERVO")>>,
                             [hold EXCEPT !.bench = TRUE], TiltOff, "BENCH_SERVO")

\* "servo": the dashboard leaves bench_mode as it is.
OrderServo(web) ==
  ~seen.recording /\ Handles(StopFirst \o <<Order("MANUAL_BRAKE")>>,
                             [hold EXCEPT !.bench = @ /\ web], TiltOff, "MANUAL_BRAKE")

\* "tiltstart"
OrderTilt(web) ==
  ~seen.recording /\ Handles(<<Order("START_TILT")>>,
                             [hold EXCEPT !.on = FALSE, !.bench = @ /\ ~web], tilt, "START_TILT")

\* "tiltstop"
OrderTiltStop == Handles(<<Message("STOP_TILT")>>, hold, TiltOff, Nothing)

\* "neutral"
OrderNeutral(web) ==
  Handles(<<Message("NEUTRAL")>>, [hold EXCEPT !.on = FALSE, !.bench = @ /\ web], TiltOff, "stop")

\* "disable"
OrderDisable(web) ==
  Handles(StopFirst \o <<Message("DISABLE")>>,
          [hold EXCEPT !.on = FALSE, !.bench = @ /\ web], TiltOff, "stop")

\* "armdrop" of the serial line leaves the manual hold, its "abortdrop" the tilt
\* test; the dashboard's stop both.
OrderArm(web) ==
  Handles(StopFirst \o <<Message("ARM")>>,
          IF web THEN [hold EXCEPT !.on = FALSE, !.bench = FALSE] ELSE hold, TiltOff, Nothing)

OrderAbort(web) ==
  Handles((IF web THEN StopFirst ELSE <<>>) \o <<Message("ABORT")>>,
          [hold EXCEPT !.on = FALSE, !.bench = FALSE], IF web THEN TiltOff ELSE tilt, Nothing)

\* "startneutral", "guidedprepare" and "retracttest": the payload keeps, or stops,
\* what moves; their own movements end on the payload.
OrderTest ==
  Handles(StopFirst \o <<Message("TEST")>>, [hold EXCEPT !.on = FALSE, !.bench = FALSE],
          TiltOff, Nothing)

\* "ping", "logindex", "target" and "home": nothing changes but the radio.
OrderOther == Handles(<<Message("PING")>>, hold, tilt, Nothing)

NoOrder ==
  /\ at = "order" /\ sends = <<>> /\ at' = "manual"
  /\ UNCHANGED <<payload, tested, late, since, up, down, seen, hold, tilt, sends, waited, busy,
                 ordered, strays, orders>>

\* A plausible fault: repeats go on during a recording.
NeverLocked == FALSE

\* The repeats stop once a recording was seen.
Locked == seen.recording

\* updateManualHold
UpdateManualHold ==
  /\ at = "manual" /\ sends = <<>> /\ at' = "tilt"
  /\ IF ~hold.on THEN UNCHANGED <<hold, sends>>
     ELSE IF Locked THEN hold' = [hold EXCEPT !.on = FALSE, !.bench = FALSE] /\ UNCHANGED sends
     ELSE IF hold.left <= 0
          THEN hold' = [hold EXCEPT !.on = FALSE] /\ sends' = <<Message("NEUTRAL")>>
     ELSE IF hold.rep >= Repeat
          THEN /\ hold' = [hold EXCEPT !.rep = 0]
               /\ sends' = <<Message(IF hold.bench THEN "BENCH_SERVO" ELSE "MANUAL_BRAKE")>>
     ELSE UNCHANGED <<hold, sends>>
  /\ UNCHANGED <<payload, tested, late, since, up, down, seen, tilt, waited, busy, ordered,
                 strays, orders>>

\* updateTiltHold
UpdateTiltHold ==
  /\ at = "tilt" /\ sends = <<>> /\ at' = "poll"
  /\ IF ~tilt.on THEN UNCHANGED <<tilt, sends>>
     ELSE IF seen.recording \/ tilt.left <= 0
          THEN tilt' = TiltOff /\ sends' = <<Message("STOP_TILT")>>
     ELSE IF tilt.rep >= Repeat
          THEN tilt' = [tilt EXCEPT !.rep = 0] /\ sends' = <<Message("START_TILT")>>
     ELSE UNCHANGED <<tilt, sends>>
  /\ UNCHANGED <<payload, tested, late, since, up, down, seen, hold, waited, busy, ordered,
                 strays, orders>>

-----------------------------------------------------------------------------
(* Time.  A handler reaches the wait without delay, the wait looks for a frame  *)
(* and at its deadline all the time, and the payload polls in time.           *)

HoldLater(h) ==
  IF h.on THEN [h EXCEPT !.left = IF @ > 0 THEN @ - 1 ELSE 0,
                         !.rep = IF @ < Repeat THEN @ + 1 ELSE @] ELSE h

Tick ==
  /\ late < Late /\ late' = late + 1
  /\ IF waited = Unset THEN sends = <<>> /\ UNCHANGED waited
     ELSE ~Pending /\ ~GivesUp /\ waited' = Later(waited, 1)
  /\ busy' = IF sends = <<>> THEN busy ELSE Later(busy, 1)
  /\ since' = IF since < IdleInterval THEN since + 1 ELSE since
  /\ seen' = [seen EXCEPT !.fresh = FALSE]
  /\ hold' = HoldLater(hold) /\ tilt' = HoldLater(tilt)
  /\ ordered' = [ordered EXCEPT !.age = Later(@, 1)]
  /\ UNCHANGED <<payload, tested, up, down, at, sends, strays, orders>>

LinkInit ==
  /\ Remote!MovesInit /\ tested = FALSE
  /\ late = 0 /\ since = IdleInterval /\ up = Nothing /\ down = Nothing
  /\ seen = [fresh |-> FALSE, recording |-> FALSE]
  /\ hold = [on |-> FALSE, bench |-> FALSE, left |-> 0, rep |-> 0]
  /\ tilt = [on |-> FALSE, left |-> 0, rep |-> 0]
  /\ at = "poll" /\ sends = <<>> /\ waited = Unset /\ busy = 0
  /\ ordered = [kind |-> "stop", age |-> AgeCap] /\ strays = 0 /\ orders = 0

Orders ==
  \/ OrderBench \/ OrderTiltStop \/ OrderTest \/ OrderOther
  \/ \E web \in BOOLEAN :
       \/ OrderServo(web) \/ OrderTilt(web) \/ OrderNeutral(web) \/ OrderDisable(web)
       \/ OrderArm(web) \/ OrderAbort(web)

GroundStep ==
  \/ SendNow \/ AwaitSlot \/ SlotComes \/ SlotFails
  \/ PollTelemetry \/ NoOrder \/ UpdateManualHold \/ UpdateTiltHold

LinkNext == PayloadPolls \/ PayloadRestarts \/ SendTelemetry \/ GroundStep \/ Orders \/ Tick

LinkSpec == LinkInit /\ [][LinkNext]_linkVars

-----------------------------------------------------------------------------
(* Properties.                                                              *)

\* Every variable has its type; one hold is on at a time.
LinkTypeOK ==
  /\ payload \in [recording : BOOLEAN, enabled : BOOLEAN, move : Kinds \cup {Nothing}, age : Nat]
  /\ tested \in BOOLEAN
  /\ late \in 0 .. Late /\ since \in 0 .. IdleInterval
  /\ up \in Command \cup {Nothing} /\ down \in {Nothing, "idle", "recording"}
  /\ \A i \in DOMAIN sends : sends[i].type \in Command
  /\ waited = Unset \/ (waited \in 0 .. SlotWait /\ sends # <<>>)
  /\ ~(hold.on /\ tilt.on)

\* From hand to servo: a movement on the payload is at most as old as its
\* operator's order, one wait before it, the hold, a wait begun within it, two
\* polls and the timeout together; and after "neutral" or "disable", whatever of
\* them was lost, it ends within the polls and the timeout (MG:708, 734, 747).
MovementsHaveAnOperator ==
  payload.move # Nothing =>
    IF ordered.kind = "stop" THEN ordered.age <= 2 * Late + Timeout[payload.move]
    ELSE ordered.age <= 2 * SlotWait + Hold[ordered.kind] + 2 * Late + Timeout[payload.move]

\* A recording that was seen stops the movements: at most the one that was waiting
\* for the frame still goes out (MG:710, 749).
RecordingStopsMoves == strays <= 1

\* The ground station never hangs on the radio: whatever is lost, each handler has
\* sent its STOP and its message, and its operator is heard again, after two waits
\* for the slot (MG:437).
SendsReturn == busy <= 2 * SlotWait
=============================================================================
