----------------------------- MODULE RemoteMoves -----------------------------
(***************************************************************************)
(* What the payload promises to whoever holds the other end of its radio     *)
(* link: which command starts, refreshes and stops a movement of the         *)
(* servos, and how long one lasts without another command.  The gates, the   *)
(* phases of the flight, the test controllers and the stages of a drop test  *)
(* appear as choices.  Payload implements this specification, and Link       *)
(* composes it with the ground station.                                      *)
(*                                                                          *)
(* A step is an iteration of the payload that polls its radio: ages are      *)
(* taken at the clock of that poll.                                         *)
(***************************************************************************)
EXTENDS Integers

CONSTANTS
  Timeout,   \* how long each movement lasts after its last command
  Delays     \* the possible times between two polls

Kinds == {"MANUAL_BRAKE", "BENCH_SERVO", "START_TILT"}

Command == Kinds \cup {"NEUTRAL", "STOP_TILT", "ARM", "ABORT", "DISABLE", "TEST", "PING"}
Nothing == "nothing"

VARIABLE payload   \* recording, runtime enabled, the movement and its age

AtRest == [recording |-> FALSE, enabled |-> TRUE, move |-> Nothing, age |-> 0]

\* A movement begins, or begins again.
Moved(p, kind)  == [p EXCEPT !.move = kind, !.age = 0]
Resting(p)      == Moved(p, Nothing)
Recorded(p, on) == [p EXCEPT !.recording = on]
Disabled(p)     == [p EXCEPT !.enabled = FALSE]

Aged(p, dt) == IF p.move = Nothing THEN p ELSE [p EXCEPT !.age = @ + dt]

\* A plausible fault: only the next command ends a movement.
LastsOn(p) == p

\* updateLoRaRemoteControl: what has timed out ends before a command is read.
MovesExpired(p) ==
  IF p.move # Nothing /\ p.age >= Timeout[p.move] THEN Resting(p) ELSE p

Stopped(p, kinds) == IF p.move \in kinds THEN Resting(p) ELSE p

\* The command takes effect; accepts: the gates of the payload are open.
Obeyed(p, type, accepts) ==
  CASE type \in Kinds ->
         IF accepts /\ ~p.recording THEN Moved(p, type)
         ELSE Stopped(p, {type})
    [] type = "STOP_TILT" -> Stopped(p, {"START_TILT"})
    [] type = "ARM"       -> Recorded(Stopped(p, {"START_TILT"}), p.recording \/ accepts)
    [] type = "ABORT"     -> Recorded(Stopped(p, {"MANUAL_BRAKE", "BENCH_SERVO"}), FALSE)
    [] type = "NEUTRAL"   -> Resting(p)
    [] type = "DISABLE"   -> Disabled(Resting(p))
    [] type = "TEST"      -> IF accepts THEN Resting(p) ELSE p
    [] OTHER              -> p

\* The rest of the iteration: the recorder may end its test, a movement on the
\* bench may lose its gate, and none of those survives an iteration of a test.
Settled(p, ends, shut) ==
  LET q == Recorded(p, p.recording /\ ~ends)
  IN  IF q.recording \/ shut THEN Stopped(q, {"BENCH_SERVO", "START_TILT"}) ELSE q

Iterate(dt, type, accepts, ends, shut) ==
  /\ type # Nothing => payload.enabled
  /\ payload' = Settled(Obeyed(MovesExpired(Aged(payload, dt)), type, accepts), ends, shut)

\* setup(): everything is lost.
Restart == payload' = AtRest

MovesInit == payload = AtRest

MovesNext ==
  \/ \E dt \in Delays, type \in Command \cup {Nothing}, accepts, ends, shut \in BOOLEAN :
       Iterate(dt, type, accepts, ends, shut)
  \/ Restart

MovesSpec == MovesInit /\ [][MovesNext]_payload
=============================================================================
