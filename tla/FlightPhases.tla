---------------------------- MODULE FlightPhases ----------------------------
(***************************************************************************)
(* What the flight controller promises, without its timers and sensors: the *)
(* flight goes through its phases in order, a fault sends it to the         *)
(* failsafe for good, brakes are used only in a healthy glide, and landing  *)
(* closes the flight log.  FlightCoordinator implements this specification. *)
(***************************************************************************)

VARIABLES
  phase,     \* where the flight is
  faulted,   \* a failure has been latched
  braking,   \* a brake is away from neutral
  logOpen    \* the flight log is still recording

phaseVars == <<phase, faulted, braking, logOpen>>

\* On the pad, or in the failsafe after a reset nobody can explain.
Start(ph, f, b, l) ==
  /\ \/ ph = "pad" /\ ~f
     \/ ph = "failsafe" /\ f
  /\ ~b /\ l

Init == Start(phase, faulted, braking, logOpen)

\* The phases of a flight in their order.
Follows(from, to) ==
  <<from, to>> \in {<<"pad", "ascent">>, <<"ascent", "deploying">>,
                    <<"deploying", "gliding">>}

Advance ==
  /\ ~faulted
  /\ Follows(phase, phase')
  /\ braking' => phase' = "gliding"
  /\ UNCHANGED <<faulted, logOpen>>

\* The brakes move during the glide.
Steer ==
  /\ phase = "gliding" /\ ~faulted
  /\ braking' \in BOOLEAN
  /\ UNCHANGED <<phase, faulted, logOpen>>

Fault ==
  /\ phase \notin {"failsafe", "landed"} /\ ~faulted
  /\ phase' = "failsafe"
  /\ faulted' = TRUE
  /\ braking' = FALSE
  /\ UNCHANGED logOpen

\* Only a glide or a failsafe descent ends in a landing.
Land ==
  /\ phase \in {"gliding", "failsafe"}
  /\ phase' = "landed"
  /\ braking' = FALSE
  /\ logOpen' = FALSE
  /\ UNCHANGED faulted

Restart == Start(phase', faulted', braking', logOpen')

Next == Advance \/ Steer \/ Fault \/ Land \/ Restart

Spec == Init /\ [][Next]_phaseVars
=============================================================================
