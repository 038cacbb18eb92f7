------------------------------ MODULE Steering ------------------------------
(***************************************************************************)
(* The steering law: computeGuidance of logic/guidance_logic.cpp with the   *)
(* RateLimiter and the ReversalGuard of logic/filters.h.  Commands, heading *)
(* errors, altitudes and distances are integers in units of the             *)
(* configuration; a positive command pulls the right brake.  Geometry on    *)
(* the sphere is left out: distance and heading error are inputs.           *)
(***************************************************************************)
EXTENDS Ages

\* What the law keeps between two calls.
SteeringLaw ==
  [value : Int,        \* RateLimiter::last_value_
   sign : -1 .. 1,     \* ReversalGuard::last_sign_
   turned : Timer]     \* since ReversalGuard::last_change_ms_

Straight == [value |-> 0, sign |-> 0, turned |-> Unset]

SteeringConfig ==
  [gain : Nat, finalGain : Nat, deadband : Nat, limit : Nat, finalLimit : Nat,
   slowLimit : Nat, slew : Nat, guard : Nat, minAlt : Int, accept : Nat]

SteeringInput ==
  [gps : BOOLEAN, final : BOOLEAN, alt : Int, distance : Nat, error : Int,
   slow : BOOLEAN]

Sign(x)        == IF x > 0 THEN 1 ELSE IF x < 0 THEN -1 ELSE 0
Smaller(x, y)  == IF x < y THEN x ELSE y
Magnitude(x)   == IF x < 0 THEN -x ELSE x
Clamp(x, most) == IF x > most THEN most ELSE IF x < -most THEN -most ELSE x

\* RateLimiter::update
Slewed(law, desired, step) ==
  [law EXCEPT !.value = @ + Clamp(desired - @, step)]

\* A plausible fault: the guard looks at no time.
ReversesAtOnce(law, guard) == FALSE

\* ReversalGuard::allow refuses a turn against the last one before its time.
Reverses(law, guard) ==
  /\ law.value # 0 /\ law.sign # 0 /\ Sign(law.value) # law.sign
  /\ law.turned < guard

\* What allow remembers of an allowed command: straight flight forgets the
\* last turn, a new direction starts its time.
Allowed(law) ==
  IF law.value = 0 THEN [law EXCEPT !.sign = 0]
  ELSE IF Sign(law.value) # law.sign
       THEN [law EXCEPT !.sign = Sign(law.value), !.turned = 0]
       ELSE law

\* Authority and deadband of the mode; a low ground speed makes the course
\* unreliable.  The limits for missing sensors and for a spin are left out: the
\* guided controller is neutral before it asks the law then.
Authority(g, in) ==
  LET most == IF in.final THEN g.finalLimit ELSE g.limit
  IN  IF in.slow THEN Smaller(most, g.slowLimit) ELSE most

Deadband(g, in) ==
  g.deadband * (IF in.final THEN 2 ELSE 1) * (IF in.slow THEN 3 ELSE 1)

Demand(g, in) ==
  IF Magnitude(in.error) < Deadband(g, in) THEN 0
  ELSE Clamp((IF in.final THEN g.finalGain ELSE g.gain) * in.error, Authority(g, in))

\* A plausible fault: the limiter is left out once the guard allows the turn.
TurnedAtOnce(law, g, in, dt) ==
  LET wanted == [law EXCEPT !.value = Demand(g, in)]
  IN  IF Reverses(wanted, g.guard) THEN Slewed(law, 0, g.slew * dt)
      ELSE Allowed(wanted)

\* The demand, slewed; a refused reversal unloads the brake instead.
Turned(law, g, in, dt) ==
  LET wanted == Slewed(law, Demand(g, in), g.slew * dt)
  IN  IF Reverses(wanted, g.guard) THEN Slewed(wanted, 0, g.slew * dt)
      ELSE Allowed(wanted)

\* The early returns: too low to steer, or on the target.  They leave the law
\* as it was.
Idles(g, in) == in.alt < g.minAlt \/ in.distance < g.accept

\* computeGuidance in a guidance mode: the law it leaves, the command, and
\* whether guidance is active.
ComputeGuidance(law, g, in, dt) ==
  IF ~in.gps
  THEN LET l == Slewed(law, 0, g.slew * dt)
       IN  [law |-> l, command |-> l.value, active |-> FALSE]
  ELSE IF Idles(g, in)
  THEN [law |-> law, command |-> 0, active |-> FALSE]
  ELSE LET l == Turned(law, g, in, dt)
       IN  [law |-> l, command |-> l.value, active |-> TRUE]

\* The last turn grows older.
AgedLaw(law, dt) == [law EXCEPT !.turned = Later(@, dt)]
=============================================================================
