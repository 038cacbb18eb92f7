-------------------------------- MODULE Ages --------------------------------
(* Instants of the program's millisecond clock, seen as the time elapsed    *)
(* since them.  The code stores millis() values and uses 0 for "not set";   *)
(* here an unset instant is Unset and a set one is its age, which saturates *)
(* at AgeCap, a bound past every timeout a module compares an age with.     *)
EXTENDS Integers

CONSTANT AgeCap

ASSUME AgeCapIsNat == AgeCap \in Nat

Unset == -1
Age   == 0 .. AgeCap
Timer == {Unset} \cup Age

\* An age after dt more milliseconds.
Later(age, dt) ==
  IF age = Unset THEN Unset ELSE IF age + dt > AgeCap THEN AgeCap ELSE age + dt

\* "if (since == 0) since = now"
Started(age) == IF age = Unset THEN 0 ELSE age
=============================================================================
