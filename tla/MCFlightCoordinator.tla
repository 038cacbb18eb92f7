------------------------- MODULE MCFlightCoordinator -------------------------
(* Samples for TLC: situations of a flight, with and without lost sensors.  *)
EXTENDS FlightCoordinator

Situation == [vs : VerticalSpeeds, alt : Altitudes, thrust : BOOLEAN,
              slow : BOOLEAN, near : BOOLEAN, rate : Rates]

Air(vs, alt, thrust, rate) ==
  [vs |-> vs, alt |-> alt, thrust |-> thrust, slow |-> FALSE, near |-> FALSE,
   rate |-> rate]

Situations ==
  { Air("hover", "ground", FALSE, "calm"),              \* carried on the pad
    Air("climb", "low", TRUE, "swing"),                 \* boost
    Air("rise", "high", FALSE, "calm"),                 \* coast
    Air("sink", "high", FALSE, "spin"),                 \* past apogee, tumbling
    Air("descend", "high", FALSE, "calm"),              \* under the canopy
    [Air("descend", "high", FALSE, "calm") EXCEPT !.near = TRUE],
    Air("descend", "mid", FALSE, "swing"),              \* final approach
    Air("descend", "ground", FALSE, "calm"),            \* flare height
    [Air("hover", "ground", FALSE, "calm") EXCEPT !.slow = TRUE] }  \* at rest

LostSensors == { {}, {"gps"}, {"imu"}, {"baro"}, {"servo"}, {"imu", "baro"},
                 {"gps", "baro"}, {"gps", "imu"} }

Reading(sit, lost, target, remote) ==
  [gps |-> "gps" \notin lost, imu |-> "imu" \notin lost,
   baro |-> "baro" \notin lost, servo |-> "servo" \notin lost,
   target |-> target, remote |-> remote, vs |-> sit.vs, alt |-> sit.alt,
   thrust |-> sit.thrust, slow |-> sit.slow, near |-> sit.near, rate |-> sit.rate]

FlightSamples ==
  { Reading(sit, lost, TRUE, FALSE) : sit \in Situations, lost \in LostSensors }
  \cup { Reading(sit, lost, FALSE, remote) :
           sit \in Situations, lost \in {{}, {"baro"}}, remote \in BOOLEAN }

=============================================================================
