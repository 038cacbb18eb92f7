------------------------------- MODULE MCLink -------------------------------
(* Units of 500 ms: a frame each unit, every other one after a test; a wait of *)
(* 1500 ms; a manual hold of 1500 ms and a bench hold of 2000 ms.  A command is *)
(* repeated after 350 ms and lasts 750 ms or 600 ms, here one unit, and two or  *)
(* one; the tilt hold is shortened from 15 s.                                  *)
EXTENDS Link

MCHold == [MANUAL_BRAKE |-> 3, BENCH_SERVO |-> 4, START_TILT |-> 4]
MCTimeout == [MANUAL_BRAKE |-> 2, BENCH_SERVO |-> 1, START_TILT |-> 2]
=============================================================================
