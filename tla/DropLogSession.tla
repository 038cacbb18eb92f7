--------------------------- MODULE DropLogSession ---------------------------
(***************************************************************************)
(* What the ground station mirrors of the telemetry it receives:            *)
(* logic/drop_log_session.h ("DS").  Observe gives the session after a frame *)
(* and the decision: close_previous, start_new, append_sample and            *)
(* close_after_sample of the code.                                          *)
(*                                                                          *)
(* A frame's stamp stands for payload_time_ms and packet_sequence together;   *)
(* frames of different boots are taken to differ in them.  ENDED is the state *)
(* of a test that is TEST_COMPLETE or TEST_ABORTED.                         *)
(***************************************************************************)
EXTENDS Integers

\* No stamp, no test id.
None == 0

NoSession == [active |-> FALSE, test |-> None, sample |-> None, terminal |-> None]

IsTerminal(frame) == frame.state = "ENDED"
Identified(frame) == frame.id # None

\* Another test than the session's reports: the session's is over.
ClosePrevious(session, frame) ==
  /\ session.active /\ Identified(frame) /\ frame.id # session.test
  /\ frame.recording \/ IsTerminal(frame)

\* A plausible fault: a terminal frame opens nothing.
OnlyRecordingStarts(session, frame) ==
  /\ ~session.active \/ ClosePrevious(session, frame)
  /\ Identified(frame) /\ frame.recording

\* A recording frame, or a terminal one not seen before, opens a session.
StartNew(session, frame) ==
  /\ ~session.active \/ ClosePrevious(session, frame)
  /\ Identified(frame)
  /\ frame.recording \/ (IsTerminal(frame) /\ frame.stamp # session.terminal)

\* A plausible fault: a frame that was appended is not remembered.
AlwaysAppended(session, frame) == TRUE

\* Once a session of the frame's test is open: is the frame not its last sample?
NewSample(session, frame) == session.sample # frame.stamp

\* The session close_previous and start_new leave.
Opened(session, frame) ==
  IF StartNew(session, frame)
  THEN [session EXCEPT !.active = TRUE, !.test = frame.id, !.sample = None]
  ELSE IF ClosePrevious(session, frame)
  THEN [session EXCEPT !.active = FALSE, !.sample = None]
  ELSE session

Observe(session, frame) ==
  LET open   == Opened(session, frame)
      own    == open.active /\ open.test = frame.id
      append == own /\ NewSample(open, frame)
      close  == own /\ IsTerminal(frame)
  IN  [session |->
         IF close THEN [open EXCEPT !.active = FALSE, !.sample = None,
                                    !.terminal = frame.stamp]
         ELSE IF append THEN [open EXCEPT !.sample = frame.stamp]
         ELSE open,
       decision |->
         [close_previous |-> ClosePrevious(session, frame),
          start_new |-> StartNew(session, frame),
          append_sample |-> append, close_after_sample |-> close]]
=============================================================================
