------------------------------- MODULE Records -------------------------------
(***************************************************************************)
(* The two records of a drop test: the payload's log in flash (FlashLog, as  *)
(* main.cpp of the payload, "MP", drives it) and the ground station's mirror *)
(* of the telemetry (DropLogSession, as main.cpp of the ground station, "MG",*)
(* drives it), with the radio between them.                                  *)
(*                                                                          *)
(* Either side may lose power at any instant; frames are lost when the       *)
(* ground does not poll them in time, and may be read twice; every access to *)
(* a storage may fail.  A storage that does not mount at a boot is formatted  *)
(* (SPIFFS.begin(true) on both sides), which may succeed or not.             *)
(*                                                                          *)
(* A test has an id, which the payload counts from 1 after each boot, and a   *)
(* run, a history number no two tests share; RECORDING and ENDED stand for    *)
(* the states of a test in progress, and for TEST_COMPLETE and TEST_ABORTED.  *)
(***************************************************************************)
EXTENDS FlashLog, DropLogSession, Sequences, FiniteSets

CONSTANTS
  MaxRuns,      \* bound: tests in a behaviour
  MaxTroubles,  \* bound: restarts of either side and failures of a storage
  MaxFrames,    \* bound: frames the payload sends
  CsvSlots,     \* the numbers of a CSV file (1 .. 9999)
  MaxRows       \* rows in a CSV file (GROUND_DROP_LOG_MAX_BYTES)

ASSUME RecordsAssumption ==
  /\ {MaxRuns, MaxTroubles, MaxFrames} \subseteq Nat
  /\ MaxRows \in Nat \ {0} /\ CsvSlots \subseteq Nat /\ IsFiniteSet(CsvSlots)

Run   == 0 .. MaxRuns
Id    == 0 .. MaxRuns
Frame == [stamp : 0 .. MaxFrames, id : Id, run : Run, recording : BOOLEAN,
          state : {"IDLE", "RECORDING", "ENDED"}]

NoFrame == [stamp |-> 0, id |-> 0, run |-> 0, recording |-> FALSE, state |-> "IDLE"]
NoCsv   == <<0, 0>>

VARIABLES
  flash,    \* the payload's flash_log and its storage
  test,     \* vehicle.drop_test_id, drop_test_state; next_drop_test_id; run
  landed,   \* the flight's state machine closed the log
  air,      \* the frame in the ground's radio
  session,  \* drop_log_session
  csv,      \* drop_log_storage_ok, drop_log_active, drop_log_filename
  sheets,   \* the CSV files: <<slot, id>> |-> frames
  kept,     \* history: frames of a test read by a session without a fault
  faulty,   \* history: the file of the current session could not be kept
  formats,  \* history: formats of either storage; the last run in the flash then
  bounds    \* bounds: troubles and frames so far

payloadVars == <<flash, test, landed>>
groundVars  == <<session, csv, sheets, kept, faulty>>
recordsVars == <<flash, test, landed, air, session, csv, sheets, kept, faulty, formats, bounds>>

NoTest == [id |-> 0, state |-> "IDLE", next |-> 1, run |-> 0]

\* The outcomes of n accesses to a storage, in order.
Failures(outcomes) == Cardinality({i \in DOMAIN outcomes : outcomes[i] # "ok"})
Outcomes(n) == {o \in [1 .. n -> Outcome] : bounds.troubles + Failures(o) <= MaxTroubles}
Counted(outcomes) == [bounds EXCEPT !.troubles = @ + Failures(outcomes)]

\* The troubles of a restart: itself, and a storage that stays unmounted.
Restarted(mounted) == IF mounted THEN 1 ELSE 2

-----------------------------------------------------------------------------
(* The payload.                                                             *)

\* Power on: setup() opens the log of the boot.
Booted(files, mounted, formatted, o) ==
  LogEntry(StartFlightLog(Began(files, mounted, formatted), 0, o[1]), o[2])

PayloadRestart(mounted, formatted, o) ==
  /\ flash' = Booted(flash.files, mounted, formatted, o)
  /\ formats' = IF formatted THEN [formats EXCEPT !.flash = @ + 1, !.run = test.run]
                ELSE formats
  /\ test' = [NoTest EXCEPT !.run = test.run] /\ landed' = FALSE
  /\ bounds' = [Counted(o) EXCEPT !.troubles = @ + Restarted(mounted)]
  /\ bounds'.troubles <= MaxTroubles
  /\ UNCHANGED <<air, groundVars>>

\* A plausible fault: a test is armed although its log did not open.
ArmedAnyway(opened) == TRUE

\* armDropTest goes on only with a log of its own.
LogOpened(opened) == opened.active

\* armDropTest, ready: the running log is closed, the test's is opened.
ArmDropTest(o) ==
  LET opened == StartFlightLog(EndFlightLog(LogEntry(flash, o[1]), o[2]), test.run + 1, o[3])
  IN  /\ test.state # "RECORDING" /\ test.run < MaxRuns
      /\ IF LogOpened(opened)
         THEN /\ test' = [id |-> test.next, state |-> "RECORDING", next |-> test.next + 1,
                          run |-> test.run + 1]
              /\ flash' = LogEntry(opened, o[4])
         ELSE flash' = opened /\ UNCHANGED test
      /\ bounds' = Counted(o) /\ UNCHANGED <<landed, air, groundVars, formats>>

\* publishDropTestOutput at the end of a test.
EndDropTest(o) ==
  /\ test.state = "RECORDING"
  /\ test' = [test EXCEPT !.state = "ENDED"]
  /\ flash' = EndFlightLog(LogEntry(flash, o[1]), o[2])
  /\ bounds' = Counted(o) /\ UNCHANGED <<landed, air, groundVars, formats>>

\* The flight lands (close_log).
Land(o) ==
  /\ ~landed /\ landed' = TRUE
  /\ flash' = EndFlightLog(LogEntry(flash, o[1]), o[2])
  /\ bounds' = Counted(o) /\ UNCHANGED <<test, air, groundVars, formats>>

\* logFlightData
LogFlightData(o) ==
  /\ flash.active
  /\ flash' = LogEntry(flash, o[1])
  /\ bounds' = Counted(o) /\ UNCHANGED <<test, landed, air, groundVars, formats>>

\* sendTelemetry: a frame the ground has not read yet is lost.
SendTelemetry ==
  /\ bounds.frames < MaxFrames
  /\ bounds' = [bounds EXCEPT !.frames = @ + 1]
  /\ air' = [stamp |-> bounds.frames + 1, id |-> test.id, run |-> test.run,
             state |-> test.state, recording |-> test.state = "RECORDING"]
  /\ UNCHANGED <<payloadVars, groundVars, formats>>

-----------------------------------------------------------------------------
(* The ground station.                                                      *)

\* The numbers startGroundDropLog may name a file of this test with.
UnusedNumbers(id) == {n \in CsvSlots : <<n, id>> \notin DOMAIN sheets}

\* What keeps startGroundDropLog from opening a file, and
\* appendGroundDropTelemetry from writing a row.
NoFileOpens(id, outcome) == ~csv.mounted \/ UnusedNumbers(id) = {} \/ outcome # "ok"
NoRowFits(rows, outcome) == outcome # "ok" \/ Len(rows) >= MaxRows

\* startGroundDropLog
CsvStarted(c, id, outcome) ==
  IF NoFileOpens(id, outcome)
  THEN [csv |-> c, sheets |-> sheets]
  ELSE LET n == CHOOSE n \in UnusedNumbers(id) : \A k \in UnusedNumbers(id) : n <= k
       IN  [csv |-> [c EXCEPT !.active = TRUE, !.file = <<n, id>>],
            sheets |-> Added(sheets, <<n, id>>, <<>>)]

\* appendGroundDropTelemetry: a row cut short is not counted, but is there.
CsvAppended(s, frame, outcome) ==
  IF ~s.csv.active THEN s
  ELSE IF NoRowFits(s.sheets[s.csv.file], outcome)
  THEN [s EXCEPT !.csv.active = FALSE]
  ELSE [s EXCEPT !.sheets[s.csv.file] = Append(@, frame)]

\* updateAutomaticDropLog
PollTelemetry(o) ==
  LET seen == Observe(session, air)
      d    == seen.decision
      c1   == IF d.close_previous THEN [csv EXCEPT !.active = FALSE] ELSE csv
      s1   == IF d.start_new THEN CsvStarted(c1, air.id, o[1])
              ELSE [csv |-> c1, sheets |-> sheets]
      s2   == IF d.append_sample THEN CsvAppended(s1, air, o[2]) ELSE s1
  IN  /\ air.stamp # None
      /\ session' = seen.session
      /\ csv' = IF d.close_after_sample THEN [s2.csv EXCEPT !.active = FALSE] ELSE s2.csv
      /\ sheets' = s2.sheets
      /\ faulty' = \/ IF d.start_new THEN NoFileOpens(air.id, o[1]) ELSE faulty
                   \/ /\ d.append_sample /\ s1.csv.active
                      /\ NoRowFits(s1.sheets[s1.csv.file], o[2])
      /\ kept' = IF Identified(air) /\ (air.recording \/ IsTerminal(air)) /\ ~faulty'
                 THEN kept \cup {air} ELSE kept
      /\ bounds' = Counted(o) /\ UNCHANGED <<payloadVars, air, formats>>

\* setup() of the ground station, setupDropLogStorage.
GroundRestart(mounted, formatted) ==
  /\ bounds' = [bounds EXCEPT !.troubles = @ + Restarted(mounted)]
  /\ bounds'.troubles <= MaxTroubles
  /\ session' = NoSession /\ air' = NoFrame
  /\ csv' = [mounted |-> mounted, active |-> FALSE, file |-> NoCsv]
  /\ faulty' = FALSE
  /\ IF formatted
     THEN sheets' = <<>> /\ kept' = {} /\ formats' = [formats EXCEPT !.sheets = @ + 1]
     ELSE UNCHANGED <<sheets, kept, formats>>
  /\ UNCHANGED payloadVars

-----------------------------------------------------------------------------
RecordsInit ==
  /\ bounds = [troubles |-> 0, frames |-> 0]
  /\ flash = Booted(<<>>, TRUE, FALSE, <<"ok", "ok">>) /\ test = NoTest /\ landed = FALSE
  /\ air = NoFrame /\ session = NoSession
  /\ csv = [mounted |-> TRUE, active |-> FALSE, file |-> NoCsv] /\ sheets = <<>>
  /\ kept = {} /\ faulty = FALSE /\ formats = [flash |-> 0, sheets |-> 0, run |-> 0]

RecordsNext ==
  \/ \E mounted, formatted \in BOOLEAN, o \in Outcomes(2) : PayloadRestart(mounted, formatted, o)
  \/ \E o \in Outcomes(4) : ArmDropTest(o)
  \/ \E o \in Outcomes(2) : EndDropTest(o)
  \/ \E o \in Outcomes(2) : Land(o)
  \/ \E o \in Outcomes(1) : LogFlightData(o)
  \/ SendTelemetry
  \/ \E o \in Outcomes(2) : PollTelemetry(o)
  \/ \E mounted, formatted \in BOOLEAN : GroundRestart(mounted, formatted)

RecordsSpec == RecordsInit /\ [][RecordsNext]_recordsVars

-----------------------------------------------------------------------------
(* Properties.                                                              *)

\* The records are what their declarations say.
RecordsTypeOK ==
  /\ flash.files \in [DOMAIN flash.files -> LogFile(Run)] /\ DOMAIN flash.files \subseteq Slots
  /\ flash.active => flash.slot \in DOMAIN flash.files /\ flash.mounted
  /\ flash.count \in 0 .. MaxEntries
  /\ test.id \in Id /\ test.run \in Run /\ air \in Frame
  /\ session.test \in Id /\ {session.sample, session.terminal} \subseteq 0 .. MaxFrames
  /\ csv.active => csv.file \in DOMAIN sheets /\ session.active /\ csv.file[2] = session.test
  /\ \A f \in DOMAIN sheets : Len(sheets[f]) <= MaxRows

\* Evidence is never overwritten (FL:36, "must never cause the next file to
\* overwrite a later retained run"): except for a format at a boot whose mount
\* failed, which takes all of that side's files and none of the other's, no log and
\* no CSV file goes away, only the payload's open log changes, and the ground's
\* files only grow, one row at a time.
EvidenceStays ==
  [][/\ formats'.flash = formats.flash =>
          \A s \in DOMAIN flash.files :
            /\ s \in DOMAIN flash.files'
            /\ flash'.files[s] # flash.files[s] =>
                 flash.active /\ s = flash.slot /\ ~flash.files[s].sealed
     /\ formats'.sheets = formats.sheets =>
          \A f \in DOMAIN sheets :
            f \in DOMAIN sheets' /\ sheets'[f] \in {sheets[f], Append(sheets[f], air)}]_recordsVars

\* A frame is one row: no two rows of a file are the same frame, the rows of a
\* file are in the order they were sent, and all are of the test it is named for.
RowsAreOnce ==
  \A f \in DOMAIN sheets :
    /\ \A i, j \in DOMAIN sheets[f] : i < j => sheets[f][i].stamp < sheets[f][j].stamp
    /\ \A i \in DOMAIN sheets[f] : sheets[f][i].id = f[2]

\* What was received is kept: a frame of a test in progress or at its end, read
\* since the storage was last formatted by a session that had not met a fault, is a
\* row of a file, also after a later fault, restart or test.  A fault (a file that
\* does not open, a row that does not fit) costs the rest of its session and nothing
\* else; when a payload that restarted gives its id again before the ground saw the
\* end, that test is in the same session.
ReceivedIsKept ==
  \A frame \in kept :
    \E f \in DOMAIN sheets : \E i \in DOMAIN sheets[f] : sheets[f][i] = frame

\* No test without a log of its own: the payload's open log during a test is that
\* test's, a file for it exists from arming on, and so for each test the ground
\* has rows of, unless the flash was formatted at a boot after that test
\* (MP:924, "DROP_TEST_LOG_OPEN_FAILED").
TestsAreLogged ==
  LET Logged(run) == \E s \in DOMAIN flash.files : flash.files[s].run = run
  IN  /\ test.state = "RECORDING" =>
           /\ Logged(test.run)
           /\ flash.active => flash.files[flash.slot].run = test.run
      /\ \A f \in DOMAIN sheets : \A i \in DOMAIN sheets[f] :
           Logged(sheets[f][i].run) \/ sheets[f][i].run <= formats.run

\* A log stays without its counts only for a cause: each loss of power and each
\* failure of the storage costs at most one log its final header, and so does
\* reaching the limit of entries (FL:94; an unsealed header counts nothing).
UnsealedForCause ==
  LET Unsealed == {s \in DOMAIN flash.files :
                     /\ ~flash.files[s].sealed /\ flash.files[s].entries < MaxEntries
                     /\ ~(flash.active /\ s = flash.slot)}
  IN  /\ Cardinality(Unsealed) <= bounds.troubles
      /\ \A s \in DOMAIN flash.files :
           IF flash.files[s].sealed THEN flash.files[s].counted >= flash.files[s].entries
           ELSE flash.files[s].counted = 0

\* The mirror "closes on TEST_COMPLETE or TEST_ABORTED"
\* (docs/DROP_TEST_RECORDING.md:20): once a test's end is in a file of the ground,
\* no other file is opened for that test.
EndClosesTheMirror ==
  \A f, g \in DOMAIN sheets : \A i \in DOMAIN sheets[f], j \in DOMAIN sheets[g] :
    f # g /\ IsTerminal(sheets[f][i]) /\ sheets[f][i].run = sheets[g][j].run
      => sheets[g][j].stamp < sheets[f][i].stamp
=============================================================================
