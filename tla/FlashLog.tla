------------------------------ MODULE FlashLog ------------------------------
(***************************************************************************)
(* The payload's log of a flight in flash: logging/flash_logger.cpp ("FL"). *)
(* The logger is a record: files (slot |-> file, a partial function: the     *)
(* SPIFFS directory), and in RAM active, slot and count.  The records one    *)
(* handler writes together count as one entry.                              *)
(*                                                                          *)
(* Each access to the storage has an outcome: "ok", "refused" (the file does *)
(* not open, or the header does not fit) or "short" (it opens and less than  *)
(* asked for is written).                                                   *)
(***************************************************************************)
EXTENDS Integers

CONSTANTS
  MaxSlot,      \* the last slot a flight log may take (254)
  MaxEntries    \* entries in a log (config_.max_entries, max_data_size)

ASSUME FlashLogAssumption == MaxSlot \in Nat /\ MaxEntries \in Nat \ {0}

Slots   == 0 .. MaxSlot
Outcome == {"ok", "refused", "short"}

\* FlightLogHeader and the entries behind it; run is the test the log was
\* opened for, 0 for the log of a boot.
LogFile(Run) == [run : Run, entries : Nat, counted : Nat, sealed : BOOLEAN]

\* The constructor and begin, on the storage the last boot left: SPIFFS.begin(true)
\* formats a storage that does not mount, and tries once more.
Began(files, mounted, formatted) ==
  [files |-> IF formatted THEN <<>> ELSE files,
   mounted |-> mounted, active |-> FALSE, slot |-> 0, count |-> 0]

Unused(flash) == Slots \ DOMAIN flash.files

\* A plausible fault: the next slot is counted in RAM.
NextInRam(flash) == (flash.slot + 1) % (MaxSlot + 1)

\* The slot startFlightLog takes, when there is one.
FirstUnused(flash) == CHOOSE s \in Unused(flash) : \A t \in Unused(flash) : s <= t

\* The directory with one more file.
Added(files, name, file) ==
  [n \in DOMAIN files \cup {name} |-> IF n = name THEN file ELSE files[n]]

\* startFlightLog
StartFlightLog(flash, run, outcome) ==
  IF ~flash.mounted THEN flash
  ELSE IF Unused(flash) = {} \/ outcome # "ok" THEN [flash EXCEPT !.active = FALSE]
  ELSE LET slot == FirstUnused(flash)
           new  == [run |-> run, entries |-> 0, counted |-> 0, sealed |-> FALSE]
       IN  [flash EXCEPT !.files = Added(@, slot, new), !.active = TRUE,
                         !.slot = slot, !.count = 0]

\* writeEntry: what was written is not compared with what was to be.
WriteEntry(file, outcome) == [file EXCEPT !.entries = @ + (IF outcome = "ok" THEN 1 ELSE 0)]

\* log, and the functions that pack a record for it.
LogEntry(flash, outcome) ==
  IF ~flash.active THEN flash
  ELSE IF flash.count >= MaxEntries \/ outcome = "refused" THEN [flash EXCEPT !.active = FALSE]
  ELSE [flash EXCEPT !.count = @ + 1,
                     !.files[flash.slot] = WriteEntry(@, outcome)]

\* A plausible fault: the header keeps the count it was opened with.
LeftOpen(flash, outcome) == [flash EXCEPT !.active = FALSE]

\* endFlightLog
EndFlightLog(flash, outcome) ==
  IF ~flash.active THEN flash
  ELSE IF outcome # "ok" THEN [flash EXCEPT !.active = FALSE]
  ELSE [flash EXCEPT !.active = FALSE, !.files[flash.slot].counted = flash.count,
                     !.files[flash.slot].sealed = TRUE]
=============================================================================
