------------------------------ MODULE MCRecords ------------------------------
(* Three slots for the logs of two boots and two tests, two CSV files per id,  *)
(* rows and entries few enough to run out.                                   *)
EXTENDS Records

MCCsvSlots == 1 .. 2
=============================================================================
