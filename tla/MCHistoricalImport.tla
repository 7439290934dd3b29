------------------------- MODULE MCHistoricalImport -------------------------
(* Model checking of HistoricalImport: the file. *)
EXTENDS HistoricalImport

FileLine(ref, parses, vehicle, stock, vin) ==
  [ref |-> ref, parses |-> parses, vehicle |-> vehicle, stock |-> stock, vin |-> vin]

CONSTANTS tag, vin1, VIN1, vin2

\* vin1 and VIN1 are two spellings of one VIN.
MCLower == [v \in {vin1, VIN1, vin2} |-> IF v = vin2 THEN vin2 ELSE vin1]

\* An expense before its vehicle, a vehicle bought twice (its VIN spelled in
\* two ways), two vehicles of one tag, a row that does not parse, a vehicle
\* filed under the VIN of another and an expense filed under a VIN; the row
\* number of both expenses is missing.
MCFile == <<
  FileLine("?", TRUE, FALSE, tag, Null),
  FileLine("2", TRUE, TRUE, tag, vin1),
  FileLine("3", FALSE, TRUE, tag, vin2),
  FileLine("4", TRUE, TRUE, tag, Null),
  FileLine("5", TRUE, TRUE, Null, VIN1),
  FileLine("6", TRUE, TRUE, vin2, vin1),
  FileLine("?", TRUE, FALSE, vin1, Null) >>
=============================================================================
