\* Every note of up to three tokens, and many of five, for one of two purchases of
\* a unit; two saves of the unit form.
SPECIFICATION Spec
CONSTANTS
  Null = Null
  Units = {"u1", "u2"}
  Purchases = {"p1", "p2", "p3"}
  UnitOf <- MCUnitOf
  NoteBooks <- MCNoteBooks
  MakeOf <- MCMakeOf
  Runs <- MCRuns
  Colors = {"white"}
  Years = {"2013", "2014"}
  Numbers = {"2013", "2014", "150"}
  Series = {"2013", "2014", "150"}
  Codes = {"f"}
  Words = {"focus", "ford", "chevy", "white"}
  Saved <- MCSaved
  MaxSaves = 2
INVARIANTS TypeOK TypedStays FromItsNotes ModelFollowsMake
CHECK_DEADLOCK FALSE
