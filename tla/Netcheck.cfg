\* Two checks; a pause of two ticks is a gap.
SPECIFICATION Spec
CONSTANTS
  Null = Null
  c1 = c1
  c2 = c2
  Checks = {c1, c2}
  Gap = 1
  MaxTicks = 3
  MaxSamples = 4
  MaxEnds = 1
SYMMETRY Symmetric
INVARIANTS TypeOK ReportsStretches EventsAgree
