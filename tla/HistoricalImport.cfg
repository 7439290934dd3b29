\* A file of seven lines, two runs that may overlap, a crash or
\* failed commit, and VINs entered or changed through the application meanwhile.
SPECIFICATION Spec
CONSTANTS
  Null = Null
  Gone = Gone
  tag = tag
  vin1 = vin1
  VIN1 = VIN1
  vin2 = vin2
  File <- MCFile
  Tags = {tag}
  Vins = {vin1, VIN1, vin2}
  Lower <- MCLower
  UnitIds = {1, 2, 3, 4, 5}
  Importers = {i1, i2}
  MaxSaves = 1
  MaxTrouble = 1
INVARIANTS TypeOK SameVinSameUnit TagsLinked DryRunForetells
PROPERTIES ArrivesOnce
