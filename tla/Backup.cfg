\* Weeks of two days, months of three; two documents, the file of one lost before the
\* backups began; a migration and two troubles.
SPECIFICATION Spec
CONSTANTS
  DailyDays = 1
  WeeklyDays = 4
  MonthlyDays = 7
  WeekLength = 2
  MonthLength = 3
  Docs = {d0, d1}
  Missing = {d0}
  MaxMigrations = 1
  MaxTrouble = 2
INVARIANTS TypeOK EveryRowHasItsFile RefusesOnlyMigrations KeepsWhatIsOwed
PROPERTIES CopiedEveryNight
