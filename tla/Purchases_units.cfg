\* One handler of the event loop beside the importer and the two forms: two purchases,
\* two units and one VIN in two spellings.
SPECIFICATION Spec
CONSTANTS
  Null = Null
  PurchaseIds = {p1, p2}
  UnitIds = {u1, u2}
  Vins = {vin1, VIN1}
  Lower <- MCLower
  Admins = {}
  Slots = {s1}
  Categories = {"auction_car_flip", "parts_golf_cart_repair"}
  Amounts = {1}
  Extras = {0, 1}
  UnitForms <- MCUnitForms
  TransactionForms <- MCTransactionForms
  MaxEvents = 2
  MaxImported = 1
  MaxAdjusted = 1
SYMMETRY Symmetric
INVARIANTS OneCreator CostFollowsCreator LedgerFollows
PROPERTIES VehicleKeepsUnit
CHECK_DEADLOCK FALSE
