\* One request at a time: the serial system.
SPECIFICATION Spec
CONSTANTS
  Null = Null
  PurchaseIds = {p1}
  UnitIds = {u1}
  Vins = {vin1}
  Lower <- MCLower
  Admins = {a1}
  Slots = {s1}
  Categories = {"auction_car_flip", "auction_golf_cart_flip", "general_expense_shared"}
  Amounts = {1}
  Extras = {0, 1}
  UnitForms <- MCUnitForms
  TransactionForms <- MCTransactionForms
  MaxEvents = 4
  MaxImported = 1
  MaxAdjusted = 1
SYMMETRY Symmetric
INVARIANTS TypeOK
PROPERTIES KeepsReviewedLedger
CHECK_DEADLOCK FALSE
