\* Two administrators with the queue open, two requests in flight.
SPECIFICATION DeskSpec
CONSTANTS
  Null = Null
  PurchaseIds = {p1}
  UnitIds = {u1}
  Vins = {}
  Lower <- NoVins
  Admins = {a1, a2}
  Slots = {s1, s2}
  Categories = {"parts_golf_cart_repair"}
  Amounts = {1, 2}
  Extras = {0}
  UnitForms <- NoForms
  TransactionForms <- NoForms
  MaxEvents = 5
  MaxImported = 1
  MaxAdjusted = 0
SYMMETRY Symmetric
INVARIANTS HistoryIsComplete ReviewFollowsHistory
PROPERTIES ReviewedAsSeenOrLogged
CHECK_DEADLOCK FALSE
