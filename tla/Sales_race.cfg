\* Two requests in flight over two sales of one unit to two customers.
SPECIFICATION Spec
CONSTANTS
  Null = Null
  Slots = {s1, s2}
  SaleIds = {a, b}
  PaymentIds = {}
  UnitIds = {u1}
  Customers = {c1, c2}
  LeaseIds = {l1}
  Fees = {0}
  Downs = {0}
  Overrides = {}
  Lines = {"car"}
  FormStatuses = {"pending", "cancelled"}
  FormAmounts = {}
  UnitStatuses = {"acquired"}
  SaleForms <- MCSaleForms
  PaymentForms <- MCPaymentForms
SYMMETRY Symmetric
INVARIANTS SoldUnitHasBuyer
CHECK_DEADLOCK FALSE
