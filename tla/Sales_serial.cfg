\* One request at a time: two sales of both lines, two units, one payment.
SPECIFICATION Spec
CONSTANTS
  Null = Null
  Slots = {s1}
  SaleIds = {a, b}
  PaymentIds = {p1}
  UnitIds = {u1, u2}
  Customers = {c1}
  LeaseIds = {}
  Fees = {1}
  Downs = {0, 1}
  Overrides = {9}
  Lines = {"car", "golf_cart"}
  FormStatuses = {"pending", "cancelled"}
  FormAmounts = {1}
  UnitStatuses = {}
  SaleForms <- MCSaleForms
  PaymentForms <- MCPaymentForms
SYMMETRY Symmetric
INVARIANTS TypeOK OneActiveSale PaidAsInvoiced
CHECK_DEADLOCK FALSE
