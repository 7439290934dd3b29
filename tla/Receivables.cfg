\* One repair job and one lease, two requests in flight, two payments.
SPECIFICATION Spec
CONSTANTS
  Null = Null
  PaymentIds = {p1, p2}
  JobIds = {j1}
  LeaseIds = {l1}
  Customers = {c1}
  Slots = {s1, s2}
  JobTotals = {0, 3}
  JobAmounts = {2}
  LeaseAmounts <- MCLeaseAmounts
  MaxBills = 2
  JobForms <- MCJobForms
  LeaseForms <- MCLeaseForms
  Deals <- MCDeals
  PaymentForms <- MCPaymentForms
  RoundsUp <- MCRoundsUp
SYMMETRY Symmetric
INVARIANTS TypeOK BilledAsShown ReceiptsNeverUnderstate ReceiptStatesBalance MonthsPayOff
CHECK_DEADLOCK FALSE
