\* One repair job and one request in flight.
SPECIFICATION Spec
CONSTANTS
  Null = Null
  PaymentIds = {}
  JobIds = {j1}
  LeaseIds = {}
  Customers = {c1}
  Slots = {s1}
  JobTotals = {3}
  JobAmounts = {}
  MaxBills = 2
  LeaseAmounts = {}
  JobForms <- MCJobForms
  LeaseForms <- MCLeaseForms
  Deals <- MCDeals
  PaymentForms <- MCPaymentForms
  RoundsUp <- MCRoundsUp
INVARIANTS RevenueOnce
CHECK_DEADLOCK FALSE
