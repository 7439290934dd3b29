------------------------------ MODULE MCSales ------------------------------
(***************************************************************************)
(* Model checking of Sales: what the sale form and the payment form are    *)
(* saved with.  Staff override the total of golf carts and take down       *)
(* payments on cars.                                                       *)
(***************************************************************************)
EXTENDS Sales, TLC

CONSTANTS Fees, Downs, Overrides, Lines, FormStatuses, FormAmounts

MCSaleForms ==
  { f \in [unit: UnitIds, customer: Customers, line: Lines, amount: {3},
           fees: Fees, down: Downs, total: OrNull(Overrides),
           status: FormStatuses] :
      IF f.line = "golf_cart" THEN f.down = 0 ELSE f.total = Null }

MCPaymentForms == [sale: OrNull(SaleIds), amount: FormAmounts]

Symmetric ==
  Permutations(SaleIds) \cup Permutations(PaymentIds) \cup
  Permutations(LeaseIds) \cup Permutations(UnitIds) \cup
  Permutations(Customers) \cup Permutations(Slots)
=============================================================================
