------------------------------ MODULE Invoices ------------------------------
(***************************************************************************)
(* The arithmetic of app/services/invoice_service.py: what an invoice      *)
(* records of the moment it is built, and what its page shows later.       *)
(***************************************************************************)
EXTENDS Integers, FiniteSetsExt

\* Fault: the balance of an invoice is not held at zero.
OrLess(x) == x

\* max(x, 0)
OrZero(x) == IF x < 0 THEN 0 ELSE x

\* _build_invoice; tax is always zero.
Invoice(subtotal, paid) ==
  [total |-> subtotal, paid |-> paid, balance |-> OrZero(subtotal - paid),
   status |-> IF subtotal - paid <= 0 THEN "paid" ELSE "open"]

\* The payments of a set of ids, added up.
Received(payments, ids) == MapThenSumSet(LAMBDA p : payments[p].amount, ids)

\* _load_invoice_context, for the invoice of a sale or a repair: what remains
\* is computed from the payments, not from the balance the invoice stores.
Remaining(invoice, received) == OrZero(invoice.total - received)
=============================================================================
