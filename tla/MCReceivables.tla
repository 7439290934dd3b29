--------------------------- MODULE MCReceivables ---------------------------
(* Model checking of Receivables: what the forms submit, and symmetries. *)
EXTENDS Receivables, TLC

Job(type, status, customer, total) ==
  [type |-> type, status |-> status, customer |-> customer, total |-> total,
   dated |-> status = "complete"]
MCJobForms ==
  {Job("customer_repair", "open", c, 0) : c \in OrNull(Customers)}
    \cup {Job("internal_recon", "complete", c, 5) : c \in Customers}

Lease(financed, scheduled, frequency) ==
  [financed |-> financed, scheduled |-> scheduled, frequency |-> frequency]
MCLeaseForms == {Lease(Null, Null, "monthly")}

Deal(agreed, down, scheduled, frequency) ==
  [agreed |-> agreed, down |-> down, scheduled |-> scheduled,
   frequency |-> frequency]
MCDeals == {Deal(8, 1, 1, "monthly"), Deal(9, 0, 1, "weekly"),
            Deal(2, 3, 1, "monthly")}

\* A payment and a correction.
MCLeaseAmounts == {2, -1}
MCPaymentForms == {[job |-> Null, lease |-> l, amount |-> 1] : l \in LeaseIds}

\* Where Python gives math.ceil(0.07 / 0.01) = 8, amounts in cents.
MCRoundsUp == {<<7, 1>>}

Symmetric == Permutations(PaymentIds) \cup Permutations(Slots)
=============================================================================
