---------------------------- MODULE Receivables ----------------------------
(***************************************************************************)
(* Repair jobs and lease accounts over one payments table, with the        *)
(* payment form, which records a payment for anything and moves it later.  *)
(***************************************************************************)
EXTENDS RepairJobs, Leases

CONSTANT PaymentForms   \* what the payment form submits

ASSUME ReceivablesConstantsOK ==
  /\ PaymentForms \subseteq PaymentRows
  /\ JobForms \subseteq JobRows /\ JobTotals \subseteq Nat /\ JobAmounts \subseteq Int
  /\ LeaseForms \subseteq LeaseRows /\ Deals \subseteq DealRows
  /\ LeaseAmounts \subseteq Int
  \* doubles of amounts in cents differ from the exact quotient by too little
  \* to cross a whole number: they only miss one they should hit
  /\ \A pair \in RoundsUp : pair[2] > 0 /\ pair[1] % pair[2] = 0
  /\ Null \notin JobIds \cup LeaseIds \cup PaymentIds \cup Customers \cup Int
  /\ Null \notin JobRows \cup LeaseRows \cup PaymentRows \cup ReceiptRows
  /\ IsFiniteSet(PaymentIds)         \* integers of 32 bits

vars == <<payments, requests, jobVars, leaseVars>>

\* create_payment and update_payment; the rows referred to exist.
SavePayment(p, row) ==
  /\ row.job \in OrNull(Opened) /\ row.lease \in OrNull(Dealt)
  /\ row # payments[p]
  /\ payments' = [payments EXCEPT ![p] = row]
  /\ touched' = touched \cup {l \in Dealt : l = row.lease \/ p \in ForLease(l)}
  /\ UNCHANGED <<jobVars, leases, receipts, raced, requests>>

\* An exception, a violated constraint or a killed process: the session rolls
\* back.
Abandon(slot) ==
  /\ requests[slot] # Idle
  /\ Done(slot)
  /\ UNCHANGED <<payments, jobVars, leaseVars>>

Init ==
  /\ payments = [p \in PaymentIds |-> Null]
  /\ requests = [slot \in Slots |-> Idle]
  /\ JobInit
  /\ LeaseInit

Next ==
  \/ JobNext /\ UNCHANGED leaseVars
  \/ LeaseNext /\ UNCHANGED jobVars
  \/ \E p \in PaymentIds, row \in PaymentForms : SavePayment(p, row)
  \/ \E slot \in Slots : Abandon(slot)

Spec == Init /\ [][Next]_vars

\* The type invariant: rows have their columns, what payments, receipts and
\* requests refer to exists, and a receipt's payment was inserted
\* (app/models).
TypeOK ==
  /\ payments \in [PaymentIds -> OrNull(PaymentRows)]
  /\ requests \in [Slots -> {Idle} \cup CloseRequests \cup TakeRequests]
  /\ JobTypeOK
  /\ LeaseTypeOK
  /\ \A p \in PaymentIds :
       /\ payments[p] # Null => /\ payments[p].job \in OrNull(Opened)
                                /\ payments[p].lease \in OrNull(Dealt)
       /\ receipts[p] # Null => payments[p] # Null
=============================================================================
