------------------------------ MODULE Payments ------------------------------
(***************************************************************************)
(* What repair jobs and lease accounts share: the payments table and the   *)
(* requests in flight.  A payment of a sale is a payment of neither        *)
(* (module Sales has those).                                               *)
(***************************************************************************)
EXTENDS Sessions, Invoices, Sequences

CONSTANTS
  PaymentIds, JobIds, LeaseIds,   \* primary keys
  Slots                           \* requests the server has in flight

VARIABLES
  payments,   \* the payment rows; Null is a row not inserted yet
  requests    \* what each request in flight has loaded and will commit

Idle == [kind |-> "idle"]

PaymentRows == [job: OrNull(JobIds), lease: OrNull(LeaseIds), amount: Int]

ForJob(j)   == {p \in PaymentIds : payments[p] # Null /\ payments[p].job = j}
ForLease(l) == {p \in PaymentIds : payments[p] # Null /\ payments[p].lease = l}

PaidForJob(j)   == Received(payments, ForJob(j))
PaidForLease(l) == Received(payments, ForLease(l))

JobPayment(j, amount)   == [job |-> j, lease |-> Null, amount |-> amount]
LeasePayment(l, amount) == [job |-> Null, lease |-> l, amount |-> amount]

InsertPayment(p, row) ==
  /\ payments[p] = Null
  /\ payments' = [payments EXCEPT ![p] = row]

Accept(slot, request) ==
  /\ requests[slot] = Idle
  /\ requests' = [requests EXCEPT ![slot] = request]

Done(slot) == requests' = [requests EXCEPT ![slot] = Idle]
=============================================================================
