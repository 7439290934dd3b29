------------------------------- MODULE Leases -------------------------------
(***************************************************************************)
(* Lease accounts: the deal, the payments collected on it, the receipt of  *)
(* each, and what is left, which no column stores: every page computes it. *)
(*                                                                         *)
(* Taking a payment is two steps: the handler inserts its own payment,     *)
(* reads the sum of the payments its transaction can see, and commits.     *)
(***************************************************************************)
EXTENDS Payments

CONSTANTS
  Deals,          \* what the form of a new lease submits
  LeaseForms,     \* what the edit form submits
  LeaseAmounts,   \* what is paid on a lease; a correction is negative
  RoundsUp        \* the (balance, scheduled payment) pairs, in cents, whose
                  \* quotient of floats lies above the whole number it should be

Frequencies == {"monthly", "bi_weekly", "weekly"}
LeaseRows == [financed: OrNull(Int), scheduled: OrNull(Nat),
              frequency: Frequencies]
DealRows  == [agreed: OrNull(Nat), down: Nat, scheduled: OrNull(Nat),
              frequency: Frequencies]

VARIABLES
  leases,     \* the lease_accounts rows
  receipts,   \* per payment taken: its lease, the amount of its collection
              \* transaction, and its invoice
  raced,      \* ghost: leases on which two takings overlapped
  touched     \* ghost: leases whose deal or payments a form has changed

leaseVars == <<leases, receipts, raced, touched>>

Dealt == {l \in LeaseIds : leases[l] # Null}

LeaseInit ==
  /\ leases   = [l \in LeaseIds |-> Null]
  /\ receipts = [p \in PaymentIds |-> Null]
  /\ raced    = {}
  /\ touched  = {}

\* create_lease
CreateLease(l, d) ==
  /\ leases[l] = Null
  /\ d.agreed # Null /\ d.agreed > 0 /\ d.down <= d.agreed
  /\ leases' = [leases EXCEPT ![l] =
       [financed |-> d.agreed - d.down, scheduled |-> d.scheduled,
        frequency |-> d.frequency]]
  /\ UNCHANGED <<receipts, raced, touched, payments, requests>>

\* update_lease overwrites the deal, the financed balance included.
UpdateLease(l, row) ==
  /\ l \in Dealt /\ row # leases[l]
  /\ leases' = [leases EXCEPT ![l] = row]
  /\ touched' = touched \cup {l}
  /\ UNCHANGED <<receipts, raced, payments, requests>>

------------------------------------------------------------------------------
(* What is left *)

Left(financed, paid) == IF financed = Null THEN 0 ELSE financed - paid

\* calculate_remaining_balance
LeaseBalance(l) == Left(leases[l].financed, PaidForLease(l))

\* ceil(a / b), exactly.
Ceiling(a, b) == (a + b - 1) \div b

\* math.ceil(float(balance) / float(payment))
PaymentsLeft(balance, payment) ==
  Ceiling(balance, payment) + IF <<balance, payment>> \in RoundsUp THEN 1 ELSE 0

\* Fault: a month has four weekly payments.
MonthsOfFour(n, frequency) ==
  CASE frequency = "monthly"   -> n
    [] frequency = "bi_weekly" -> Ceiling(n, 2)
    [] frequency = "weekly"    -> Ceiling(n, 5)

MonthsFor(n, frequency) ==
  CASE frequency = "monthly"   -> n
    [] frequency = "bi_weekly" -> Ceiling(n, 2)
    [] frequency = "weekly"    -> Ceiling(n * 7, 30)

\* calculate_remaining_months
MonthsLeft(lease, balance) ==
  IF balance <= 0 THEN 0
  ELSE IF lease.scheduled \in {Null, 0} THEN Null
  ELSE MonthsFor(PaymentsLeft(balance, lease.scheduled), lease.frequency)

------------------------------------------------------------------------------
(* Taking a payment *)

\* Fault: the receipt subtracts its payment from the sum that includes it.
LeftTwice(financed, paid, amount) == Left(financed, paid + amount + amount)

\* Fault: the sum is read before the payment is flushed.
LeftBefore(financed, paid, amount) == Left(financed, paid)

\* _compute_remaining_balance, with the payment just flushed.
LeftAfter(financed, paid, amount) == Left(financed, paid + amount)

BeginTake(slot, l, amount) ==
  /\ l \in Dealt
  /\ Accept(slot, [kind |-> "take", lease |-> l, amount |-> amount,
       left |-> LeftAfter(leases[l].financed, PaidForLease(l), amount)])
  /\ UNCHANGED <<leaseVars, payments>>

TakesOn(slot, l) == requests[slot].kind = "take" /\ requests[slot].lease = l

\* create_invoice_from_rto_payment: paid in full, with the balance of the
\* lease in place of its own.
Receipt(r) ==
  [lease |-> r.lease, booked |-> r.amount,
   invoice |-> [Invoice(r.amount, r.amount) EXCEPT !.balance = r.left]]

\* record_rto_payment: the payment, its transaction and its receipt.
CommitTake(slot) ==
  /\ requests[slot].kind = "take"
  /\ LET r == requests[slot] IN
     /\ \E p \in PaymentIds :
          /\ InsertPayment(p, LeasePayment(r.lease, r.amount))
          /\ receipts' = [receipts EXCEPT ![p] = Receipt(r)]
     /\ raced' = IF \E other \in Slots \ {slot} : TakesOn(other, r.lease)
                 THEN raced \cup {r.lease} ELSE raced
  /\ Done(slot)
  /\ UNCHANGED <<leases, touched>>

LeaseNext ==
  \/ \E l \in LeaseIds, d \in Deals : CreateLease(l, d)
  \/ \E l \in LeaseIds, row \in LeaseForms : UpdateLease(l, row)
  \/ \E slot \in Slots, l \in LeaseIds, amount \in LeaseAmounts :
       BeginTake(slot, l, amount)
  \/ \E slot \in Slots : CommitTake(slot)

------------------------------------------------------------------------------
ReceiptRows == [lease: LeaseIds, booked: Int,
                invoice: [total: Int, paid: Int, balance: Int, status: {"paid"}]]

TakeRequests == [kind: {"take"}, lease: Dealt, amount: Int, left: Int]

LeaseTypeOK ==
  /\ leases \in [LeaseIds -> OrNull(LeaseRows)]
  /\ receipts \in [PaymentIds -> OrNull(ReceiptRows)]
  /\ \A p \in PaymentIds : receipts[p] # Null => receipts[p].lease \in Dealt
  /\ raced \subseteq Dealt /\ touched \subseteq Dealt

ReceiptsOf(l) == {p \in PaymentIds : receipts[p] # Null /\ receipts[p].lease = l}
Corrected(l)  == \E p \in ForLease(l) : payments[p].amount < 0

\* Receipts of overlapping payments leave each other out, but none ever tells
\* the customer less than the pages of the lease compute, unless a correction
\* was entered or a form changed the deal or a payment (record_rto_payment,
\* _compute_remaining_balance, calculate_remaining_balance).
ReceiptsNeverUnderstate ==
  \A l \in Dealt \ touched :
    ~Corrected(l) =>
      \A p \in ReceiptsOf(l) : receipts[p].invoice.balance >= LeaseBalance(l)

\* As long as payments of a lease did not overlap, one of the receipts states
\* exactly the balance every page computes: the two computations of the
\* balance, in invoice_service and in lease_service, agree.
ReceiptStatesBalance ==
  \A l \in Dealt \ (touched \cup raced) :
    ForLease(l) # {} =>
      \E p \in ReceiptsOf(l) : receipts[p].invoice.balance = LeaseBalance(l)

\* The payments that fall due within m months of 30 days.
DueWithin(m, frequency) ==
  CASE frequency = "monthly"   -> m
    [] frequency = "bi_weekly" -> 2 * m
    [] frequency = "weekly"    -> (30 * m) \div 7

PaysOff(lease, m, balance) ==
  DueWithin(m, lease.frequency) * lease.scheduled >= balance

\* What the months are counted for: the balance and, where the division of
\* floats rounds up, one scheduled payment more.
Counted(lease, balance) ==
  balance + IF <<balance, lease.scheduled>> \in RoundsUp THEN lease.scheduled ELSE 0

\* The months shown for a lease are the fewest that pay it off. Where the
\* division of floats rounds up they are the fewest that pay off a scheduled
\* payment more, so a monthly lease is shown a month too many
\* (calculate_remaining_months).
MonthsPayOff ==
  \A l \in Dealt :
    LET m    == MonthsLeft(leases[l], LeaseBalance(l))
        owed == Counted(leases[l], LeaseBalance(l))
    IN  m \notin {0, Null} =>
          PaysOff(leases[l], m, owed) /\ ~PaysOff(leases[l], m - 1, owed)
=============================================================================
