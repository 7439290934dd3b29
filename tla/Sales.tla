------------------------------- MODULE Sales -------------------------------
(***************************************************************************)
(* Selling units: the sale, its revenue transaction, its invoice, the      *)
(* payment taken at the counter and the status of the unit.                *)
(*                                                                         *)
(* A request is two steps, Begin (read and decide) and Commit (write), and *)
(* other commits fall between the two: the handlers run in threads on a    *)
(* READ COMMITTED database, and no constraint of the database knows that a *)
(* unit is sold once.  The payment, lease and unit forms decide nothing    *)
(* and are one step each.                                                  *)
(***************************************************************************)
EXTENDS Sessions, Invoices, FiniteSets

CONSTANTS
  SaleIds, PaymentIds, LeaseIds, UnitIds,   \* primary keys
  Customers,
  Slots,               \* requests the server has in flight
  SaleForms,           \* what the sale form submits
  PaymentForms,        \* what the payment form submits
  UnitStatuses         \* statuses the unit form submits

Statuses == {"pending", "complete", "cancelled"}
SaleRows == [unit: UnitIds, customer: Customers, line: {"car", "golf_cart"},
             amount: Nat, fees: Nat, down: Nat, total: OrNull(Nat),
             status: Statuses]
RevenueRows == [amount: Nat, line: {"car", "golf_cart"}, unit: UnitIds,
                customer: Customers]
InvoiceRows == [total: Nat, paid: Nat, balance: Nat, status: {"open", "paid"}]
PaymentRows == [sale: OrNull(SaleIds), amount: Int]

ASSUME SalesConstantsOK ==
  /\ SaleForms \subseteq SaleRows /\ PaymentForms \subseteq PaymentRows
  /\ Null \notin SaleIds \cup PaymentIds \cup UnitIds \cup Customers \cup Nat
  /\ Null \notin SaleRows \cup PaymentRows \cup RevenueRows \cup InvoiceRows
  /\ SaleIds \cap UnitIds = {}

VARIABLES
  sales,        \* the sale rows; Null is a row not inserted yet
  revenue,      \* the transaction booked with each sale
  invoices,     \* the invoice built with each sale
  payments,     \* the payments, applied to a sale or to something else
  leases,       \* the unit of each lease account
  units,        \* status and linked customer of each unit
  requests,     \* what each request in flight has loaded and will commit
  revived,      \* ghost: sales brought back from cancelled on the same unit
  adjusted      \* ghost: sales and units a form has set since

vars == <<sales, revenue, invoices, payments, leases, units, requests,
          revived, adjusted>>

Made == {s \in SaleIds : sales[s] # Null}
Idle == [kind |-> "idle"]

------------------------------------------------------------------------------
(* Money *)

\* An unset or zero total_contract_amount falls back to the sum.
SaleTotal(f) ==
  IF f.total \in {Null, 0} THEN f.amount + f.fees ELSE f.total

PaidAtCounter(f) == IF f.line = "golf_cart" THEN SaleTotal(f) ELSE f.down

\* Fault: the counter takes the price without the fees.
PriceAtCounter(f) == IF f.line = "golf_cart" THEN f.amount ELSE f.down

CounterPayment(f) == PaidAtCounter(f)

SaleInvoice(f) == Invoice(f.amount + f.fees, PaidAtCounter(f))

PaymentsOf(s) == {p \in PaymentIds : payments[p] # Null /\ payments[p].sale = s}
PaidOn(s)     == Received(payments, PaymentsOf(s))

\* calculate_sale_balance
Balance(s) == SaleTotal(sales[s]) - PaidOn(s)

------------------------------------------------------------------------------
(* Availability of a unit *)

\* Fault: a complete sale counts as finished, too.
PendingOn(u) == {s \in Made : sales[s].unit = u /\ sales[s].status = "pending"}

ActiveOn(u) == {s \in Made : sales[s].unit = u /\ sales[s].status # "cancelled"}

\* Fault: the unit does not learn who bought it.
SellUnitStatus(u, loaded, customer) ==
  units' = [units EXCEPT ![u].status = Save(loaded.status, "sold", @)]

\* What a sale writes on its unit, column by column against the row loaded.
SellUnit(u, loaded, customer) ==
  units' = [units EXCEPT ![u] =
    [status   |-> Save(loaded.status, "sold", @.status),
     customer |-> Save(loaded.customer, customer, @.customer)]]

------------------------------------------------------------------------------
(* Requests *)

Init ==
  /\ sales    = [s \in SaleIds |-> Null]
  /\ revenue  = [s \in SaleIds |-> Null]
  /\ invoices = [s \in SaleIds |-> Null]
  /\ payments = [p \in PaymentIds |-> Null]
  /\ leases   = [l \in LeaseIds |-> Null]
  /\ units    = [u \in UnitIds |-> [status |-> "acquired", customer |-> Null]]
  /\ requests = [s \in Slots |-> Idle]
  /\ revived  = {}
  /\ adjusted = {}

Accept(slot, request) ==
  /\ requests[slot] = Idle
  /\ requests' = [requests EXCEPT ![slot] = request]
  /\ UNCHANGED <<sales, revenue, invoices, payments, leases, units, revived,
                 adjusted>>

Done(slot) == requests' = [requests EXCEPT ![slot] = Idle]

\* An exception or a killed process: the session rolls back.
Abandon(slot) ==
  /\ requests[slot] # Idle
  /\ Done(slot)
  /\ UNCHANGED <<sales, revenue, invoices, payments, leases, units, revived,
                 adjusted>>

------------------------------------------------------------------------------
(* Making a sale *)

BeginCreate(slot, f) ==
  /\ ActiveOn(f.unit) = {}
  /\ Accept(slot, [kind |-> "create", form |-> f, unit |-> units[f.unit]])

\* finalize_new_sale: a golf cart is paid and complete at once, a car may
\* leave a down payment.
Pay(s, f) ==
  IF f.line = "golf_cart" \/ f.down > 0
  THEN \E p \in PaymentIds :
         /\ payments[p] = Null
         /\ payments' = [payments EXCEPT ![p] =
                           [sale |-> s, amount |-> CounterPayment(f)]]
  ELSE UNCHANGED payments

CommitCreate(slot) ==
  /\ requests[slot].kind = "create"
  /\ LET f == requests[slot].form IN
     /\ \E s \in SaleIds \ Made :
          /\ sales' = [sales EXCEPT ![s] =
               [f EXCEPT !.status = IF f.line = "golf_cart" THEN "complete" ELSE @]]
          /\ revenue' = [revenue EXCEPT ![s] =
               [amount |-> f.amount, line |-> f.line, unit |-> f.unit,
                customer |-> f.customer]]
          /\ invoices' = [invoices EXCEPT ![s] = SaleInvoice(f)]
          /\ Pay(s, f)
     /\ SellUnit(f.unit, requests[slot].unit, f.customer)
  /\ Done(slot)
  /\ UNCHANGED <<leases, revived, adjusted>>

------------------------------------------------------------------------------
(* Completing and editing a sale *)

Paid(s)   == PaymentsOf(s) # {}
Leased(u) == \E l \in LeaseIds : leases[l] = u

\* Saving sale s brings it back from cancelled on the unit it had.
Revive(s) ==
  revived' = IF /\ sales[s].status = "cancelled"
                /\ sales'[s].status # "cancelled"
                /\ sales'[s].unit = sales[s].unit
             THEN revived \cup {s} ELSE revived

BeginComplete(slot, s) ==
  /\ s \in Made
  /\ Paid(s) \/ Leased(sales[s].unit)
  /\ Accept(slot, [kind |-> "complete", sale |-> s, seen |-> sales[s],
                   unit |-> units[sales[s].unit]])

CommitComplete(slot) ==
  /\ requests[slot].kind = "complete"
  /\ LET r == requests[slot]  s == r.sale IN
     /\ sales' = [sales EXCEPT ![s].status = Save(r.seen.status, "complete", @)]
     /\ SellUnit(r.seen.unit, r.unit, r.seen.customer)
     /\ Revive(s)
  /\ Done(slot)
  /\ UNCHANGED <<revenue, invoices, payments, leases, adjusted>>

\* The other unit must be free; the unit the sale had is not asked.
BeginEdit(slot, s, f) ==
  /\ s \in Made
  /\ f.unit # sales[s].unit => ActiveOn(f.unit) = {}
  /\ Accept(slot, [kind |-> "edit", sale |-> s, form |-> f, seen |-> sales[s]])

SavedSale(row, loaded, f) ==
  [row EXCEPT !.unit     = Save(loaded.unit, f.unit, @),
              !.customer = Save(loaded.customer, f.customer, @),
              !.line     = Save(loaded.line, f.line, @),
              !.amount   = Save(loaded.amount, f.amount, @),
              !.fees     = Save(loaded.fees, f.fees, @),
              !.down     = Save(loaded.down, f.down, @),
              !.total    = Save(loaded.total, f.total, @),
              !.status   = Save(loaded.status, f.status, @)]

\* update_sale writes the sale and nothing else: not the units, the revenue,
\* the invoice or the payments.
CommitEdit(slot) ==
  /\ requests[slot].kind = "edit"
  /\ LET r == requests[slot]
         s == r.sale
         row == SavedSale(sales[s], r.seen, r.form)
         moved == {row.unit, sales[s].unit}
     IN /\ sales' = [sales EXCEPT ![s] = row]
        /\ Revive(s)
        /\ adjusted' = adjusted \cup {s} \cup
             IF row.unit = sales[s].unit /\ row.customer = sales[s].customer
             THEN {} ELSE moved
  /\ Done(slot)
  /\ UNCHANGED <<revenue, invoices, payments, leases, units>>

------------------------------------------------------------------------------
(* The forms beside it *)

\* create_payment, update_payment
SavePayment(p, row) ==
  /\ row.sale \in OrNull(Made)
  /\ payments' = [payments EXCEPT ![p] = row]
  /\ adjusted' = adjusted \cup {s \in Made : s = row.sale \/ p \in PaymentsOf(s)}
  /\ UNCHANGED <<sales, revenue, invoices, leases, units, requests, revived>>

\* create_lease and update_lease, for what complete_sale asks of a lease.
SaveLease(l, u) ==
  /\ leases' = [leases EXCEPT ![l] = u]
  /\ UNCHANGED <<sales, revenue, invoices, payments, units, requests, revived,
                 adjusted>>

\* update_unit sets the status and leaves the linked customer alone.
SaveUnit(u, status) ==
  /\ units' = [units EXCEPT ![u].status = status]
  /\ adjusted' = adjusted \cup {u}
  /\ UNCHANGED <<sales, revenue, invoices, payments, leases, requests, revived>>

------------------------------------------------------------------------------
Begin(slot) ==
  \/ \E f \in SaleForms : BeginCreate(slot, f)
  \/ \E s \in SaleIds : BeginComplete(slot, s)
  \/ \E s \in SaleIds, f \in SaleForms : BeginEdit(slot, s, f)

Commit(slot) == CommitCreate(slot) \/ CommitComplete(slot) \/ CommitEdit(slot)

Forms ==
  \/ \E p \in PaymentIds, row \in PaymentForms : SavePayment(p, row)
  \/ \E l \in LeaseIds, u \in UnitIds : SaveLease(l, u)
  \/ \E u \in UnitIds, status \in UnitStatuses : SaveUnit(u, status)

Next ==
  \/ \E slot \in Slots : Begin(slot) \/ Commit(slot) \/ Abandon(slot)
  \/ Forms

Spec == Init /\ [][Next]_vars
------------------------------------------------------------------------------
(* Types *)

UnitRows == [status: UnitStatuses \cup {"acquired", "sold"},
             customer: OrNull(Customers)]
CreateRequests == [kind: {"create"}, form: SaleRows, unit: UnitRows]
CompleteRequests == [kind: {"complete"}, sale: SaleIds, seen: SaleRows,
                     unit: UnitRows]
EditRequests == [kind: {"edit"}, sale: SaleIds, form: SaleRows, seen: SaleRows]

\* The type invariant: rows have their columns, a sale has its transaction and
\* its invoice from its first commit on, and what payments, requests and ghosts
\* refer to exists (app/models).
TypeOK ==
  /\ sales \in [SaleIds -> OrNull(SaleRows)]
  /\ revenue \in [SaleIds -> OrNull(RevenueRows)]
  /\ invoices \in [SaleIds -> OrNull(InvoiceRows)]
  /\ payments \in [PaymentIds -> OrNull(PaymentRows)]
  /\ leases \in [LeaseIds -> OrNull(UnitIds)]
  /\ units \in [UnitIds -> UnitRows]
  /\ requests \in [Slots -> {Idle} \cup CreateRequests \cup CompleteRequests
                               \cup EditRequests]
  /\ revived \subseteq SaleIds /\ adjusted \subseteq SaleIds \cup UnitIds
  /\ \A s \in SaleIds : /\ sales[s] = Null <=> revenue[s] = Null
                        /\ sales[s] = Null <=> invoices[s] = Null
  /\ \A p \in PaymentIds : payments[p] # Null => payments[p].sale \in OrNull(Made)
  /\ \A slot \in Slots :
       requests[slot].kind \in {"complete", "edit"} => requests[slot].sale \in Made

------------------------------------------------------------------------------
(* Properties *)

\* With one request at a time, a unit has at most one active sale, through any
\* sequence of sales, cancellations and moves to other units, unless a
\* cancelled sale was brought back (_active_sale_for_unit).
OneActiveSale ==
  \A s, t \in Made :
    {s, t} \subseteq ActiveOn(sales[s].unit) =>
      s = t \/ {s, t} \cap revived # {}

\* A sold unit names a buyer, and there is a sale of that unit to that buyer,
\* whatever requests overlapped, until a form moves the sale or sets the unit
\* (finalize_new_sale, complete_sale).
SoldUnitHasBuyer ==
  \A u \in UnitIds \ adjusted :
    units[u].status = "sold" =>
      \E s \in Made : sales[s].unit = u /\ sales[s].customer = units[u].customer

\* Until a form touches a sale or its payments, its invoice says as much paid
\* as the payments add up to, stores the balance its page computes from them,
\* and a golf cart is complete with nothing left to pay (finalize_new_sale,
\* create_invoice_from_sale, _load_invoice_context).
PaidAsInvoiced ==
  \A s \in Made \ adjusted :
    /\ invoices[s].paid = PaidOn(s)
    /\ invoices[s].balance = Remaining(invoices[s], PaidOn(s))
    /\ sales[s].line = "golf_cart" =>
         Balance(s) = 0 /\ sales[s].status = "complete"
=============================================================================
