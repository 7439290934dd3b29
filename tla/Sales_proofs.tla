---------------------------- MODULE Sales_proofs ----------------------------
(***************************************************************************)
(* Proofs about Sales, for every value of its constants.                   *)
(***************************************************************************)
EXTENDS Sales, FiniteSetTheorems, TLAPS

------------------------------------------------------------------------------
(* The type invariant *)

\* A request in flight has the columns of its kind.
LEMMA RequestTypes ==
  ASSUME TypeOK, NEW slot \in Slots
  PROVE  LET r == requests[slot] IN
         /\ r.kind = "create" => r \in CreateRequests
         /\ r.kind = "complete" => r \in CompleteRequests /\ r.sale \in Made
         /\ r.kind = "edit" => r \in EditRequests /\ r.sale \in Made
<1>1. requests[slot] \in {Idle} \cup CreateRequests \cup CompleteRequests
                         \cup EditRequests
  BY DEF TypeOK
<1>2. /\ Idle.kind = "idle"
      /\ \A r \in CreateRequests : r.kind = "create"
      /\ \A r \in CompleteRequests : r.kind = "complete"
      /\ \A r \in EditRequests : r.kind = "edit"
  BY DEF Idle, CreateRequests, CompleteRequests, EditRequests
<1> QED BY <1>1, <1>2 DEF TypeOK

\* A sale that was made has a row.
LEMMA MadeTypes ==
  ASSUME TypeOK, NEW s \in Made
  PROVE  s \in SaleIds /\ sales[s] \in SaleRows
BY DEF TypeOK, Made, OrNull

\* A row is not Null.
LEMMA NullIsNoRow ==
  /\ Null \notin SaleRows /\ Null \notin RevenueRows /\ Null \notin InvoiceRows
BY SalesConstantsOK

\* The papers of a sale have their columns.
LEMMA PaperTypes ==
  ASSUME NEW f \in SaleRows
  PROVE  /\ SaleTotal(f) \in Nat /\ CounterPayment(f) \in Nat
         /\ SaleInvoice(f) \in InvoiceRows
<1>1. SaleTotal(f) \in Nat
  BY DEF SaleRows, SaleTotal, OrNull
<1>2. CounterPayment(f) \in Nat /\ PaidAtCounter(f) \in Nat
  BY <1>1 DEF SaleRows, CounterPayment, PaidAtCounter
<1>3. f.amount + f.fees \in Nat
  BY DEF SaleRows
<1>4. \A t, d \in Nat : Invoice(t, d) \in InvoiceRows
  BY DEF Invoice, InvoiceRows, OrZero
<1> QED BY <1>1, <1>2, <1>3, <1>4 DEF SaleInvoice

\* What a sale writes on its unit is a row of the table.
LEMMA UnitType ==
  ASSUME TypeOK, NEW u \in UnitIds, NEW loaded \in UnitRows,
         NEW customer \in Customers, SellUnit(u, loaded, customer)
  PROVE  units' \in [UnitIds -> UnitRows]
<1> DEFINE row == [status   |-> Save(loaded.status, "sold", units[u].status),
                   customer |-> Save(loaded.customer, customer, units[u].customer)]
<1>1. units[u] \in UnitRows
  BY DEF TypeOK
<1>2. row \in UnitRows
  BY <1>1 DEF Save, UnitRows, OrNull
<1>3. units' = [units EXCEPT ![u] = row]
  BY DEF SellUnit
<1> HIDE DEF row
<1> QED BY <1>2, <1>3 DEF TypeOK

\* What the form saves is a row of the table.
LEMMA SavedType ==
  ASSUME NEW row \in SaleRows, NEW loaded \in SaleRows, NEW f \in SaleRows
  PROVE  SavedSale(row, loaded, f) \in SaleRows
<1> DEFINE unit     == Save(loaded.unit, f.unit, row.unit)
           customer == Save(loaded.customer, f.customer, row.customer)
           line     == Save(loaded.line, f.line, row.line)
           amount   == Save(loaded.amount, f.amount, row.amount)
           fees     == Save(loaded.fees, f.fees, row.fees)
           down     == Save(loaded.down, f.down, row.down)
           total    == Save(loaded.total, f.total, row.total)
           status   == Save(loaded.status, f.status, row.status)
<1>1. /\ unit \in UnitIds /\ customer \in Customers
      /\ line \in {"car", "golf_cart"} /\ amount \in Nat
  BY DEF Save, SaleRows
<1>2. /\ fees \in Nat /\ down \in Nat /\ total \in OrNull(Nat)
      /\ status \in Statuses
  BY DEF Save, SaleRows
<1>3. SavedSale(row, loaded, f) =
        [row EXCEPT !.unit = unit, !.customer = customer, !.line = line,
                    !.amount = amount, !.fees = fees, !.down = down,
                    !.total = total, !.status = status]
  BY DEF SavedSale
<1> HIDE DEF unit, customer, line, amount, fees, down, total, status
<1> QED BY <1>1, <1>2, <1>3 DEF SaleRows

\* The requests in flight stay typed while sales are only added.
RequestsTyped ==
  /\ requests \in [Slots -> {Idle} \cup CreateRequests \cup CompleteRequests
                              \cup EditRequests]
  /\ \A slot \in Slots :
       requests[slot].kind \in {"complete", "edit"} => requests[slot].sale \in Made

LEMMA DoneTyped ==
  ASSUME TypeOK, NEW slot \in Slots, Done(slot), Made \subseteq Made'
  PROVE  RequestsTyped'
<1>1. \A t \in Slots : requests'[t] = IF t = slot THEN Idle ELSE requests[t]
  BY DEF Done, TypeOK
<1>2. Idle.kind = "idle"
  BY DEF Idle
<1>3. requests' \in [Slots -> {Idle} \cup CreateRequests \cup CompleteRequests
                                \cup EditRequests]
  BY DEF Done, TypeOK
<1> QED BY <1>1, <1>2, <1>3 DEF RequestsTyped, TypeOK

LEMMA AcceptTypeOK ==
  ASSUME TypeOK, NEW slot \in Slots,
         NEW r \in CreateRequests \cup CompleteRequests \cup EditRequests,
         r.kind \in {"complete", "edit"} => r.sale \in Made,
         Accept(slot, r)
  PROVE  TypeOK'
<1>1. \A t \in Slots : requests'[t] = IF t = slot THEN r ELSE requests[t]
  BY DEF Accept, TypeOK
<1>2. Made' = Made
  BY DEF Accept, Made
<1>3. requests' \in [Slots -> {Idle} \cup CreateRequests \cup CompleteRequests
                                \cup EditRequests]
  BY DEF Accept, TypeOK
<1> QED BY <1>1, <1>2, <1>3 DEF TypeOK, Accept

LEMMA BeginTypeOK ==
  ASSUME TypeOK, NEW slot \in Slots, Begin(slot)
  PROVE  TypeOK'
<1>1. ASSUME NEW f \in SaleForms, BeginCreate(slot, f) PROVE TypeOK'
  <2> DEFINE r == [kind |-> "create", form |-> f, unit |-> units[f.unit]]
  <2>1. f \in SaleRows /\ f.unit \in UnitIds
    BY SalesConstantsOK DEF SaleRows
  <2>2. units[f.unit] \in UnitRows
    BY <2>1 DEF TypeOK
  <2>3. r \in CreateRequests /\ r.kind = "create"
    BY <2>1, <2>2 DEF CreateRequests
  <2>4. Accept(slot, r)
    BY <1>1 DEF BeginCreate
  <2> HIDE DEF r
  <2> QED BY <2>3, <2>4, AcceptTypeOK
<1>2. ASSUME NEW s \in SaleIds, BeginComplete(slot, s) PROVE TypeOK'
  <2> DEFINE r == [kind |-> "complete", sale |-> s, seen |-> sales[s],
                   unit |-> units[sales[s].unit]]
  <2>1. s \in Made /\ Accept(slot, r)
    BY <1>2 DEF BeginComplete
  <2>2. sales[s] \in SaleRows
    BY <2>1, MadeTypes
  <2>3. units[sales[s].unit] \in UnitRows
    BY <2>2 DEF TypeOK, SaleRows
  <2>4. r \in CompleteRequests /\ r.sale = s
    BY <2>2, <2>3 DEF CompleteRequests
  <2> HIDE DEF r
  <2> QED BY <2>1, <2>4, AcceptTypeOK
<1>3. ASSUME NEW s \in SaleIds, NEW f \in SaleForms, BeginEdit(slot, s, f)
      PROVE  TypeOK'
  <2> DEFINE r == [kind |-> "edit", sale |-> s, form |-> f, seen |-> sales[s]]
  <2>1. s \in Made /\ Accept(slot, r)
    BY <1>3 DEF BeginEdit
  <2>2. sales[s] \in SaleRows /\ f \in SaleRows
    BY <2>1, MadeTypes, SalesConstantsOK
  <2>3. r \in EditRequests /\ r.sale = s
    BY <2>2 DEF EditRequests
  <2> HIDE DEF r
  <2> QED BY <2>1, <2>3, AcceptTypeOK
<1> QED BY <1>1, <1>2, <1>3 DEF Begin

\* Saving a sale that was made keeps the tables typed.
LEMMA SaleSavedTypeOK ==
  ASSUME TypeOK, NEW s \in Made, NEW row \in SaleRows,
         sales' = [sales EXCEPT ![s] = row],
         units' \in [UnitIds -> UnitRows],
         revived' \subseteq revived \cup {s},
         adjusted' \subseteq adjusted \cup {s} \cup UnitIds,
         UNCHANGED <<revenue, invoices, payments, leases>>,
         Made \subseteq Made' => RequestsTyped'
  PROVE  TypeOK'
<1>1. s \in SaleIds /\ row # Null /\ sales[s] # Null
  BY NullIsNoRow DEF Made
<1>2. Made' = Made
  BY <1>1 DEF Made, TypeOK
<1>3. /\ sales' \in [SaleIds -> OrNull(SaleRows)]
      /\ \A t \in SaleIds : sales'[t] = Null <=> sales[t] = Null
  BY <1>1 DEF TypeOK, OrNull
<1> QED BY <1>1, <1>2, <1>3 DEF TypeOK, RequestsTyped

LEMMA CommitTypeOK ==
  ASSUME TypeOK, NEW slot \in Slots, Commit(slot)
  PROVE  TypeOK'
<1> DEFINE r == requests[slot]
<1> SUFFICES ASSUME Made \subseteq Made' => RequestsTyped'
             PROVE  TypeOK'
  BY DoneTyped DEF Commit, CommitCreate, CommitComplete, CommitEdit
<1>1. CASE CommitCreate(slot)
  <2>1. r \in CreateRequests
    BY <1>1, RequestTypes DEF CommitCreate
  <2> DEFINE f == r.form
  <2>2. f \in SaleRows /\ r.unit \in UnitRows
    BY <2>1 DEF CreateRequests
  <2>3. f.unit \in UnitIds /\ f.customer \in Customers
    BY <2>2 DEF SaleRows
  <2>4. PICK s \in SaleIds \ Made :
          /\ sales' = [sales EXCEPT ![s] =
               [f EXCEPT !.status = IF f.line = "golf_cart" THEN "complete" ELSE @]]
          /\ revenue' = [revenue EXCEPT ![s] =
               [amount |-> f.amount, line |-> f.line, unit |-> f.unit,
                customer |-> f.customer]]
          /\ invoices' = [invoices EXCEPT ![s] = SaleInvoice(f)]
          /\ Pay(s, f)
    BY <1>1 DEF CommitCreate
  <2> DEFINE row == [f EXCEPT !.status = IF f.line = "golf_cart" THEN "complete" ELSE @]
             booked == [amount |-> f.amount, line |-> f.line, unit |-> f.unit,
                        customer |-> f.customer]
  <2>5. row \in SaleRows /\ booked \in RevenueRows /\ SaleInvoice(f) \in InvoiceRows
    <3>1. row \in SaleRows
      BY <2>2 DEF SaleRows, Statuses
    <3>2. booked \in RevenueRows
      BY <2>2 DEF SaleRows, RevenueRows
    <3> QED BY <3>1, <3>2, <2>2, PaperTypes
  <2>6. /\ sales' = [sales EXCEPT ![s] = row]
        /\ revenue' = [revenue EXCEPT ![s] = booked]
    BY <2>4
  <2>7. SellUnit(f.unit, r.unit, f.customer)
    BY <1>1 DEF CommitCreate
  <2>8. units' \in [UnitIds -> UnitRows]
    BY <2>2, <2>3, <2>7, UnitType
  <2>9. CounterPayment(f) \in Nat
    BY <2>2, PaperTypes
  <2> HIDE DEF row, booked, f, r
  <2>10. /\ sales' \in [SaleIds -> OrNull(SaleRows)]
         /\ revenue' \in [SaleIds -> OrNull(RevenueRows)]
         /\ invoices' \in [SaleIds -> OrNull(InvoiceRows)]
    BY <2>4, <2>5, <2>6 DEF TypeOK, OrNull
  <2>11. row # Null /\ booked # Null /\ SaleInvoice(f) # Null
    BY <2>5, NullIsNoRow
  <2>12. Made' = Made \cup {s}
    BY <2>4, <2>6, <2>11 DEF Made, TypeOK
  <2>13. \A t \in SaleIds : /\ sales'[t] = Null <=> revenue'[t] = Null
                            /\ sales'[t] = Null <=> invoices'[t] = Null
    BY <2>4, <2>6, <2>11 DEF TypeOK
  <2>14. /\ payments' \in [PaymentIds -> OrNull(PaymentRows)]
         /\ \A p \in PaymentIds :
              payments'[p] # Null => payments'[p].sale \in OrNull(Made')
    <3>1. CASE UNCHANGED payments
      BY <3>1, <2>12 DEF TypeOK, OrNull
    <3>2. ASSUME NEW p \in PaymentIds,
                 payments' = [payments EXCEPT ![p] =
                               [sale |-> s, amount |-> CounterPayment(f)]]
          PROVE  <2>14!1 /\ <2>14!2
      <4> DEFINE paid == [sale |-> s, amount |-> CounterPayment(f)]
      <4>1. paid \in PaymentRows /\ paid.sale = s
        BY <2>9 DEF PaymentRows, OrNull
      <4>2. payments' = [payments EXCEPT ![p] = paid]
        BY <3>2
      <4> HIDE DEF paid
      <4> QED BY <4>1, <4>2, <2>12 DEF TypeOK, OrNull
    <3> QED BY <3>1, <3>2, <2>4 DEF Pay
  <2>15. UNCHANGED <<leases, revived, adjusted>>
    BY <1>1 DEF CommitCreate
  <2> QED BY <2>8, <2>10, <2>12, <2>13, <2>14, <2>15 DEF TypeOK, RequestsTyped
<1>2. CASE CommitComplete(slot)
  <2>1. r \in CompleteRequests /\ r.sale \in Made
    BY <1>2, RequestTypes DEF CommitComplete
  <2> DEFINE s == r.sale
             status == Save(r.seen.status, "complete", sales[s].status)
             row == [sales[s] EXCEPT !.status = status]
  <2>2. s \in SaleIds /\ sales[s] \in SaleRows
    BY <2>1, MadeTypes
  <2>3. r.seen \in SaleRows /\ r.unit \in UnitRows
    BY <2>1 DEF CompleteRequests
  <2>4. row \in SaleRows
    <3>1. status \in Statuses
      BY <2>2 DEF Save, SaleRows, Statuses
    <3> HIDE DEF status
    <3> QED BY <2>2, <3>1 DEF SaleRows
  <2>5. sales' = [sales EXCEPT ![s] = row]
    BY <1>2 DEF CommitComplete
  <2>6. units' \in [UnitIds -> UnitRows]
    <3>1. r.seen.unit \in UnitIds /\ r.seen.customer \in Customers
      BY <2>3 DEF SaleRows
    <3>2. SellUnit(r.seen.unit, r.unit, r.seen.customer)
      BY <1>2 DEF CommitComplete
    <3> QED BY <2>3, <3>1, <3>2, UnitType
  <2>7. revived' \subseteq revived \cup {s}
    BY <1>2 DEF CommitComplete, Revive
  <2>8. UNCHANGED <<revenue, invoices, payments, leases, adjusted>>
    BY <1>2 DEF CommitComplete
  <2> HIDE DEF row
  <2> QED BY <2>1, <2>2, <2>4, <2>5, <2>6, <2>7, <2>8, SaleSavedTypeOK
<1>3. CASE CommitEdit(slot)
  <2>1. r \in EditRequests /\ r.sale \in Made
    BY <1>3, RequestTypes DEF CommitEdit
  <2> DEFINE s == r.sale
             row == SavedSale(sales[s], r.seen, r.form)
  <2>2. s \in SaleIds /\ sales[s] \in SaleRows
    BY <2>1, MadeTypes
  <2>3. row \in SaleRows
    BY <2>1, <2>2, SavedType DEF EditRequests
  <2>4. sales' = [sales EXCEPT ![s] = row]
    BY <1>3 DEF CommitEdit
  <2>5. revived' \subseteq revived \cup {s}
    BY <1>3 DEF CommitEdit, Revive
  <2>6. row.unit \in UnitIds /\ sales[s].unit \in UnitIds
    BY <2>2, <2>3 DEF SaleRows
  <2>7. adjusted' \subseteq adjusted \cup {s, row.unit, sales[s].unit}
    BY <1>3 DEF CommitEdit
  <2>8. UNCHANGED <<revenue, invoices, payments, leases, units>>
    BY <1>3 DEF CommitEdit
  <2>9. adjusted' \subseteq adjusted \cup {s} \cup UnitIds
    BY <2>6, <2>7
  <2>10. units' \in [UnitIds -> UnitRows]
    BY <2>8 DEF TypeOK
  <2> HIDE DEF row, s
  <2> QED BY <2>1, <2>3, <2>4, <2>5, <2>8, <2>9, <2>10, SaleSavedTypeOK DEF s
<1> QED BY <1>1, <1>2, <1>3 DEF Commit

LEMMA FormsTypeOK ==
  ASSUME TypeOK, Forms PROVE TypeOK'
<1>1. ASSUME NEW p \in PaymentIds, NEW row \in PaymentForms, SavePayment(p, row)
      PROVE  TypeOK'
  <2>1. row \in PaymentRows /\ row.sale \in OrNull(Made)
    BY <1>1, SalesConstantsOK DEF SavePayment
  <2>2. Made' = Made /\ payments' = [payments EXCEPT ![p] = row]
    BY <1>1 DEF SavePayment, Made
  <2>3. adjusted' \subseteq adjusted \cup SaleIds
    BY <1>1 DEF SavePayment, Made
  <2> QED BY <1>1, <2>1, <2>2, <2>3 DEF TypeOK, SavePayment, OrNull
<1>2. ASSUME NEW l \in LeaseIds, NEW u \in UnitIds, SaveLease(l, u) PROVE TypeOK'
  <2>1. Made' = Made
    BY <1>2 DEF SaveLease, Made
  <2> QED BY <1>2, <2>1 DEF TypeOK, SaveLease, OrNull
<1>3. ASSUME NEW u \in UnitIds, NEW status \in UnitStatuses, SaveUnit(u, status)
      PROVE  TypeOK'
  <2>1. Made' = Made
    BY <1>3 DEF SaveUnit, Made
  <2> DEFINE row == [units[u] EXCEPT !.status = status]
  <2>2. row \in UnitRows
    BY DEF TypeOK, UnitRows
  <2>3. units' = [units EXCEPT ![u] = row]
    BY <1>3 DEF SaveUnit
  <2> HIDE DEF row
  <2> QED BY <1>3, <2>1, <2>2, <2>3 DEF TypeOK, SaveUnit
<1> QED BY <1>1, <1>2, <1>3 DEF Forms

LEMMA InitTypeOK == Init => TypeOK
BY DEF Init, TypeOK, OrNull, Idle, Made, UnitRows

LEMMA NextTypeOK == TypeOK /\ [Next]_vars => TypeOK'
<1> SUFFICES ASSUME TypeOK, [Next]_vars PROVE TypeOK'
  OBVIOUS
<1>1. ASSUME NEW slot \in Slots, Abandon(slot) PROVE TypeOK'
  <2>1. Made' = Made
    BY <1>1 DEF Abandon, Made
  <2>2. RequestsTyped'
    BY <1>1, <2>1, DoneTyped DEF Abandon
  <2> QED BY <1>1, <2>1, <2>2 DEF Abandon, TypeOK, RequestsTyped
<1>2. CASE UNCHANGED vars
  BY <1>2 DEF vars, TypeOK, Made
<1> QED BY <1>1, <1>2, BeginTypeOK, CommitTypeOK, FormsTypeOK DEF Next

\* Rows have their columns, every sale has its transaction and its invoice, and
\* what payments and requests refer to exists.
THEOREM SalesTyped == Spec => []TypeOK
BY InitTypeOK, NextTypeOK, PTL DEF Spec

------------------------------------------------------------------------------
(* Sold units and their buyers, for any number of requests in flight *)

Buyer(u) ==
  \E s \in Made : sales[s].unit = u /\ sales[s].customer = units[u].customer

\* A unit nobody set by hand has a customer only if it is sold.
UnsoldHasNoCustomer ==
  \A u \in UnitIds \ adjusted :
    units[u].status # "sold" => units[u].customer = Null

\* What a request has loaded of a unit no form has set: sold is still sold, and
\* a unit that was not sold had no customer.
Loaded(u, row) ==
  u \notin adjusted =>
    /\ row.status = "sold" => units[u].status = "sold"
    /\ row.status # "sold" => row.customer = Null

RequestInStep(r) ==
  /\ r.kind = "create" => Loaded(r.form.unit, r.unit)
  /\ r.kind = "complete" =>
       /\ Loaded(r.seen.unit, r.unit)
       /\ r.seen.unit \notin adjusted =>
            /\ sales[r.sale].unit = r.seen.unit
            /\ sales[r.sale].customer = r.seen.customer

BInv ==
  /\ TypeOK
  /\ SoldUnitHasBuyer
  /\ UnsoldHasNoCustomer
  /\ \A slot \in Slots : RequestInStep(requests[slot])

\* A step moves no sale of a unit that stays untouched by the forms.
SalesStay ==
  \A s \in Made :
    /\ s \in Made'
    /\ sales[s].unit \notin adjusted' =>
         sales'[s].unit = sales[s].unit /\ sales'[s].customer = sales[s].customer

\* A step leaves an untouched unit alone or sells it.
UnitsStay ==
  \A u \in UnitIds \ adjusted' :
    units'[u] = units[u] \/ (units'[u].status = "sold" /\ Buyer(u)')

\* The induction step, from what the step does to sales, units and requests.
LEMMA StepBInv ==
  ASSUME BInv, TypeOK', SalesStay, UnitsStay, adjusted \subseteq adjusted',
         \A t \in Slots : \/ requests'[t] = requests[t]
                          \/ RequestInStep(requests[t])' 
  PROVE  BInv'
<1>1. SoldUnitHasBuyer'
  <2> SUFFICES ASSUME NEW u \in UnitIds \ adjusted', units'[u].status = "sold"
               PROVE  Buyer(u)'
    BY DEF SoldUnitHasBuyer, Buyer
  <2>1. CASE units'[u] = units[u]
    <3>1. PICK s \in Made :
            sales[s].unit = u /\ sales[s].customer = units[u].customer
      BY <2>1 DEF BInv, SoldUnitHasBuyer
    <3> QED BY <2>1, <3>1 DEF SalesStay, Buyer
  <2> QED BY <2>1 DEF UnitsStay
<1>2. UnsoldHasNoCustomer'
  BY DEF UnitsStay, BInv, UnsoldHasNoCustomer
<1>3. ASSUME NEW t \in Slots PROVE RequestInStep(requests[t])'
  <2> DEFINE r == requests[t]
  <2>1. CASE requests'[t] = r
    <3>1. r.kind = "create" => r \in CreateRequests
      BY RequestTypes DEF BInv
    <3>2. r.kind = "complete" => r \in CompleteRequests /\ r.sale \in Made
      BY RequestTypes DEF BInv
    <3>3. RequestInStep(r)
      BY DEF BInv
    <3>4. r.kind = "create" => r.form.unit \in UnitIds
      BY <3>1 DEF CreateRequests, SaleRows
    <3>5. r.kind = "complete" => r.seen.unit \in UnitIds
      BY <3>2 DEF CompleteRequests, SaleRows
    <3>6. \A u \in UnitIds : \A row : Loaded(u, row) => Loaded(u, row)'
      BY DEF Loaded, UnitsStay
    <3> QED BY <2>1, <3>2, <3>3, <3>4, <3>5, <3>6
            DEF RequestInStep, SalesStay
  <2> QED BY <2>1
<1> QED BY <1>1, <1>2, <1>3 DEF BInv

\* Selling an untouched unit: it ends sold, to this customer or to the one it
\* was already sold to.
LEMMA SoldTo ==
  ASSUME BInv, NEW u \in UnitIds \ adjusted, NEW loaded, Loaded(u, loaded),
         NEW customer \in Customers, SellUnit(u, loaded, customer)
  PROVE  /\ units'[u].status = "sold"
         /\ \/ units'[u].customer = customer
            \/ units[u].status = "sold" /\ units'[u].customer = units[u].customer
         /\ \A v \in UnitIds \ {u} : units'[v] = units[v]
<1> DEFINE row == [status   |-> Save(loaded.status, "sold", units[u].status),
                   customer |-> Save(loaded.customer, customer, units[u].customer)]
<1>1. units' = [units EXCEPT ![u] = row]
  BY DEF SellUnit
<1>2. row.status = "sold"
  BY DEF Save, Loaded
<1>3. \/ row.customer = customer
      \/ units[u].status = "sold" /\ row.customer = units[u].customer
  <2>1. customer # Null
    BY SalesConstantsOK
  <2>2. CASE customer = loaded.customer
    BY <2>1, <2>2 DEF Save, Loaded
  <2>3. CASE customer # loaded.customer
    BY <2>3 DEF Save
  <2> QED BY <2>2, <2>3
<1> HIDE DEF row
<1> QED BY <1>1, <1>2, <1>3 DEF BInv, TypeOK

\* Selling a unit to the customer of a sale of it keeps the units in step.
LEMMA SellingStays ==
  ASSUME BInv, NEW u \in UnitIds, NEW loaded, NEW c \in Customers, NEW s,
         Loaded(u, loaded), SellUnit(u, loaded, c), adjusted' = adjusted,
         SalesStay, s \in Made',
         u \notin adjusted => sales'[s].unit = u /\ sales'[s].customer = c
  PROVE  UnitsStay
<1>1. CASE u \in adjusted
  <2>1. \A v \in UnitIds \ {u} : units'[v] = units[v]
    BY DEF SellUnit, BInv, TypeOK
  <2> QED BY <1>1, <2>1 DEF UnitsStay
<1>2. CASE u \notin adjusted
  <2>1. /\ units'[u].status = "sold"
        /\ \/ units'[u].customer = c
           \/ units[u].status = "sold" /\ units'[u].customer = units[u].customer
        /\ \A v \in UnitIds \ {u} : units'[v] = units[v]
    BY <1>2, SoldTo
  <2>2. CASE units'[u].customer = c
    BY <1>2, <2>1, <2>2 DEF UnitsStay, Buyer
  <2>3. CASE /\ units[u].status = "sold"
             /\ units'[u].customer = units[u].customer
    <3>1. PICK b \in Made :
            sales[b].unit = u /\ sales[b].customer = units[u].customer
      BY <1>2, <2>3 DEF BInv, SoldUnitHasBuyer
    <3>2. b \in Made' /\ sales'[b].unit = u /\ sales'[b].customer = units'[u].customer
      BY <1>2, <2>3, <3>1 DEF SalesStay
    <3> QED BY <2>1, <3>2 DEF UnitsStay, Buyer
  <2> QED BY <2>1, <2>2, <2>3
<1> QED BY <1>1, <1>2

\* A finished request says nothing any more.
LEMMA DoneInStep ==
  ASSUME TypeOK, NEW slot \in Slots, Done(slot), NEW t \in Slots
  PROVE  requests'[t] = requests[t] \/ RequestInStep(requests[t])'
BY DEF Done, TypeOK, RequestInStep, Idle

LEMMA BeginBInv ==
  ASSUME BInv, TypeOK', NEW slot \in Slots, Begin(slot)
  PROVE  BInv'
<1>1. PICK r : Accept(slot, r)
  BY DEF Begin, BeginCreate, BeginComplete, BeginEdit
<1>2. SalesStay /\ UnitsStay /\ adjusted \subseteq adjusted'
  BY <1>1 DEF Accept, SalesStay, UnitsStay, Made
<1>3. \A u \in UnitIds : Loaded(u, units[u])
  BY DEF BInv, UnsoldHasNoCustomer, Loaded
<1>4. RequestInStep(requests[slot])'
  <2>1. ASSUME NEW f \in SaleForms, BeginCreate(slot, f)
        PROVE  RequestInStep(requests[slot])'
    <3>1. f.unit \in UnitIds
      BY SalesConstantsOK DEF SaleRows
    <3>2. requests'[slot] =
            [kind |-> "create", form |-> f, unit |-> units[f.unit]]
      BY <2>1 DEF BeginCreate, Accept, BInv, TypeOK
    <3>3. adjusted' = adjusted /\ units' = units
      BY <2>1 DEF BeginCreate, Accept
    <3> QED BY <1>3, <3>1, <3>2, <3>3 DEF RequestInStep, Loaded
  <2>2. ASSUME NEW s \in SaleIds, BeginComplete(slot, s)
        PROVE  RequestInStep(requests[slot])'
    <3>1. s \in Made /\ sales[s].unit \in UnitIds
      BY <2>2, MadeTypes DEF BeginComplete, BInv, SaleRows
    <3>2. requests'[slot] =
            [kind |-> "complete", sale |-> s, seen |-> sales[s],
             unit |-> units[sales[s].unit]]
      BY <2>2 DEF BeginComplete, Accept, BInv, TypeOK
    <3>3. adjusted' = adjusted /\ units' = units /\ sales' = sales
      BY <2>2 DEF BeginComplete, Accept
    <3> QED BY <1>3, <3>1, <3>2, <3>3 DEF RequestInStep, Loaded
  <2>3. ASSUME NEW s \in SaleIds, NEW f \in SaleForms, BeginEdit(slot, s, f)
        PROVE  RequestInStep(requests[slot])'
    <3>1. requests'[slot] =
            [kind |-> "edit", sale |-> s, form |-> f, seen |-> sales[s]]
      BY <2>3 DEF BeginEdit, Accept, BInv, TypeOK
    <3> QED BY <3>1 DEF RequestInStep
  <2> QED BY <2>1, <2>2, <2>3 DEF Begin
<1>5. \A t \in Slots : requests'[t] = requests[t] \/ RequestInStep(requests[t])'
  BY <1>1, <1>4 DEF Accept, BInv, TypeOK
<1> QED BY <1>2, <1>5, StepBInv

LEMMA CreateBInv ==
  ASSUME BInv, TypeOK', NEW slot \in Slots, CommitCreate(slot)
  PROVE  BInv'
<1> DEFINE r == requests[slot]
           f == r.form
<1>1. r \in CreateRequests /\ r.kind = "create"
  BY RequestTypes DEF CommitCreate, BInv
<1>2. f \in SaleRows /\ f.unit \in UnitIds /\ f.customer \in Customers
  BY <1>1 DEF CreateRequests, SaleRows
<1>3. Loaded(f.unit, r.unit)
  BY <1>1 DEF BInv, RequestInStep
<1> DEFINE row == [f EXCEPT !.status = IF f.line = "golf_cart" THEN "complete" ELSE @]
<1>4. PICK s \in SaleIds \ Made : sales' = [sales EXCEPT ![s] = row]
  BY DEF CommitCreate
<1>5. row.unit = f.unit /\ row.customer = f.customer /\ row \in SaleRows
  BY <1>2 DEF SaleRows, Statuses
<1>6. SellUnit(f.unit, r.unit, f.customer) /\ adjusted' = adjusted /\ Done(slot)
  BY DEF CommitCreate
<1> HIDE DEF row, f, r
<1>7. Made' = Made \cup {s} /\ sales'[s] = row
  BY <1>4, <1>5, NullIsNoRow DEF Made, BInv, TypeOK
<1>8. SalesStay
  BY <1>4, <1>7 DEF SalesStay, Made, BInv, TypeOK
<1>9. UnitsStay
  BY <1>2, <1>3, <1>5, <1>6, <1>7, <1>8, SellingStays
<1>10. \A t \in Slots : requests'[t] = requests[t] \/ RequestInStep(requests[t])'
  BY <1>6, DoneInStep DEF BInv
<1> QED BY <1>6, <1>8, <1>9, <1>10, StepBInv

LEMMA CompleteBInv ==
  ASSUME BInv, TypeOK', NEW slot \in Slots, CommitComplete(slot)
  PROVE  BInv'
<1> DEFINE r == requests[slot]
           s == r.sale
           u == r.seen.unit
           c == r.seen.customer
<1>1. r \in CompleteRequests /\ r.kind = "complete" /\ s \in Made
  BY RequestTypes DEF CommitComplete, BInv
<1>2. u \in UnitIds /\ c \in Customers
  BY <1>1 DEF CompleteRequests, SaleRows
<1>3. /\ Loaded(u, r.unit)
      /\ u \notin adjusted => sales[s].unit = u /\ sales[s].customer = c
  BY <1>1 DEF BInv, RequestInStep
<1>4. sales' = [sales EXCEPT ![s].status = Save(r.seen.status, "complete", @)]
  BY DEF CommitComplete
<1>5. SellUnit(u, r.unit, c) /\ adjusted' = adjusted /\ Done(slot)
  BY DEF CommitComplete
<1>6. sales[s] \in SaleRows /\ s \in SaleIds
  BY <1>1, MadeTypes DEF BInv
<1> HIDE DEF r, s, u, c
<1>7. /\ \A t \in SaleIds \ {s} : sales'[t] = sales[t]
      /\ sales'[s].unit = sales[s].unit
      /\ sales'[s].customer = sales[s].customer
      /\ sales'[s] \in SaleRows
  <2> DEFINE status == Save(r.seen.status, "complete", sales[s].status)
             row == [sales[s] EXCEPT !.status = status]
  <2>1. status \in Statuses
    BY <1>6 DEF Save, SaleRows, Statuses
  <2>2. sales' = [sales EXCEPT ![s] = row]
    BY <1>4
  <2> HIDE DEF status
  <2>3. row.unit = sales[s].unit /\ row.customer = sales[s].customer /\ row \in SaleRows
    BY <1>6, <2>1 DEF SaleRows
  <2> HIDE DEF row
  <2> QED BY <1>6, <2>2, <2>3 DEF BInv, TypeOK
<1>8. Made' = Made
  BY <1>1, <1>7, NullIsNoRow DEF Made
<1>9. SalesStay
  BY <1>7, <1>8 DEF SalesStay, Made
<1>10. UnitsStay
  BY <1>1, <1>2, <1>3, <1>5, <1>7, <1>8, <1>9, SellingStays
<1>11. \A t \in Slots : requests'[t] = requests[t] \/ RequestInStep(requests[t])'
  BY <1>5, DoneInStep DEF BInv
<1> QED BY <1>5, <1>9, <1>10, <1>11, StepBInv

LEMMA EditBInv ==
  ASSUME BInv, TypeOK', NEW slot \in Slots, CommitEdit(slot)
  PROVE  BInv'
<1> DEFINE r == requests[slot]
           s == r.sale
           row == SavedSale(sales[s], r.seen, r.form)
<1>1. r \in EditRequests /\ s \in Made
  BY RequestTypes DEF CommitEdit, BInv
<1>2. sales[s] \in SaleRows /\ s \in SaleIds /\ row \in SaleRows
  BY <1>1, MadeTypes, SavedType DEF BInv, EditRequests
<1>3. /\ sales' = [sales EXCEPT ![s] = row]
      /\ adjusted' = adjusted \cup {s} \cup
           IF row.unit = sales[s].unit /\ row.customer = sales[s].customer
           THEN {} ELSE {row.unit, sales[s].unit}
      /\ Done(slot) /\ units' = units
  BY DEF CommitEdit
<1> HIDE DEF r, s, row
<1>4. sales'[s] = row /\ \A t \in SaleIds \ {s} : sales'[t] = sales[t]
  BY <1>2, <1>3 DEF BInv, TypeOK
<1>5. Made' = Made
  BY <1>1, <1>2, <1>4, NullIsNoRow DEF Made
<1>6. adjusted \subseteq adjusted' /\ UnitsStay
  BY <1>3 DEF UnitsStay
<1>7. sales[s].unit \notin adjusted' =>
        row.unit = sales[s].unit /\ row.customer = sales[s].customer
  BY <1>3
<1>8. SalesStay
  BY <1>4, <1>5, <1>7 DEF SalesStay, Made
<1>9. \A t \in Slots : requests'[t] = requests[t] \/ RequestInStep(requests[t])'
  BY <1>3, DoneInStep DEF BInv
<1> QED BY <1>6, <1>8, <1>9, StepBInv

LEMMA OtherBInv ==
  ASSUME BInv, TypeOK', Forms \/ \E slot \in Slots : Abandon(slot)
  PROVE  BInv'
<1>1. CASE Forms
  <2>1. sales' = sales /\ requests' = requests /\ adjusted \subseteq adjusted'
    BY <1>1 DEF Forms, SavePayment, SaveLease, SaveUnit
  <2>2. \A u \in UnitIds \ adjusted' : units'[u] = units[u]
    BY <1>1 DEF Forms, SavePayment, SaveLease, SaveUnit, BInv, TypeOK
  <2>3. SalesStay /\ UnitsStay
    BY <2>1, <2>2 DEF SalesStay, UnitsStay, Made
  <2> QED BY <2>1, <2>3, StepBInv
<1>2. ASSUME NEW slot \in Slots, Abandon(slot) PROVE BInv'
  <2>1. SalesStay /\ UnitsStay /\ adjusted \subseteq adjusted' /\ Done(slot)
    BY <1>2 DEF Abandon, SalesStay, UnitsStay, Made
  <2>2. \A t \in Slots : requests'[t] = requests[t] \/ RequestInStep(requests[t])'
    BY <2>1, DoneInStep DEF BInv
  <2> QED BY <2>1, <2>2, StepBInv
<1> QED BY <1>1, <1>2

LEMMA InitBInv == Init => BInv
<1> SUFFICES ASSUME Init PROVE BInv
  OBVIOUS
<1>1. TypeOK
  BY InitTypeOK
<1>2. SoldUnitHasBuyer /\ UnsoldHasNoCustomer
  BY DEF Init, SoldUnitHasBuyer, UnsoldHasNoCustomer
<1>3. \A slot \in Slots : RequestInStep(requests[slot])
  BY DEF Init, RequestInStep, Idle
<1> QED BY <1>1, <1>2, <1>3 DEF BInv

LEMMA NextBInv == BInv /\ [Next]_vars => BInv'
<1> SUFFICES ASSUME BInv, [Next]_vars PROVE BInv'
  OBVIOUS
<1>1. TypeOK'
  BY NextTypeOK DEF BInv
<1>2. CASE UNCHANGED vars
  <2>1. sales' = sales /\ units' = units /\ adjusted' = adjusted /\ requests' = requests
    BY <1>2 DEF vars
  <2>2. SalesStay /\ UnitsStay
    BY <2>1 DEF SalesStay, UnitsStay, Made
  <2> QED BY <1>1, <2>1, <2>2, StepBInv
<1>3. CASE Next
  BY <1>1, <1>3, BeginBInv, CreateBInv, CompleteBInv, EditBInv, OtherBInv
     DEF Next, Commit
<1> QED BY <1>2, <1>3

\* A sold unit that no form has set names a buyer, and there is a sale of that
\* unit to that buyer, whatever requests overlapped.
THEOREM SoldUnitsHaveBuyers == Spec => []SoldUnitHasBuyer
<1>1. BInv => SoldUnitHasBuyer
  BY DEF BInv
<1> QED BY <1>1, InitBInv, NextBInv, PTL DEF Spec

------------------------------------------------------------------------------
(* Sales, their invoices and what was paid, for any number of requests *)

\* What the counter took is all that was paid on the sale.
CounterTook(s) ==
  IF sales[s].line = "golf_cart" \/ sales[s].down > 0
  THEN \E p \in PaymentIds : /\ PaymentsOf(s) = {p}
                             /\ payments[p].amount = CounterPayment(sales[s])
  ELSE PaymentsOf(s) = {}

AsMade(s) ==
  /\ invoices[s] = SaleInvoice(sales[s])
  /\ CounterTook(s)
  /\ sales[s].line = "golf_cart" => sales[s].status = "complete"

PInv == TypeOK /\ \A s \in Made \ adjusted : AsMade(s)

\* The recursive function that adds up the payments S takes them one by one;
\* of none and of one it is known without induction.
Chosen(s) == CHOOSE p \in s : TRUE

Adds(f, P, S) ==
  f = [s \in SUBSET S |-> IF s = {} THEN 0
                          ELSE P[Chosen(s)].amount + f[s \ {Chosen(s)}]]

LEMMA Unfold ==
  ASSUME NEW P, NEW S PROVE Received(P, S) = (CHOOSE f : Adds(f, P, S))[S]
BY DEF Received, MapThenSumSet, MapThenFoldSet, Adds, Chosen

LEMMA ReceivedOne ==
  ASSUME NEW P, NEW p, P[p].amount \in Int
  PROVE  Received(P, {p}) = P[p].amount
<1>1. Chosen({p}) = p
  BY DEF Chosen
<1>2. \A s \in SUBSET {p} : s = {} \/ s = {p}
  OBVIOUS
<1>3. Adds([s \in SUBSET {p} |-> IF s = {} THEN 0 ELSE P[p].amount], P, {p})
  <2> DEFINE f == [s \in SUBSET {p} |-> IF s = {} THEN 0 ELSE P[p].amount]
  <2>1. f[{}] = 0
    OBVIOUS
  <2>2. ASSUME NEW s \in SUBSET {p}, s # {}
        PROVE  P[Chosen(s)].amount + f[s \ {Chosen(s)}] = P[p].amount
    <3>1. s = {p} /\ s \ {p} = {} /\ Chosen(s) = p
      BY <1>1, <1>2, <2>2
    <3> HIDE DEF f
    <3> QED BY <2>1, <3>1
  <2>3. \A s \in SUBSET {p} :
          f[s] = IF s = {} THEN 0 ELSE P[Chosen(s)].amount + f[s \ {Chosen(s)}]
    <3>1. \A s \in SUBSET {p} : f[s] = IF s = {} THEN 0 ELSE P[p].amount
      OBVIOUS
    <3> HIDE DEF f
    <3> QED BY <2>2, <3>1
  <2>4. f = [s \in SUBSET {p} |-> f[s]]
    OBVIOUS
  <2> HIDE DEF f
  <2>5. Adds(f, P, {p})
    BY <2>3, <2>4 DEF Adds
  <2> QED BY <2>5 DEF f
<1> DEFINE g == CHOOSE f : Adds(f, P, {p})
<1>4. Adds(g, P, {p}) /\ Received(P, {p}) = g[{p}]
  BY <1>3, Unfold
<1> HIDE DEF g
<1>5. {} \in SUBSET {p} /\ {p} \in SUBSET {p} /\ {p} \ {p} = {} /\ {p} # {}
  OBVIOUS
<1>6. g[{}] = 0
  BY <1>4, <1>5 DEF Adds
<1>7. g[{p}] = P[p].amount + g[{}]
  BY <1>1, <1>4, <1>5 DEF Adds
<1> QED BY <1>4, <1>6, <1>7

LEMMA ReceivedNone == ASSUME NEW P PROVE Received(P, {}) = 0
<1>1. \A s \in SUBSET {} : s = {}
  OBVIOUS
<1>2. Adds([s \in SUBSET {} |-> 0], P, {})
  BY <1>1 DEF Adds
<1> DEFINE g == CHOOSE f : Adds(f, P, {})
<1>3. Adds(g, P, {}) /\ Received(P, {}) = g[{}]
  BY <1>2, Unfold
<1> HIDE DEF g
<1>4. g[{}] = 0
  BY <1>3 DEF Adds
<1> QED BY <1>3, <1>4

LEMMA PaidIsCounter ==
  ASSUME TypeOK, NEW s \in Made, CounterTook(s)
  PROVE  PaidOn(s) = PaidAtCounter(sales[s])
<1>1. sales[s] \in SaleRows
  BY MadeTypes
<1>2. CounterPayment(sales[s]) = PaidAtCounter(sales[s])
      /\ CounterPayment(sales[s]) \in Nat
  BY <1>1, PaperTypes DEF CounterPayment
<1>3. CASE sales[s].line = "golf_cart" \/ sales[s].down > 0
  <2>1. PICK p \in PaymentIds : /\ PaymentsOf(s) = {p}
                                /\ payments[p].amount = CounterPayment(sales[s])
    BY <1>3 DEF CounterTook
  <2>2. payments[p].amount \in Int
    BY <1>2, <2>1
  <2>3. PaidOn(s) = payments[p].amount
    BY <2>1, <2>2, ReceivedOne DEF PaidOn
  <2> QED BY <1>2, <2>1, <2>3
<1>4. CASE ~(sales[s].line = "golf_cart" \/ sales[s].down > 0)
  <2>1. PaidOn(s) = 0
    BY <1>4, ReceivedNone DEF CounterTook, PaidOn
  <2>2. PaidAtCounter(sales[s]) = 0
    BY <1>1, <1>4 DEF PaidAtCounter, SaleRows
  <2> QED BY <2>1, <2>2
<1> QED BY <1>3, <1>4

LEMMA AsInvoiced == PInv => PaidAsInvoiced
<1> SUFFICES ASSUME PInv, NEW s \in Made \ adjusted
             PROVE  /\ invoices[s].paid = PaidOn(s)
                    /\ invoices[s].balance = Remaining(invoices[s], PaidOn(s))
                    /\ sales[s].line = "golf_cart" =>
                         Balance(s) = 0 /\ sales[s].status = "complete"
  BY DEF PaidAsInvoiced
<1>1. AsMade(s) /\ TypeOK /\ sales[s] \in SaleRows
  BY MadeTypes DEF PInv
<1>2. PaidOn(s) = PaidAtCounter(sales[s])
  BY <1>1, PaidIsCounter DEF AsMade
<1>3. \A t, paid : /\ Invoice(t, paid).paid = paid
                  /\ Invoice(t, paid).balance = Remaining(Invoice(t, paid), paid)
  BY DEF Invoice, Remaining
<1>4. /\ invoices[s].paid = PaidOn(s)
      /\ invoices[s].balance = Remaining(invoices[s], PaidOn(s))
  BY <1>1, <1>2, <1>3 DEF AsMade, SaleInvoice
<1>5. ASSUME sales[s].line = "golf_cart" PROVE Balance(s) = 0
  <2>1. PaidOn(s) = SaleTotal(sales[s]) /\ SaleTotal(sales[s]) \in Nat
    BY <1>1, <1>2, <1>5, PaperTypes DEF PaidAtCounter
  <2> QED BY <2>1 DEF Balance
<1> QED BY <1>1, <1>4, <1>5 DEF AsMade

\* A step that leaves the terms, the papers and the payments of a sale alone.
LEMMA AsMadeStays ==
  ASSUME NEW s \in SaleIds, AsMade(s), invoices'[s] = invoices[s],
         sales'[s].amount = sales[s].amount, sales'[s].fees = sales[s].fees,
         sales'[s].down = sales[s].down, sales'[s].total = sales[s].total,
         sales'[s].line = sales[s].line,
         sales'[s].status \in {sales[s].status, "complete"},
         PaymentsOf(s)' = PaymentsOf(s),
         \A p \in PaymentsOf(s) : payments'[p] = payments[p]
  PROVE  AsMade(s)'
<1>1. SaleTotal(sales'[s]) = SaleTotal(sales[s])
  BY DEF SaleTotal
<1>2. PaidAtCounter(sales'[s]) = PaidAtCounter(sales[s])
  BY <1>1 DEF PaidAtCounter
<1>3. SaleInvoice(sales'[s]) = SaleInvoice(sales[s])
  BY <1>2 DEF SaleInvoice
<1>4. CounterPayment(sales'[s]) = CounterPayment(sales[s])
  BY <1>2 DEF CounterPayment
<1>5. CounterTook(s)'
  BY <1>4 DEF AsMade, CounterTook
<1> QED BY <1>3, <1>5 DEF AsMade

LEMMA PaymentsStay ==
  ASSUME UNCHANGED payments, NEW s \in SaleIds
  PROVE  /\ PaymentsOf(s)' = PaymentsOf(s)
         /\ \A p \in PaymentsOf(s) : payments'[p] = payments[p]
BY DEF PaymentsOf

\* A step that touches neither sales nor invoices nor payments.
LEMMA OtherPInv ==
  ASSUME PInv, TypeOK', UNCHANGED <<sales, invoices, payments>>,
         adjusted \subseteq adjusted'
  PROVE  PInv'
<1>1. Made' = Made
  BY DEF Made
<1>2. ASSUME NEW s \in Made \ adjusted PROVE AsMade(s)'
  BY <1>2, PaymentsStay, AsMadeStays DEF PInv, Made
<1> QED BY <1>1, <1>2 DEF PInv

LEMMA CreatePInv ==
  ASSUME PInv, TypeOK', NEW slot \in Slots, CommitCreate(slot)
  PROVE  PInv'
<1> DEFINE f == requests[slot].form
<1>1. f \in SaleRows /\ TypeOK
  BY RequestTypes DEF CommitCreate, CreateRequests, PInv
<1> DEFINE row == [f EXCEPT !.status = IF f.line = "golf_cart" THEN "complete" ELSE @]
<1>2. PICK s \in SaleIds \ Made :
         /\ sales' = [sales EXCEPT ![s] = row]
         /\ invoices' = [invoices EXCEPT ![s] = SaleInvoice(f)]
         /\ Pay(s, f)
  BY DEF CommitCreate
<1>3. /\ row.line = f.line /\ row.amount = f.amount /\ row.fees = f.fees
      /\ row.down = f.down /\ row.total = f.total
      /\ f.line = "golf_cart" => row.status = "complete"
  BY <1>1 DEF SaleRows
<1>4. /\ CounterPayment(row) = CounterPayment(f) /\ SaleInvoice(row) = SaleInvoice(f)
  BY <1>3 DEF SaleTotal, PaidAtCounter, CounterPayment, SaleInvoice
<1> HIDE DEF f, row
<1>5. /\ sales'[s] = row /\ invoices'[s] = SaleInvoice(f)
      /\ \A t \in SaleIds \ {s} : sales'[t] = sales[t] /\ invoices'[t] = invoices[t]
  BY <1>1, <1>2 DEF TypeOK
<1>6. PaymentsOf(s) = {}
  BY <1>1, <1>2, SalesConstantsOK DEF TypeOK, PaymentsOf, OrNull
<1>7. CounterTook(s)'
  <2>1. CASE f.line = "golf_cart" \/ f.down > 0
    <3>1. PICK p \in PaymentIds :
            /\ payments[p] = Null
            /\ payments' = [payments EXCEPT ![p] = [sale |-> s, amount |-> CounterPayment(f)]]
      BY <1>2, <2>1 DEF Pay
    <3>2. /\ payments'[p] = [sale |-> s, amount |-> CounterPayment(f)]
          /\ \A q \in PaymentIds \ {p} : payments'[q] = payments[q]
      BY <1>1, <3>1 DEF TypeOK
    <3>3. CounterPayment(f) \in Nat
      BY <1>1, PaperTypes
    <3>4. payments'[p] # Null
      BY <1>2, <3>2, <3>3, SalesConstantsOK DEF PaymentRows, OrNull
    <3>5. PaymentsOf(s)' = {p}
      BY <1>6, <3>2, <3>4 DEF PaymentsOf
    <3>6. payments'[p].amount = CounterPayment(sales'[s])
      BY <1>4, <1>5, <3>2
    <3> QED BY <1>3, <1>5, <2>1, <3>5, <3>6 DEF CounterTook
  <2>2. CASE ~(f.line = "golf_cart" \/ f.down > 0)
    <3>1. UNCHANGED payments
      BY <1>2, <2>2 DEF Pay
    <3>2. PaymentsOf(s)' = {}
      BY <1>6, <3>1 DEF PaymentsOf
    <3> QED BY <1>3, <1>5, <2>2, <3>2 DEF CounterTook
  <2> QED BY <2>1, <2>2
<1>8. AsMade(s)'
  BY <1>3, <1>4, <1>5, <1>7 DEF AsMade
<1>9. ASSUME NEW t \in Made \ adjusted PROVE AsMade(t)'
  <2>1. t # s /\ t \in SaleIds
    BY <1>2 DEF Made
  <2>2. /\ PaymentsOf(t)' = PaymentsOf(t)
        /\ \A p \in PaymentsOf(t) : payments'[p] = payments[p]
    <3>1. CASE UNCHANGED payments
      BY <2>1, <3>1, PaymentsStay
    <3>2. CASE ~UNCHANGED payments
      <4>1. PICK p \in PaymentIds :
              /\ payments[p] = Null
              /\ payments' = [payments EXCEPT ![p] = [sale |-> s, amount |-> CounterPayment(f)]]
        BY <1>2, <3>2 DEF Pay
      <4>2. /\ payments'[p].sale = s
            /\ \A q \in PaymentIds \ {p} : payments'[q] = payments[q]
        BY <1>1, <4>1 DEF TypeOK
      <4> QED BY <2>1, <4>1, <4>2 DEF PaymentsOf
    <3> QED BY <3>1, <3>2
  <2> QED BY <1>5, <2>1, <2>2, AsMadeStays DEF PInv
<1>10. \A t \in Made' \ adjusted' : t = s \/ t \in Made \ adjusted
  BY <1>5 DEF Made, CommitCreate
<1> QED BY <1>8, <1>9, <1>10 DEF PInv

LEMMA CompletePInv ==
  ASSUME PInv, TypeOK', NEW slot \in Slots, CommitComplete(slot)
  PROVE  PInv'
<1> DEFINE r == requests[slot]
           s == r.sale
           status == Save(r.seen.status, "complete", sales[s].status)
<1>1. s \in Made /\ TypeOK /\ sales[s] \in SaleRows
  BY RequestTypes, MadeTypes DEF CommitComplete, PInv
<1>2. sales' = [sales EXCEPT ![s] = [sales[s] EXCEPT !.status = status]]
  BY <1>1 DEF CommitComplete
<1>3. status \in {sales[s].status, "complete"}
  BY DEF Save
<1> HIDE DEF s, status
<1>4. /\ sales'[s] = [sales[s] EXCEPT !.status = status]
      /\ \A t \in SaleIds \ {s} : sales'[t] = sales[t]
  BY <1>1, <1>2 DEF TypeOK, Made
<1>5. /\ sales'[s].amount = sales[s].amount /\ sales'[s].fees = sales[s].fees
      /\ sales'[s].down = sales[s].down /\ sales'[s].total = sales[s].total
      /\ sales'[s].line = sales[s].line /\ sales'[s].status = status
  BY <1>1, <1>4 DEF SaleRows
<1>6. UNCHANGED <<invoices, payments, adjusted>>
  BY DEF CommitComplete
<1>7. Made' = Made
  BY <1>1, <1>6 DEF Made, TypeOK
<1>8. ASSUME NEW t \in Made \ adjusted PROVE AsMade(t)'
  <2>1. /\ sales'[t].amount = sales[t].amount /\ sales'[t].fees = sales[t].fees
        /\ sales'[t].down = sales[t].down /\ sales'[t].total = sales[t].total
        /\ sales'[t].line = sales[t].line
        /\ sales'[t].status \in {sales[t].status, "complete"}
    BY <1>3, <1>4, <1>5 DEF Made
  <2> QED BY <1>6, <2>1, PaymentsStay, AsMadeStays DEF PInv, Made
<1> QED BY <1>6, <1>7, <1>8 DEF PInv

LEMMA EditPInv ==
  ASSUME PInv, TypeOK', NEW slot \in Slots, CommitEdit(slot)
  PROVE  PInv'
<1> DEFINE s == requests[slot].sale
<1>1. s \in Made /\ TypeOK
  BY RequestTypes DEF CommitEdit, PInv
<1>2. /\ UNCHANGED <<invoices, payments>> /\ adjusted \cup {s} \subseteq adjusted'
      /\ \A t \in SaleIds \ {s} : sales'[t] = sales[t]
  BY <1>1 DEF CommitEdit, TypeOK
<1> HIDE DEF s
<1>3. \A t \in Made' \ adjusted' : t # s /\ t \in Made \ adjusted
  BY <1>2 DEF Made
<1>4. ASSUME NEW t \in Made \ adjusted, t # s PROVE AsMade(t)'
  BY <1>2, <1>4, PaymentsStay, AsMadeStays DEF PInv, Made
<1> QED BY <1>3, <1>4 DEF PInv

LEMMA SavePaymentPInv ==
  ASSUME PInv, TypeOK', NEW p \in PaymentIds, NEW row \in PaymentForms, SavePayment(p, row)
  PROVE  PInv'
<1>1. TypeOK
  BY DEF PInv
<1>2. /\ payments'[p] = row /\ \A q \in PaymentIds \ {p} : payments'[q] = payments[q]
      /\ UNCHANGED <<sales, invoices>>
      /\ adjusted' = adjusted \cup {s \in Made : s = row.sale \/ p \in PaymentsOf(s)}
  BY <1>1 DEF SavePayment, TypeOK
<1>3. Made' = Made
  BY <1>2 DEF Made
<1>4. ASSUME NEW t \in Made, t \notin adjusted' PROVE AsMade(t)'
  <2>1. t \notin adjusted /\ t # row.sale /\ p \notin PaymentsOf(t)
    BY <1>2, <1>4
  <2>2. /\ PaymentsOf(t)' = PaymentsOf(t)
        /\ \A q \in PaymentsOf(t) : payments'[q] = payments[q]
    BY <1>2, <2>1 DEF PaymentsOf
  <2> QED BY <1>2, <2>1, <2>2, AsMadeStays DEF PInv, Made
<1> QED BY <1>3, <1>4 DEF PInv

LEMMA NextPInv == PInv /\ [Next]_vars => PInv'
<1> SUFFICES ASSUME PInv, [Next]_vars PROVE PInv'
  OBVIOUS
<1>1. TypeOK'
  BY NextTypeOK DEF PInv
<1>2. ASSUME NEW slot \in Slots, Begin(slot) \/ Abandon(slot) PROVE PInv'
  BY <1>1, <1>2, OtherPInv
     DEF Begin, BeginCreate, BeginComplete, BeginEdit, Accept, Abandon
<1>3. ASSUME Forms PROVE PInv'
  <2>1. ASSUME NEW l \in LeaseIds, NEW u \in UnitIds, SaveLease(l, u) PROVE PInv'
    BY <1>1, <2>1, OtherPInv DEF SaveLease
  <2>2. ASSUME NEW u \in UnitIds, NEW status \in UnitStatuses, SaveUnit(u, status)
        PROVE  PInv'
    BY <1>1, <2>2, OtherPInv DEF SaveUnit
  <2> QED BY <1>1, <1>3, <2>1, <2>2, SavePaymentPInv DEF Forms
<1>4. CASE UNCHANGED vars
  BY <1>1, <1>4, OtherPInv DEF vars
<1> QED BY <1>1, <1>2, <1>3, <1>4, CreatePInv, CompletePInv, EditPInv DEF Next, Commit

\* Until a form touches the sale or its payments, its invoice says as much paid
\* as the payments add up to, stores the balance its page computes, and a golf
\* cart is complete with nothing left to pay, however requests overlap
\* (finalize_new_sale, create_invoice_from_sale, _load_invoice_context).
THEOREM InvoicesSayWhatWasPaid == Spec => []PaidAsInvoiced
<1>1. Init => PInv
  <2> SUFFICES ASSUME Init PROVE PInv
    OBVIOUS
  <2>1. Made = {}
    BY DEF Init, Made
  <2> QED BY <2>1, InitTypeOK DEF PInv
<1> QED BY <1>1, NextPInv, AsInvoiced, PTL DEF Spec

------------------------------------------------------------------------------
(* One active sale for a unit, as long as what a request has read still holds *)

\* What the request of a slot has read still holds.
Fresh(slot) ==
  LET r == requests[slot] IN
  /\ r.kind = "create" => ActiveOn(r.form.unit) = {}
  /\ r.kind \in {"complete", "edit"} => r.seen = sales[r.sale]
  /\ r.kind = "edit" /\ r.form.unit # r.seen.unit => ActiveOn(r.form.unit) = {}

OInv == TypeOK /\ OneActiveSale

\* A step that writes one sale: its unit has no other active sale, or it was
\* active there already, or it is recorded as revived.
LEMMA OneSaleStep ==
  ASSUME OInv, NEW s \in SaleIds, NEW row, sales'[s] = row,
         \A t \in SaleIds \ {s} : sales'[t] = sales[t],
         revived \subseteq revived',
         \/ row.status = "cancelled"
         \/ ActiveOn(row.unit) \subseteq {s}
         \/ s \in revived'
         \/ s \in Made /\ sales[s].unit = row.unit /\ sales[s].status # "cancelled"
  PROVE  OneActiveSale'
<1> SUFFICES ASSUME NEW a \in Made', NEW b \in Made', a # b,
                    sales'[a].unit = sales'[b].unit,
                    sales'[a].status # "cancelled", sales'[b].status # "cancelled"
             PROVE  {a, b} \cap revived' # {}
  BY DEF OneActiveSale, ActiveOn
<1>1. a \in SaleIds /\ b \in SaleIds /\ sales'[a] # Null /\ sales'[b] # Null
  BY DEF Made
<1>2. ASSUME NEW c \in Made, NEW d \in Made, c # d, sales[c].unit = sales[d].unit,
             sales[c].status # "cancelled", sales[d].status # "cancelled"
      PROVE  {c, d} \cap revived # {}
  BY <1>2 DEF OInv, OneActiveSale, ActiveOn
<1>3. CASE a # s /\ b # s
  BY <1>1, <1>2, <1>3 DEF Made
<1>4. ASSUME NEW t \in SaleIds, t # s, t \in Made, sales[t].unit = row.unit,
             sales[t].status # "cancelled", row.status # "cancelled"
      PROVE  {s, t} \cap revived' # {}
  <2>1. CASE ActiveOn(row.unit) \subseteq {s}
    BY <1>4, <2>1 DEF ActiveOn
  <2>2. CASE s \in Made /\ sales[s].unit = row.unit /\ sales[s].status # "cancelled"
    BY <1>2, <1>4, <2>2
  <2> QED BY <1>4, <2>1, <2>2
<1>5. CASE a = s
  BY <1>1, <1>4, <1>5 DEF Made
<1>6. CASE b = s
  BY <1>1, <1>4, <1>6 DEF Made
<1> QED BY <1>3, <1>5, <1>6

LEMMA CreateOInv ==
  ASSUME OInv, NEW slot \in Slots, Fresh(slot), CommitCreate(slot)
  PROVE  OneActiveSale'
<1> DEFINE f == requests[slot].form
           row == [f EXCEPT !.status = IF f.line = "golf_cart" THEN "complete" ELSE @]
<1>1. f \in SaleRows
  BY RequestTypes DEF CommitCreate, OInv, CreateRequests
<1>2. PICK s \in SaleIds \ Made : sales' = [sales EXCEPT ![s] = row]
  BY DEF CommitCreate
<1>3. ActiveOn(f.unit) = {} /\ revived' = revived
  BY DEF CommitCreate, OInv, Fresh
<1>4. row.unit = f.unit
  BY <1>1 DEF SaleRows
<1> HIDE DEF f, row
<1>5. sales'[s] = row /\ \A t \in SaleIds \ {s} : sales'[t] = sales[t]
  BY <1>2 DEF OInv, TypeOK
<1> QED BY <1>3, <1>4, <1>5, OneSaleStep

LEMMA CompleteOInv ==
  ASSUME OInv, NEW slot \in Slots, Fresh(slot), CommitComplete(slot)
  PROVE  OneActiveSale'
<1> DEFINE r == requests[slot]
           s == r.sale
<1>1. s \in Made /\ r.seen = sales[s]
  BY RequestTypes DEF CommitComplete, OInv, Fresh
<1>2. s \in SaleIds /\ sales[s] \in SaleRows
  BY <1>1, MadeTypes DEF OInv
<1>3. /\ sales' = [sales EXCEPT ![s].status = Save(r.seen.status, "complete", @)]
      /\ Revive(s)
  BY DEF CommitComplete
<1> HIDE DEF r, s
<1>4. /\ \A t \in SaleIds \ {s} : sales'[t] = sales[t]
      /\ sales'[s].unit = sales[s].unit
      /\ sales'[s].status = "complete"
  BY <1>1, <1>2, <1>3 DEF OInv, TypeOK, Save, SaleRows
<1>5. revived \subseteq revived' /\ (sales[s].status = "cancelled" => s \in revived')
  BY <1>3, <1>4 DEF Revive
<1> QED BY <1>1, <1>2, <1>4, <1>5, OneSaleStep

LEMMA EditOInv ==
  ASSUME OInv, NEW slot \in Slots, Fresh(slot), CommitEdit(slot)
  PROVE  OneActiveSale'
<1> DEFINE r == requests[slot]
           s == r.sale
           f == r.form
           row == SavedSale(sales[s], r.seen, f)
<1>1. /\ s \in Made /\ r.seen = sales[s] /\ f \in SaleRows
      /\ f.unit # sales[s].unit => ActiveOn(f.unit) = {}
  BY RequestTypes DEF CommitEdit, OInv, Fresh, EditRequests
<1>2. s \in SaleIds /\ sales[s] \in SaleRows
  BY <1>1, MadeTypes DEF OInv
<1>3. sales' = [sales EXCEPT ![s] = row] /\ Revive(s)
  BY DEF CommitEdit
<1>4. row.unit = f.unit
  BY <1>1, <1>2 DEF SavedSale, Save, SaleRows
<1> HIDE DEF r, s, f, row
<1>5. sales'[s] = row /\ \A t \in SaleIds \ {s} : sales'[t] = sales[t]
  BY <1>2, <1>3 DEF OInv, TypeOK
<1>6. revived \subseteq revived'
  BY <1>3 DEF Revive
<1>7. sales[s].status = "cancelled" /\ row.status # "cancelled"
        /\ row.unit = sales[s].unit => s \in revived'
  BY <1>3, <1>5 DEF Revive
<1> QED BY <1>1, <1>2, <1>4, <1>5, <1>6, <1>7, OneSaleStep

\* A request ends, and something it had read has changed since.
StaleCommit ==
  \E slot \in Slots :
    requests[slot] # Idle /\ ~Fresh(slot) /\ requests'[slot] = Idle

LEMMA NextOInv ==
  ASSUME OInv, [Next]_vars, ~StaleCommit
  PROVE  OneActiveSale'
<1>1. CASE sales' = sales /\ revived' = revived
  BY <1>1 DEF OInv, OneActiveSale, ActiveOn, Made
<1>2. ASSUME NEW slot \in Slots, Commit(slot) PROVE OneActiveSale'
  <2>1. Done(slot) /\ requests[slot] # Idle
    BY <1>2 DEF Commit, CommitCreate, CommitComplete, CommitEdit, Idle
  <2>2. requests'[slot] = Idle
    BY <2>1 DEF Done, OInv, TypeOK
  <2>3. Fresh(slot)
    BY <2>1, <2>2 DEF StaleCommit
  <2> QED BY <1>2, <2>3, CreateOInv, CompleteOInv, EditOInv DEF Commit
<1>3. ASSUME NEW slot \in Slots, Begin(slot) \/ Abandon(slot)
      PROVE  sales' = sales /\ revived' = revived
  BY <1>3 DEF Begin, BeginCreate, BeginComplete, BeginEdit, Accept, Abandon
<1>4. Forms \/ UNCHANGED vars => sales' = sales /\ revived' = revived
  BY DEF Forms, SavePayment, SaveLease, SaveUnit, vars
<1> QED BY <1>1, <1>2, <1>3, <1>4 DEF Next

\* However many requests overlap, a unit gets a second active sale only by the
\* commit of a request that had read the unit or its sale before another one
\* changed it, or by bringing a cancelled sale back: the lookups of create_sale
\* and update_sale miss nothing but what falls between them and the save.
THEOREM OnlyStaleRequestsSellTwice ==
  Spec => [][OneActiveSale /\ ~OneActiveSale' => StaleCommit]_vars
<1>1. TypeOK /\ [Next]_vars =>
        [OneActiveSale /\ ~OneActiveSale' => StaleCommit]_vars
  BY NextOInv DEF OInv
<1>2. Init => TypeOK
  BY InitTypeOK
<1>3. TypeOK /\ [Next]_vars => TypeOK'
  BY NextTypeOK
<1> QED BY <1>1, <1>2, <1>3, PTL DEF Spec
=============================================================================
