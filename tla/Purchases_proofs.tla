-------------------------- MODULE Purchases_proofs --------------------------
(***************************************************************************)
(* Proofs about Purchases and about ReviewDesk, with the pages that        *)
(* administrators decide from, for every value of their constants: first   *)
(* the rows, the units and the ledger, then what the history of a purchase *)
(* is worth, and what a review locks.                                      *)
(***************************************************************************)
EXTENDS ReviewDesk, SequenceTheorems, TLAPS

------------------------------------------------------------------------------
(* Helpers *)

\* Every category has a business line.
LEMMA LineType ==
  ASSUME NEW cat PROVE BusinessLine(cat) \in BusinessLines
<1>1. CASE cat = "general_expense_shared"
  BY <1>1 DEF BusinessLine, BusinessLines, GolfCartCategories
<1>2. CASE cat = "general_expense_unsure"
  BY <1>2 DEF BusinessLine, BusinessLines, GolfCartCategories
<1>3. CASE cat \notin {"general_expense_shared", "general_expense_unsure"}
  BY <1>3 DEF BusinessLine, BusinessLines, AssetLines
<1> QED BY <1>1, <1>2, <1>3

\* A vehicle is always a car or a golf cart.
LEMMA VehicleLine ==
  ASSUME NEW cat, IsVehicle(cat) PROVE BusinessLine(cat) \in AssetLines
<1>1. cat \notin {"general_expense_shared", "general_expense_unsure"}
  BY DEF IsVehicle, VehicleCategories
<1> QED BY <1>1 DEF BusinessLine, AssetLines

\* Looking a unit up returns units that exist, or nothing.
LEMMA LookupType ==
  ASSUME NEW stock, NEW vin
  PROVE  /\ ByVin(vin) \subseteq OrNull(Known)
         /\ ByStock(stock) \subseteq OrNull(Known)
         /\ Resolve(stock, vin) \subseteq OrNull(Known)
<1>1. \A S \in SUBSET Known : FirstOf(S) \subseteq OrNull(Known)
  BY DEF FirstOf, OrNull
<1>2. ByVin(vin) \subseteq OrNull(Known)
  BY <1>1 DEF ByVin
<1>3. ByStock(stock) \subseteq OrNull(Known)
  BY <1>1 DEF ByStock
<1> QED BY <1>2, <1>3 DEF Resolve

LEMMA MatchType ==
  ASSUME NEW f, NEW vin
  PROVE  Match(f, vin) \subseteq OrNull(Known)
BY LookupType DEF Match

\* A vehicle that matches nothing has a VIN no unit has, however it is spelled.
LEMMA NothingMatches ==
  ASSUME NEW stock, NEW vin, Null \in Resolve(stock, vin)
  PROVE  \A u \in Known : ~Alike(units[u].vin, vin)
<1>1. Null \notin Known
  BY ConstantsOK DEF Known
<1> DEFINE Same == {u \in Known : Alike(units[u].vin, vin)}
<1>2. CASE Same = {}
  BY <1>2
<1>3. CASE Same # {}
  <2>1. ByVin(vin) = Same
    BY <1>3 DEF ByVin, FirstOf
  <2>2. Null \notin ByVin(vin)
    BY <1>1, <2>1
  <2>3. Resolve(stock, vin) \subseteq ByVin(vin)
    BY <2>2 DEF Resolve
  <2> QED BY <2>2, <2>3
<1> QED BY <1>2, <1>3

------------------------------------------------------------------------------
(* The type invariant *)

LEMMA InitTypeOK == Init => TypeOK
BY ConstantsOK DEF Init, TypeOK, Types, References, OrNull, Entered, Idle, Known

\* Accepting a request changes only the request.
LEMMA AcceptTypeOK ==
  ASSUME TypeOK, NEW s \in Slots,
         NEW r \in CreateRequests \cup EditRequests \cup StatusRequests,
         r.kind \in {"create", "edit"} => r.matched \in OrNull(Known),
         r.kind \in {"edit", "review", "reopen"} => r.pid \in Entered,
         r.kind = "edit" => r.seen.unit \in OrNull(Known),
         Accept(s, r)
  PROVE  TypeOK'
<1> USE DEF TypeOK
<1>1. Types'
  BY DEF Accept, Types
<1>2. References'
  <2>1. Entered' = Entered /\ Known' = Known
    BY DEF Accept, Entered, Known
  <2>2. \A t \in Slots : requests'[t] = IF t = s THEN r ELSE requests[t]
    BY DEF Accept, Types
  <2> QED BY <2>1, <2>2 DEF References, Accept
<1> QED BY <1>1, <1>2

\* A form keeps its money columns.
LEMMA MoneyType == ASSUME NEW f \in Forms PROVE Money(f) \in MoneyForms
BY DEF Forms, Money, MoneyForms

LEMMA FiguresType ==
  ASSUME NEW row \in PurchaseRows PROVE Figures(row) \in FigureRows
BY DEF Figures, FigureRows, PurchaseRows

\* The purchases, the ledger entries and the units that exist have rows.
LEMMA RowTypes ==
  ASSUME TypeOK
  PROVE  /\ \A p \in Entered : p \in PurchaseIds /\ purchases[p] \in PurchaseRows
         /\ \A p \in Entered : ledger[p] \in Bookings
         /\ \A u \in Known : u \in UnitIds /\ units[u] \in UnitRows
BY ConstantsOK DEF TypeOK, Types, References, Entered, Known, OrNull

\* What a request in flight holds follows from its kind.
LEMMA RequestTypes ==
  ASSUME TypeOK, NEW s \in Slots
  PROVE  LET r == requests[s] IN
         /\ r.kind = "create" =>
              r \in CreateRequests /\ r.matched \in OrNull(Known)
         /\ r.kind = "edit" => r \in EditRequests
         /\ r.kind \in {"review", "reopen"} => r \in StatusRequests
         /\ r.kind \in {"edit", "review", "reopen"} => r.pid \in Entered
         /\ r.kind = "edit" =>
              r.matched \in OrNull(Known) /\ r.seen.unit \in OrNull(Known)
<1>1. requests[s] \in {Idle} \cup CreateRequests \cup EditRequests
                      \cup StatusRequests
  BY DEF TypeOK, Types
<1>2. /\ Idle.kind = "idle"
      /\ \A r \in CreateRequests : r.kind = "create"
      /\ \A r \in EditRequests : r.kind = "edit"
      /\ \A r \in StatusRequests : r.kind \in {"review", "reopen"}
  BY DEF Idle, CreateRequests, EditRequests, StatusRequests
<1> QED BY <1>1, <1>2 DEF TypeOK, References

LEMMA BeginTypeOK ==
  ASSUME TypeOK, NEW s \in Slots,
         Begin(s) \/ \E p \in PurchaseIds, a \in Admins : BeginReview(s, p, a)
  PROVE  TypeOK'
<1>1. ASSUME NEW f \in Forms, NEW vin \in OrNull(Vins), BeginCreate(s, f, vin)
      PROVE  TypeOK'
  <2>0. PICK matched \in Match(f, vin) :
          Accept(s, [kind |-> "create", form |-> Money(f), vin |-> vin,
                     matched |-> matched])
    BY <1>1 DEF BeginCreate
  <2> DEFINE r == [kind |-> "create", form |-> Money(f), vin |-> vin,
                   matched |-> matched]
  <2>1. matched \in OrNull(Known)
    BY MatchType
  <2>2. matched \in OrNull(UnitIds)
    BY <2>1 DEF OrNull, Known
  <2>3. r \in CreateRequests
    BY <2>2, MoneyType DEF CreateRequests
  <2>4. Accept(s, r)
    BY <2>0
  <2> QED BY <2>1, <2>3, <2>4, AcceptTypeOK
<1>2. ASSUME NEW p \in PurchaseIds, NEW f \in Forms, BeginEdit(s, p, f)
      PROVE  TypeOK'
  <2> DEFINE cost == IF purchases[p].unit = Null THEN Null
                     ELSE units[purchases[p].unit].cost
  <2>0. PICK matched \in ByStock(f.stock) :
          Accept(s, [kind |-> "edit", pid |-> p, form |-> Money(f),
                     matched |-> matched,
                     seen |-> Figures(purchases[p]), booked |-> ledger[p],
                     cost |-> cost])
    BY <1>2 DEF BeginEdit
  <2> DEFINE r == [kind |-> "edit", pid |-> p, form |-> Money(f),
                   matched |-> matched,
                   seen |-> Figures(purchases[p]), booked |-> ledger[p],
                   cost |-> cost]
  <2>1. p \in Entered /\ Accept(s, r)
    BY <1>2, <2>0 DEF BeginEdit
  <2>2. matched \in OrNull(Known)
    BY LookupType
  <2>3. matched \in OrNull(UnitIds)
    BY <2>2 DEF OrNull, Known
  <2>4. cost \in OrNull(Nat)
    <3>1. CASE purchases[p].unit = Null
      BY <3>1 DEF OrNull
    <3>2. CASE purchases[p].unit # Null
      <4>1. purchases[p].unit \in Known
        BY <2>1, <3>2 DEF TypeOK, References, OrNull
      <4> QED BY <4>1, <3>2, RowTypes DEF UnitRows
    <3> QED BY <3>1, <3>2
  <2>5. Figures(purchases[p]) \in FigureRows /\ ledger[p] \in Bookings
    BY <2>1, RowTypes, FiguresType
  <2>6. r \in EditRequests
    BY <2>3, <2>4, <2>5, MoneyType DEF EditRequests
  <2>7. r.seen.unit \in OrNull(Known)
    BY <2>1 DEF Figures, TypeOK, References
  <2> QED BY <2>1, <2>2, <2>6, <2>7, AcceptTypeOK
<1>3. ASSUME NEW p \in PurchaseIds, NEW a \in Admins,
             BeginReview(s, p, a) \/ BeginReopen(s, p, a)
      PROVE  TypeOK'
  <2>1. PICK k \in {"review", "reopen"} :
          /\ p \in Entered
          /\ Accept(s, [kind |-> k, pid |-> p, by |-> a,
                        seen |-> purchases[p].reviewer])
    BY <1>3 DEF BeginReview, BeginReopen
  <2>2. purchases[p].reviewer \in OrNull(Admins)
    BY <2>1, RowTypes DEF PurchaseRows
  <2>3. [kind |-> k, pid |-> p, by |-> a, seen |-> purchases[p].reviewer]
          \in StatusRequests
    BY <2>2 DEF StatusRequests
  <2> QED BY <2>1, <2>3, AcceptTypeOK
<1> QED BY <1>1, <1>2, <1>3 DEF Begin

\* The part of TypeOK that speaks of rows alone.
RowsOK ==
  /\ purchases \in [PurchaseIds -> OrNull(PurchaseRows)]
  /\ ledger \in [PurchaseIds -> OrNull(Bookings)]
  /\ units \in [UnitIds -> OrNull(UnitRows)]
  /\ \A p \in PurchaseIds : purchases[p] = Null <=> ledger[p] = Null
  /\ \A p \in Entered : purchases[p].unit \in OrNull(Known)
  /\ \A p \in Entered : ledger[p].unit \in OrNull(Known)

\* Rows only ever appear: what was referred to before still exists.
RowsGrow == Entered \subseteq Entered' /\ Known \subseteq Known'

LEMMA TotalType ==
  ASSUME NEW f, f.amount \in Amounts, f.extras \in Extras
  PROVE  Total(f) \in Nat /\ BookedAmount(f) \in Nat
<1>1. f.amount \in Nat /\ f.extras \in Nat
  BY ConstantsOK
<1> QED BY <1>1 DEF Total, BookedAmount

\* Known units after one is written.
LEMMA UnitWritten ==
  ASSUME TypeOK, NEW u \in UnitIds, NEW row \in UnitRows,
         units' = [units EXCEPT ![u] = row]
  PROVE  /\ units' \in [UnitIds -> OrNull(UnitRows)]
         /\ Known' = Known \cup {u}
BY ConstantsOK DEF TypeOK, Types, OrNull, Known

\* Purchases after one is inserted with its ledger entry.
LEMMA InsertRows ==
  ASSUME TypeOK, NEW p, NEW f, NEW unit \in OrNull(UnitIds),
         NEW isNew \in BOOLEAN, NEW imported \in BOOLEAN,
         f.cat \in Categories, f.amount \in Amounts, f.extras \in Extras,
         Insert(p, f, unit, isNew, imported)
  PROVE  /\ purchases' \in [PurchaseIds -> OrNull(PurchaseRows)]
         /\ ledger' \in [PurchaseIds -> OrNull(Bookings)]
         /\ \A q \in PurchaseIds : purchases'[q] = Null <=> ledger'[q] = Null
         /\ \A q : q \in Entered' <=> q \in Entered \/ q = p
         /\ p \in PurchaseIds \ Entered
         /\ purchases'[p].unit = unit /\ ledger'[p].unit = unit
         /\ purchases'[p] \in PurchaseRows
         /\ \A q \in Entered : purchases'[q] = purchases[q] /\ ledger'[q] = ledger[q]
<1> DEFINE row == [cat |-> f.cat, amount |-> f.amount, extras |-> f.extras,
                   unit |-> unit, created |-> isNew, imported |-> imported,
                   reviewer |-> Null,
                   status |-> IF imported THEN "reviewed" ELSE "pending"]
           entry == LedgerRow(f, unit, BookedAmount(f))
<1>1. row \in PurchaseRows
  BY DEF PurchaseRows, OrNull
<1>2. entry \in Bookings
  BY TotalType, LineType, ConstantsOK DEF LedgerRow, Bookings, OrNull
<1>3. entry.unit = unit
  BY DEF LedgerRow
<1>4. /\ p \in PurchaseIds \ Entered
      /\ purchases' = [purchases EXCEPT ![p] = row]
      /\ ledger' = [ledger EXCEPT ![p] = entry]
  BY DEF Insert
<1>5. row # Null /\ entry # Null
  BY <1>1, <1>2, ConstantsOK
<1> HIDE DEF row, entry
<1>6. row.unit = unit
  BY DEF row
<1> QED
  BY <1>1, <1>2, <1>3, <1>4, <1>5, <1>6 DEF TypeOK, Types, References, OrNull, Entered

LEMMA OrNullGrows ==
  ASSUME NEW S, NEW T, S \subseteq T PROVE OrNull(S) \subseteq OrNull(T)
BY DEF OrNull

\* Inserting a purchase of an existing unit keeps the rows in order.
LEMMA InsertedRowsOK ==
  ASSUME TypeOK, NEW p, NEW f, NEW unit \in OrNull(UnitIds),
         NEW isNew \in BOOLEAN, NEW imported \in BOOLEAN,
         f.cat \in Categories, f.amount \in Amounts, f.extras \in Extras,
         Insert(p, f, unit, isNew, imported),
         units' \in [UnitIds -> OrNull(UnitRows)],
         Known \subseteq Known', unit \in OrNull(Known')
  PROVE  RowsOK' /\ RowsGrow /\ p \in Entered'
<1>1. OrNull(Known) \subseteq OrNull(Known')
  BY OrNullGrows
<1>2. \A q \in Entered :
        /\ purchases[q].unit \in OrNull(Known)
        /\ ledger[q].unit \in OrNull(Known)
  BY DEF TypeOK, References
<1>3. /\ purchases' \in [PurchaseIds -> OrNull(PurchaseRows)]
      /\ ledger' \in [PurchaseIds -> OrNull(Bookings)]
      /\ \A q \in PurchaseIds : purchases'[q] = Null <=> ledger'[q] = Null
      /\ \A q : q \in Entered' <=> q \in Entered \/ q = p
      /\ purchases'[p].unit = unit /\ ledger'[p].unit = unit
      /\ \A q \in Entered : purchases'[q] = purchases[q] /\ ledger'[q] = ledger[q]
  BY InsertRows
<1>4. \A q \in Entered' :
        /\ purchases'[q].unit \in OrNull(Known')
        /\ ledger'[q].unit \in OrNull(Known')
  BY <1>1, <1>2, <1>3
<1> QED BY <1>3, <1>4 DEF RowsOK, RowsGrow

LEMMA RecordRows ==
  ASSUME TypeOK, NEW p, NEW f, NEW vin \in OrNull(Vins),
         NEW matched \in OrNull(Known), NEW u \in UnitIds,
         NEW imported \in BOOLEAN,
         f.cat \in Categories, f.amount \in Amounts, f.extras \in Extras,
         Record(p, f, vin, matched, u, imported)
  PROVE  RowsOK' /\ RowsGrow /\ p \in Entered'
<1>1. CASE IsVehicle(f.cat) /\ matched = Null
  <2> DEFINE row == [vin |-> vin, line |-> BusinessLine(f.cat), cost |-> Total(f)]
  <2>1. row \in UnitRows
    BY <1>1, VehicleLine, TotalType DEF UnitRows, OrNull
  <2>2. units' = [units EXCEPT ![u] = row] /\ Insert(p, f, u, TRUE, imported)
    BY <1>1 DEF Record, InsertUnit
  <2>3. units' \in [UnitIds -> OrNull(UnitRows)] /\ Known' = Known \cup {u}
    BY <2>1, <2>2, UnitWritten
  <2> HIDE DEF row
  <2>4. u \in OrNull(UnitIds)
    BY DEF OrNull
  <2>5. u \in OrNull(Known') /\ Known \subseteq Known'
    BY <2>3 DEF OrNull
  <2> QED
    BY <2>2, <2>3, <2>4, <2>5, InsertedRowsOK
<1>2. CASE ~(IsVehicle(f.cat) /\ matched = Null)
  <2>1. Insert(p, f, matched, FALSE, imported) /\ units' = units
    BY <1>2 DEF Record
  <2>2. Known' = Known
    BY <2>1 DEF Known
  <2>3. matched \in OrNull(UnitIds)
    BY DEF OrNull, Known
  <2>4. units' \in [UnitIds -> OrNull(UnitRows)]
    BY <2>1 DEF TypeOK, Types
  <2> QED
    BY <2>1, <2>2, <2>3, <2>4, InsertedRowsOK
<1> QED BY <1>1, <1>2

\* Once the rows are in order, the requests in flight are too: all that a
\* request refers to still exists, and at most one request ends.
LEMMA RowsSuffice ==
  ASSUME TypeOK, RowsOK', RowsGrow,
         history' \in [PurchaseIds -> Seq(Events)],
         adjusted' \subseteq PurchaseIds \cup UnitIds,
         \/ UNCHANGED requests
         \/ \E s \in Slots : Done(s)
  PROVE  TypeOK'
<1>1. requests' \in [Slots -> {Idle} \cup CreateRequests \cup EditRequests
                             \cup StatusRequests]
  BY DEF TypeOK, Types, Done
<1>2. \A s \in Slots : requests'[s] = requests[s] \/ requests'[s] = Idle
  BY DEF TypeOK, Types, Done
<1>3. Types'
  BY <1>1 DEF RowsOK, Types
<1>4. References'
  <2>1. OrNull(Known) \subseteq OrNull(Known')
    BY OrNullGrows DEF RowsGrow
  <2>2. ASSUME NEW s \in Slots
        PROVE  /\ requests'[s].kind \in {"create", "edit"} =>
                    requests'[s].matched \in OrNull(Known')
               /\ requests'[s].kind \in {"edit", "review", "reopen"} =>
                    requests'[s].pid \in Entered'
               /\ requests'[s].kind = "edit" =>
                    requests'[s].seen.unit \in OrNull(Known')
    <3>1. CASE requests'[s] = Idle
      BY <3>1 DEF Idle
    <3>2. CASE requests'[s] = requests[s]
      BY <3>2, <2>1 DEF TypeOK, References, RowsGrow
    <3> QED BY <1>2, <3>1, <3>2
  <2> QED BY <2>2 DEF RowsOK, References, OrNull
<1> QED BY <1>3, <1>4 DEF TypeOK

LEMMA EventAppended ==
  ASSUME TypeOK, NEW p \in PurchaseIds, NEW e \in Events, Log(p, e)
  PROVE  history' \in [PurchaseIds -> Seq(Events)]
BY DEF Log, TypeOK, Types

LEMMA CommitCreateTypeOK ==
  ASSUME TypeOK, NEW s \in Slots, CommitCreate(s) PROVE TypeOK'
<1> DEFINE r == requests[s]
<1>1. r \in CreateRequests /\ r.matched \in OrNull(Known)
  BY RequestTypes DEF CommitCreate
<1>2. PICK p \in PurchaseIds, u \in UnitIds :
        /\ Record(p, r.form, r.vin, r.matched, u, FALSE)
        /\ Log(p, Event("created", Null, Null, Figures(purchases'[p])))
  BY DEF CommitCreate
<1>3. /\ r.form.cat \in Categories /\ r.form.amount \in Amounts
      /\ r.form.extras \in Extras /\ r.vin \in OrNull(Vins)
  BY <1>1 DEF CreateRequests, MoneyForms
<1> HIDE DEF r
<1>4. RowsOK' /\ RowsGrow
  BY <1>1, <1>2, <1>3, RecordRows
<1>5. p \in Entered'
  BY <1>1, <1>2, <1>3, RecordRows
<1>6. purchases'[p] \in PurchaseRows
  BY <1>4, <1>5 DEF RowsOK, Entered, OrNull
<1>7. Event("created", Null, Null, Figures(purchases'[p])) \in Events
  BY <1>6, FiguresType DEF Event, Events, OrNull
<1>8. history' \in [PurchaseIds -> Seq(Events)]
  BY <1>2, <1>7, EventAppended
<1> QED BY <1>4, <1>8, RowsSuffice DEF CommitCreate, TypeOK, Types

LEMMA ImportTypeOK ==
  ASSUME TypeOK, NEW p \in PurchaseIds, NEW f \in Forms,
         NEW vin \in OrNull(Vins), ImportRow(p, f, vin)
  PROVE  TypeOK'
<1>1. f.cat \in Categories /\ f.amount \in Amounts /\ f.extras \in Extras
  BY DEF Forms
<1>3. ASSUME NEW u \in UnitIds, NEW matched \in Match(f, vin),
             Record(p, f, vin, matched, u, TRUE)
      PROVE  RowsOK' /\ RowsGrow
  <2>1. matched \in OrNull(Known)
    BY MatchType
  <2> QED BY <1>1, <2>1, <1>3, RecordRows
<1>4. ASSUME NEW u \in {purchases[q].unit : q \in Entered} \ {Null},
             Insert(p, f, u, FALSE, TRUE), UNCHANGED units
      PROVE  RowsOK' /\ RowsGrow
  <2>1. u \in Known /\ u \in OrNull(UnitIds)
    BY <1>4 DEF TypeOK, References, OrNull, Known
  <2>2. Known' = Known /\ units' \in [UnitIds -> OrNull(UnitRows)]
    BY <1>4 DEF Known, TypeOK, Types
  <2>3. u \in OrNull(Known')
    BY <2>1, <2>2 DEF OrNull
  <2> QED BY <1>1, <1>4, <2>1, <2>2, <2>3, InsertedRowsOK
<1>5. RowsOK' /\ RowsGrow
  <2>1. CASE \E u \in UnitIds, matched \in Match(f, vin) :
               Record(p, f, vin, matched, u, TRUE)
    BY <2>1, <1>3
  <2>2. CASE \E u \in UnitIds \cap {purchases[q].unit : q \in Entered} :
               Insert(p, f, u, FALSE, TRUE) /\ UNCHANGED units
    BY <2>2, <1>4, ConstantsOK
  <2> QED BY <2>1, <2>2 DEF ImportRow
<1> QED BY <1>5, RowsSuffice DEF ImportRow, TypeOK, Types

LEMMA AbandonTypeOK ==
  ASSUME TypeOK, NEW s \in Slots, Abandon(s) PROVE TypeOK'
<1>1. RowsOK' /\ RowsGrow
  BY DEF Abandon, RowsOK, RowsGrow, TypeOK, Types, References, Entered, Known
<1> QED BY <1>1, RowsSuffice DEF Abandon, TypeOK, Types

LEMMA UnitFormTypeOK ==
  ASSUME TypeOK, NEW u \in UnitIds, NEW row \in UnitForms,
         NewUnit(u, row) \/ EditUnit(u, row)
  PROVE  TypeOK'
<1>1. units' = [units EXCEPT ![u] = row] /\ row \in UnitRows
  BY ConstantsOK DEF NewUnit, EditUnit
<1>2. units' \in [UnitIds -> OrNull(UnitRows)] /\ Known' = Known \cup {u}
  BY <1>1, UnitWritten
<1>3. purchases' = purchases /\ ledger' = ledger /\ Entered' = Entered
  BY DEF NewUnit, EditUnit, Entered
<1>4. RowsOK' /\ RowsGrow
  BY <1>2, <1>3 DEF RowsOK, RowsGrow, TypeOK, Types, References, OrNull
<1>5. adjusted' \subseteq PurchaseIds \cup UnitIds
  BY DEF NewUnit, EditUnit, Adjust, TypeOK, Types
<1> QED BY <1>4, <1>5, RowsSuffice DEF NewUnit, EditUnit, TypeOK, Types

LEMMA EditTransactionTypeOK ==
  ASSUME TypeOK, NEW p \in PurchaseIds, NEW row \in TransactionForms,
         EditTransaction(p, row)
  PROVE  TypeOK'
<1>1. row \in Bookings /\ row # Null
  BY ConstantsOK
<1>2. p \in Entered /\ ledger' = [ledger EXCEPT ![p] = row]
      /\ row.unit \in OrNull(Known)
  BY DEF EditTransaction
<1>3. purchases' = purchases /\ units' = units /\ Entered' = Entered
      /\ Known' = Known
  BY DEF EditTransaction, Entered, Known
<1>4. RowsOK' /\ RowsGrow
  BY <1>1, <1>2, <1>3
  DEF RowsOK, RowsGrow, TypeOK, Types, References, OrNull, Entered
<1>5. adjusted' \subseteq PurchaseIds \cup UnitIds
  BY DEF EditTransaction, Adjust, TypeOK, Types
<1> QED BY <1>4, <1>5, RowsSuffice DEF EditTransaction, TypeOK, Types

\* A reading request: what a corrected purchase looks like.
LEMMA CorrectedType ==
  ASSUME NEW seen \in FigureRows, NEW form \in MoneyForms,
         NEW matched \in OrNull(UnitIds)
  PROVE  /\ Corrected(seen, form, matched) \in FigureRows
         /\ Corrected(seen, form, matched).unit \in {seen.unit, matched}
         /\ Corrected(seen, form, matched).unit = Null => seen.unit = Null
BY DEF Corrected, FigureRows, MoneyForms

LEMMA CommitEditTypeOK ==
  ASSUME TypeOK, NEW s \in Slots, CommitEdit(s) PROVE TypeOK'
<1> DEFINE r == requests[s]
           p == r.pid
           new == Corrected(r.seen, r.form, r.matched)
<1>1. /\ r \in EditRequests /\ p \in Entered
      /\ r.matched \in OrNull(Known) /\ r.seen.unit \in OrNull(Known)
  BY RequestTypes DEF CommitEdit
<1>2. /\ p \in PurchaseIds /\ purchases[p] \in PurchaseRows
      /\ ledger[p] \in Bookings /\ r.booked \in Bookings
      /\ r.seen \in FigureRows /\ r.cost \in OrNull(Nat)
  BY <1>1, RowTypes DEF EditRequests
<1>3. new \in FigureRows
  BY <1>1, CorrectedType DEF EditRequests
<1>4. /\ purchases' = [purchases EXCEPT ![p] =
                          SavedRow(purchases[p], r.seen, new)]
      /\ SyncLedger(p, new, r.booked)
      /\ SyncUnit(p, new, r.cost)
      /\ LogEdit(p, r.seen, new)
      /\ Done(s) /\ adjusted' = adjusted
  BY DEF CommitEdit
<1> HIDE DEF r, p, new
<1>5. PICK row \in PurchaseRows : purchases' = [purchases EXCEPT ![p] = row]
                                 /\ row.unit \in {new.unit, purchases[p].unit}
  <2> DEFINE row == SavedRow(purchases[p], r.seen, new)
  <2>1. row \in PurchaseRows /\ row.unit \in {new.unit, purchases[p].unit}
    BY <1>2, <1>3 DEF PurchaseRows, FigureRows, SavedRow, Save
  <2> QED BY <1>4, <2>1
<1>6. PICK entry \in Bookings : ledger' = [ledger EXCEPT ![p] = entry]
                               /\ entry.unit \in {new.unit, ledger[p].unit}
  <2> DEFINE line == BusinessLine(new.cat)
             entry == [amount |-> Save(r.booked.amount, Total(new), ledger[p].amount),
                       line |-> Save(r.booked.line, line, ledger[p].line),
                       unit |-> Save(r.booked.unit, new.unit, ledger[p].unit),
                       cat |-> Save(r.booked.cat, new.cat, ledger[p].cat)]
  <2>1. Total(new) \in Nat /\ line \in BusinessLines
    BY <1>3, LineType, TotalType DEF FigureRows
  <2>2. new.cat \in OrNull(AllCategories)
    BY <1>3, ConstantsOK DEF FigureRows, OrNull
  <2> HIDE DEF line
  <2>3. entry \in Bookings /\ entry.unit \in {new.unit, ledger[p].unit}
    BY <1>2, <1>3, <2>1, <2>2 DEF Bookings, FigureRows, Save
  <2>4. ledger' = [ledger EXCEPT ![p] = entry]
    BY <1>4, <1>2 DEF SyncLedger, LedgerRow, TypeOK, Types, line
  <2> QED BY <2>3, <2>4
<1>7. new.unit \in OrNull(Known)
  <2>1. r.matched \in OrNull(UnitIds) /\ r.form \in MoneyForms
    BY <1>1 DEF EditRequests
  <2> QED BY <2>1, <1>1, <1>2, CorrectedType DEF new
<1>8. units' \in [UnitIds -> OrNull(UnitRows)] /\ Known' = Known
  <2>1. CASE purchases[p].created /\ new.unit # Null
    <3> DEFINE u == new.unit
               cost == Save(r.cost, Total(new), units[u].cost)
               vehicle == [units[u] EXCEPT !.cost = cost]
    <3>1. u \in Known /\ u \in UnitIds /\ units[u] \in UnitRows
      BY <2>1, <1>7, RowTypes DEF OrNull
    <3>2. cost \in OrNull(Nat)
      BY <3>1, <1>3, TotalType DEF Save, OrNull, FigureRows, UnitRows
    <3>3. units' = [units EXCEPT ![u] = vehicle]
      BY <2>1, <3>1, <1>4 DEF SyncUnit, TypeOK, Types
    <3> HIDE DEF cost
    <3>4. vehicle \in UnitRows
      BY <3>1, <3>2 DEF UnitRows
    <3> HIDE DEF vehicle, u
    <3>5. Known \cup {u} = Known
      BY <3>1
    <3> QED BY <3>1, <3>3, <3>4, <3>5, UnitWritten
  <2>2. CASE ~(purchases[p].created /\ new.unit # Null)
    <3>1. units' = units
      BY <2>2, <1>4 DEF SyncUnit
    <3> QED BY <3>1 DEF Known, TypeOK, Types
  <2> QED BY <2>1, <2>2
<1>9. RowsOK' /\ RowsGrow
  <2>1. Entered' = Entered
    BY <1>1, <1>2, <1>5, ConstantsOK DEF Entered, TypeOK, Types
  <2>2. ledger' \in [PurchaseIds -> OrNull(Bookings)]
    BY <1>6, <1>2 DEF TypeOK, Types, OrNull
  <2>3. purchases' \in [PurchaseIds -> OrNull(PurchaseRows)]
    BY <1>5, <1>2 DEF TypeOK, Types, OrNull
  <2>4. \A q \in PurchaseIds : purchases'[q] = Null <=> ledger'[q] = Null
    BY <1>2, <1>5, <1>6, ConstantsOK DEF TypeOK, Types, References
  <2>5. \A q \in Entered : purchases'[q].unit \in OrNull(Known)
                        /\ ledger'[q].unit \in OrNull(Known)
    <3> SUFFICES ASSUME NEW q \in Entered
                 PROVE  purchases'[q].unit \in OrNull(Known)
                        /\ ledger'[q].unit \in OrNull(Known)
      OBVIOUS
    <3>1. purchases[q].unit \in OrNull(Known) /\ ledger[q].unit \in OrNull(Known)
      BY DEF TypeOK, References
    <3>2. CASE q = p
      BY <3>1, <3>2, <1>2, <1>5, <1>6, <1>7 DEF TypeOK, Types
    <3>3. CASE q # p
      BY <3>1, <3>3, <1>2, <1>5, <1>6 DEF TypeOK, Types
    <3> QED BY <3>2, <3>3
  <2> QED BY <2>1, <2>2, <2>3, <2>4, <2>5, <1>8 DEF RowsOK, RowsGrow
<1>10. history' \in [PurchaseIds -> Seq(Events)]
  <2>1. Event("edited", Null, r.seen, new) \in Events
    BY <1>2, <1>3 DEF Event, Events, OrNull
  <2> QED BY <2>1, <1>2, <1>4, EventAppended DEF LogEdit, TypeOK, Types
<1> QED BY <1>4, <1>9, <1>10, RowsSuffice DEF TypeOK, Types

\* A review or a reopening writes the status and the reviewer of one purchase.
LEMMA StatusSaved ==
  ASSUME TypeOK, NEW s \in Slots, CommitReview(s) \/ CommitReopen(s)
  PROVE  /\ requests[s].pid \in Entered
         /\ \E row \in PurchaseRows :
              /\ purchases' = [purchases EXCEPT ![requests[s].pid] = row]
              /\ row.unit = purchases[requests[s].pid].unit
              /\ row.cat = purchases[requests[s].pid].cat
         /\ Entered' = Entered
         /\ history' \in [PurchaseIds -> Seq(Events)]
<1> DEFINE r == requests[s]
<1>1. /\ r \in StatusRequests /\ r.pid \in Entered
  BY RequestTypes DEF CommitReview, CommitReopen
<1>2. PICK status \in {"pending", "reviewed"}, reviewer \in OrNull(Admins),
           e \in Events :
        SaveStatus(r, status, reviewer) /\ Log(r.pid, e)
  BY <1>1 DEF CommitReview, CommitReopen, StatusRequests, Event, Events, OrNull
<1>3. r.pid \in PurchaseIds /\ purchases[r.pid] \in PurchaseRows
  BY <1>1, RowTypes
<1> DEFINE old == purchases[r.pid]
           name == Save(r.seen, reviewer, old.reviewer)
           row == [old EXCEPT !.status = status, !.reviewer = name]
<1>4. name \in OrNull(Admins)
  BY <1>1, <1>3 DEF Save, PurchaseRows, StatusRequests
<1>5. purchases' = [purchases EXCEPT ![r.pid] = row]
  BY <1>2 DEF SaveStatus
<1> HIDE DEF r, name
<1>6. /\ row \in PurchaseRows
      /\ row.unit = purchases[r.pid].unit /\ row.cat = purchases[r.pid].cat
  BY <1>3, <1>4 DEF PurchaseRows
<1>7. Entered' = Entered
  BY <1>1, <1>3, <1>5, <1>6, ConstantsOK DEF Entered, TypeOK, Types
<1>8. history' \in [PurchaseIds -> Seq(Events)]
  BY <1>2, <1>3, EventAppended
<1> QED BY <1>1, <1>5, <1>6, <1>7, <1>8 DEF r

LEMMA CommitStatusTypeOK ==
  ASSUME TypeOK, NEW s \in Slots, CommitReview(s) \/ CommitReopen(s)
  PROVE  TypeOK'
<1> DEFINE p == requests[s].pid
<1>1. /\ p \in Entered /\ Entered' = Entered
      /\ history' \in [PurchaseIds -> Seq(Events)]
  BY StatusSaved
<1>2. PICK row \in PurchaseRows :
        /\ purchases' = [purchases EXCEPT ![p] = row]
        /\ row.unit = purchases[p].unit
  BY StatusSaved
<1>3. /\ Done(s) /\ adjusted' = adjusted
      /\ ledger' = ledger /\ units' = units
  BY DEF CommitReview, CommitReopen
<1> HIDE DEF p
<1>4. Known' = Known
  BY <1>3 DEF Known
<1>5. purchases' \in [PurchaseIds -> OrNull(PurchaseRows)]
  BY <1>2 DEF TypeOK, Types, OrNull
<1>6. \A q \in PurchaseIds : /\ purchases'[q] = Null <=> purchases[q] = Null
                             /\ purchases[q] # Null =>
                                  purchases'[q].unit = purchases[q].unit
  BY <1>1, <1>2, ConstantsOK DEF TypeOK, Types, Entered
<1>7. RowsOK' /\ RowsGrow
  BY <1>1, <1>3, <1>4, <1>5, <1>6
  DEF RowsOK, RowsGrow, TypeOK, Types, References, Entered
<1> QED BY <1>1, <1>3, <1>7, RowsSuffice DEF TypeOK, Types

LEMMA NextTypeOK == TypeOK /\ [Next]_vars => TypeOK'
<1> SUFFICES ASSUME TypeOK, [Next]_vars PROVE TypeOK'
  OBVIOUS
<1>1. CASE UNCHANGED vars
  BY <1>1 DEF vars, TypeOK, Types, References, Entered, Known
<1>2. ASSUME NEW s \in Slots, Begin(s) PROVE TypeOK'
  BY <1>2, BeginTypeOK
<1>3. ASSUME NEW s \in Slots, NEW p \in PurchaseIds, NEW a \in Admins,
             BeginReview(s, p, a)
      PROVE  TypeOK'
  BY <1>3, BeginTypeOK
<1>4. ASSUME NEW s \in Slots, Commit(s) PROVE TypeOK'
  BY <1>4, CommitCreateTypeOK, CommitEditTypeOK, CommitStatusTypeOK DEF Commit
<1>5. ASSUME NEW s \in Slots, Abandon(s) PROVE TypeOK'
  BY <1>5, AbandonTypeOK
<1>6. CASE OtherWriters
  BY <1>6, ImportTypeOK, UnitFormTypeOK, EditTransactionTypeOK DEF OtherWriters
<1> QED BY <1>1, <1>2, <1>3, <1>4, <1>5, <1>6 DEF Next, Work

\* Every row has its columns and every foreign key holds, in every reachable
\* state and for every number of requests in flight.
THEOREM TypeCorrect == Spec => []TypeOK
BY InitTypeOK, NextTypeOK, PTL DEF Spec

------------------------------------------------------------------------------
(* Purchases, units and ledger entries stay in step *)

\* The event loop: at most one create or edit is in flight.
OneAsync ==
  \A s, t \in Slots :
    /\ requests[s].kind \in {"create", "edit"}
    /\ requests[t].kind \in {"create", "edit"}
    => s = t

\* What an edit in flight has loaded is still what the database holds, except
\* for what the other forms have changed meanwhile, and the edit is allowed.
EditInStep(r) ==
  /\ Figures(purchases[r.pid]) = r.seen
  /\ EditAllowed(r.seen, r.form.cat, r.matched)
  /\ r.pid \notin adjusted => ledger[r.pid] = r.booked
  /\ r.seen.unit \notin adjusted \cup {Null} => units[r.seen.unit].cost = r.cost

EditsInStep ==
  \A s \in Slots : requests[s].kind = "edit" => EditInStep(requests[s])

CreatorsAreVehicles ==
  \A p \in Creators : IsVehicle(purchases[p].cat) /\ purchases[p].unit # Null

\* The part of OneCreator that does not look at VINs.
CreatedOnce ==
  \A p, q \in Creators :
    /\ purchases[p].unit # Null
    /\ purchases[p].unit = purchases[q].unit => p = q

\* The inductive invariant behind CostFollowsCreator and LedgerFollows, and
\* the rows' part of the one behind OneCreator.
RowsInStep ==
  CreatedOnce /\ CostFollowsCreator /\ LedgerFollows /\ CreatorsAreVehicles

IInv == TypeOK /\ OneAsync /\ EditsInStep /\ RowsInStep

LEMMA InitIInv == Init => IInv
<1> SUFFICES ASSUME Init PROVE IInv
  OBVIOUS
<1>1. TypeOK
  BY InitTypeOK
<1>2. Entered = {} /\ Creators = {}
  BY DEF Init, Entered, Creators
<1>3. RowsInStep
  BY <1>2 DEF RowsInStep, CreatedOnce, CostFollowsCreator, LedgerFollows,
              CreatorsAreVehicles
<1>4. OneAsync /\ EditsInStep
  BY DEF Init, OneAsync, EditsInStep, Idle
<1> QED BY <1>1, <1>3, <1>4 DEF IInv

\* Rows that do not change stay in step.
LEMMA SameRows ==
  ASSUME RowsInStep, UNCHANGED <<purchases, ledger, units, adjusted>>
  PROVE  RowsInStep'
BY DEF RowsInStep, CreatedOnce, CostFollowsCreator, LedgerFollows,
       CreatorsAreVehicles, Creators, Entered

LEMMA BeginIInv ==
  ASSUME IInv, NEW s \in Slots,
         Begin(s) \/ \E p \in PurchaseIds, a \in Admins : BeginReview(s, p, a)
  PROVE  OneAsync' /\ EditsInStep' /\ RowsInStep'
<1>1. PICK r : /\ Accept(s, r)
               /\ r.kind \in {"create", "edit"} => LoopFree
               /\ r.kind = "edit" => EditInStep(r)
  <2>1. ASSUME NEW f \in Forms, NEW vin \in OrNull(Vins), BeginCreate(s, f, vin)
        PROVE  \E r : /\ Accept(s, r) /\ r.kind = "create" /\ LoopFree
    BY <2>1 DEF BeginCreate
  <2>2. ASSUME NEW p \in PurchaseIds, NEW f \in Forms, BeginEdit(s, p, f)
        PROVE  \E r : Accept(s, r) /\ r.kind = "edit" /\ LoopFree /\ EditInStep(r)
    <3>0. PICK matched \in ByStock(f.stock) :
            /\ EditAllowed(purchases[p], f.cat, matched)
            /\ Accept(s, [kind |-> "edit", pid |-> p, form |-> Money(f),
                          matched |-> matched,
                          seen |-> Figures(purchases[p]), booked |-> ledger[p],
                          cost |-> IF purchases[p].unit = Null THEN Null
                                   ELSE units[purchases[p].unit].cost])
      BY <2>2 DEF BeginEdit
    <3> DEFINE r == [kind |-> "edit", pid |-> p, form |-> Money(f),
                     matched |-> matched,
                     seen |-> Figures(purchases[p]), booked |-> ledger[p],
                     cost |-> IF purchases[p].unit = Null THEN Null
                              ELSE units[purchases[p].unit].cost]
    <3>1. Accept(s, r) /\ LoopFree /\ EditAllowed(purchases[p], f.cat, matched)
      BY <2>2, <3>0 DEF BeginEdit
    <3>2. EditInStep(r)
      BY <3>1 DEF EditInStep, EditAllowed, Figures, Money
    <3> QED BY <3>1, <3>2
  <2>3. ASSUME NEW p \in PurchaseIds, NEW a \in Admins,
               BeginReview(s, p, a) \/ BeginReopen(s, p, a)
        PROVE  \E r : Accept(s, r) /\ r.kind \in {"review", "reopen"}
    BY <2>3 DEF BeginReview, BeginReopen
  <2> QED BY <2>1, <2>2, <2>3 DEF Begin
<1>2. /\ \A t \in Slots : requests'[t] = IF t = s THEN r ELSE requests[t]
      /\ UNCHANGED <<purchases, ledger, units, adjusted>>
  BY <1>1 DEF Accept, IInv, TypeOK, Types
<1>3. OneAsync'
  BY <1>1, <1>2 DEF IInv, OneAsync, LoopFree
<1>4. EditsInStep'
  BY <1>1, <1>2 DEF IInv, EditsInStep, EditInStep
<1> QED BY <1>2, <1>3, <1>4, SameRows DEF IInv

\* A request that ends leaves the others, and none of the others is an edit
\* if it was a create or an edit itself.
LEMMA DoneOthers ==
  ASSUME IInv, NEW s \in Slots, Done(s)
  PROVE  /\ OneAsync'
         /\ \A t \in Slots : requests'[t].kind = "edit" =>
                             requests'[t] = requests[t] /\ t # s
         /\ requests[s].kind \in {"create", "edit"} =>
              \A t \in Slots : requests'[t].kind # "edit"
<1>1. \A t \in Slots : requests'[t] = IF t = s THEN Idle ELSE requests[t]
  BY DEF Done, IInv, TypeOK, Types
<1> QED BY <1>1 DEF IInv, OneAsync, Idle

LEMMA AbandonIInv ==
  ASSUME IInv, NEW s \in Slots, Abandon(s)
  PROVE  OneAsync' /\ EditsInStep' /\ RowsInStep'
<1>1. Done(s) /\ UNCHANGED <<purchases, ledger, units, adjusted>>
  BY DEF Abandon
<1>2. EditsInStep'
  BY <1>1, DoneOthers DEF IInv, EditsInStep, EditInStep
<1> QED BY <1>1, <1>2, DoneOthers, SameRows DEF IInv

\* Inserting a purchase with its ledger entry, and with the unit it creates if
\* it creates one, keeps everything in step.
LEMMA InsertInStep ==
  ASSUME IInv, NEW p, NEW f, NEW unit \in OrNull(UnitIds),
         NEW isNew \in BOOLEAN, NEW imported \in BOOLEAN,
         f.cat \in Categories, f.amount \in Amounts, f.extras \in Extras,
         Insert(p, f, unit, isNew, imported),
         isNew => /\ IsVehicle(f.cat) /\ unit \notin Known \cup {Null}
                  /\ units'[unit].cost = Total(f),
         \A u \in Known : units'[u] = units[u],
         adjusted' = adjusted
  PROVE  RowsInStep'
<1>1. /\ \A q : q \in Entered' <=> q \in Entered \/ q = p
      /\ \A q \in Entered : purchases'[q] = purchases[q] /\ ledger'[q] = ledger[q]
  BY InsertRows DEF IInv
<1>2. p \in PurchaseIds \ Entered
  BY DEF Insert
<1>3. /\ purchases'[p].cat = f.cat /\ purchases'[p].amount = f.amount
      /\ purchases'[p].extras = f.extras /\ purchases'[p].unit = unit
      /\ purchases'[p].created = isNew
      /\ ledger'[p] = LedgerRow(f, unit, BookedAmount(f))
  BY <1>2 DEF Insert, IInv, TypeOK, Types
<1>4. \A q \in Creators' : q \in Creators \/ (q = p /\ isNew)
  BY <1>1, <1>3 DEF Creators
<1>5. \A q \in Creators : /\ q \in Entered /\ purchases'[q] = purchases[q]
                          /\ purchases[q].unit \in Known
                          /\ units'[purchases[q].unit] = units[purchases[q].unit]
  <2>1. \A q \in Creators : q \in Entered /\ purchases[q].unit \in Known
    BY DEF IInv, RowsInStep, CreatorsAreVehicles, TypeOK, References, OrNull, Creators
  <2> QED BY <2>1, <1>1
<1>6. Total(purchases'[p]) = Total(f)
  BY <1>3 DEF Total
<1>7. CreatorsAreVehicles'
  BY <1>3, <1>4, <1>5 DEF IInv, RowsInStep, CreatorsAreVehicles
<1>8. CreatedOnce'
  BY <1>3, <1>4, <1>5 DEF IInv, RowsInStep, CreatedOnce
<1>9. CostFollowsCreator'
  BY <1>3, <1>4, <1>5, <1>6 DEF IInv, RowsInStep, CostFollowsCreator
<1>10. LedgerFollows'
  <2> SUFFICES ASSUME NEW q \in Entered', q \notin adjusted
               PROVE  LET row == purchases'[q] IN
                      \/ ledger'[q] = LedgerRow(row, row.unit, BookedAmount(row))
                      \/ ledger'[q] = LedgerRow(row, row.unit, Total(row))
    BY DEF LedgerFollows
  <2>1. CASE q \in Entered
    BY <2>1, <1>1 DEF IInv, RowsInStep, LedgerFollows
  <2>2. CASE q = p
    BY <2>2, <1>3, <1>6 DEF LedgerRow, BookedAmount
  <2> QED BY <2>1, <2>2, <1>1
<1> QED BY <1>7, <1>8, <1>9, <1>10 DEF RowsInStep

LEMMA RecordInStep ==
  ASSUME IInv, NEW p, NEW f, NEW vin \in OrNull(Vins),
         NEW matched \in OrNull(Known), NEW u \in UnitIds,
         NEW imported \in BOOLEAN,
         f.cat \in Categories, f.amount \in Amounts, f.extras \in Extras,
         Record(p, f, vin, matched, u, imported), adjusted' = adjusted
  PROVE  /\ RowsInStep'
         /\ \A v \in Known : units'[v] = units[v]
         /\ \A q \in Entered : purchases'[q] = purchases[q] /\ ledger'[q] = ledger[q]
<1>1. CASE IsVehicle(f.cat) /\ matched = Null
  <2>1. InsertUnit(u, f, vin) /\ Insert(p, f, u, TRUE, imported)
    BY <1>1 DEF Record
  <2>2. /\ u \in UnitIds \ Known /\ u # Null
        /\ units'[u].cost = Total(f)
        /\ \A v \in Known : units'[v] = units[v]
    BY <2>1, ConstantsOK DEF InsertUnit, IInv, TypeOK, Types, Known
  <2>3. u \in OrNull(UnitIds)
    BY DEF OrNull
  <2>4. RowsInStep'
    BY <1>1, <2>1, <2>2, <2>3, InsertInStep
  <2>5. \A q \in Entered : purchases'[q] = purchases[q] /\ ledger'[q] = ledger[q]
    BY <2>1, <2>3, InsertRows DEF IInv
  <2> QED BY <2>2, <2>4, <2>5
<1>2. CASE ~(IsVehicle(f.cat) /\ matched = Null)
  <2>1. Insert(p, f, matched, FALSE, imported) /\ units' = units
    BY <1>2 DEF Record
  <2>2. matched \in OrNull(UnitIds)
    BY DEF OrNull, Known
  <2>3. RowsInStep'
    BY <2>1, <2>2, InsertInStep
  <2>4. \A q \in Entered : purchases'[q] = purchases[q] /\ ledger'[q] = ledger[q]
    BY <2>1, <2>2, InsertRows DEF IInv
  <2> QED BY <2>1, <2>3, <2>4
<1> QED BY <1>1, <1>2

LEMMA CommitCreateIInv ==
  ASSUME IInv, NEW s \in Slots, CommitCreate(s)
  PROVE  OneAsync' /\ EditsInStep' /\ RowsInStep'
<1> DEFINE r == requests[s]
<1>1. r \in CreateRequests /\ r.matched \in OrNull(Known) /\ r.kind = "create"
  BY RequestTypes DEF CommitCreate, IInv
<1>2. PICK p \in PurchaseIds, u \in UnitIds :
        Record(p, r.form, r.vin, r.matched, u, FALSE)
  BY DEF CommitCreate
<1>3. /\ r.form.cat \in Categories /\ r.form.amount \in Amounts
      /\ r.form.extras \in Extras /\ r.vin \in OrNull(Vins)
  BY <1>1 DEF CreateRequests, MoneyForms
<1>4. Done(s) /\ adjusted' = adjusted
  BY DEF CommitCreate
<1>5. EditsInStep'
  BY <1>1, <1>4, DoneOthers DEF EditsInStep
<1> HIDE DEF r
<1>6. RowsInStep'
  BY <1>1, <1>2, <1>3, <1>4, RecordInStep
<1> QED BY <1>4, <1>5, <1>6, DoneOthers

\* An edit in flight stays in step with rows that other writers do not touch.
LEMMA OtherEdits ==
  ASSUME IInv,
         \A t \in Slots : requests'[t].kind = "edit" => requests'[t] = requests[t],
         \A q \in Entered : /\ Figures(purchases'[q]) = Figures(purchases[q])
                            /\ q \notin adjusted' => ledger'[q] = ledger[q],
         \A u \in Known : u \notin adjusted' => units'[u] = units[u],
         adjusted \subseteq adjusted'
  PROVE  EditsInStep'
<1> SUFFICES ASSUME NEW t \in Slots, requests'[t].kind = "edit"
             PROVE  EditInStep(requests[t])'
  BY DEF EditsInStep
<1>1. /\ requests'[t] = requests[t] /\ EditInStep(requests[t])
      /\ requests[t].pid \in Entered /\ requests[t].seen.unit \in OrNull(Known)
  BY DEF IInv, EditsInStep, TypeOK, References
<1> DEFINE r == requests[t]
<1>2. Figures(purchases'[r.pid]) = r.seen
  BY <1>1 DEF EditInStep
<1>3. r.pid \notin adjusted' => ledger'[r.pid] = r.booked
  BY <1>1 DEF EditInStep
<1>4. r.seen.unit \notin adjusted' \cup {Null} => units'[r.seen.unit].cost = r.cost
  BY <1>1 DEF EditInStep, OrNull
<1> QED BY <1>1, <1>2, <1>3, <1>4 DEF EditInStep

LEMMA ImportInStep ==
  ASSUME IInv, NEW p \in PurchaseIds, NEW f \in Forms,
         NEW vin \in OrNull(Vins), ImportRow(p, f, vin)
  PROVE  /\ RowsInStep'
         /\ \A v \in Known : units'[v] = units[v]
         /\ \A q \in Entered : purchases'[q] = purchases[q] /\ ledger'[q] = ledger[q]
<1>1. f.cat \in Categories /\ f.amount \in Amounts /\ f.extras \in Extras
  BY DEF Forms
<1>3. adjusted' = adjusted
  BY DEF ImportRow
<1> DEFINE Goal == /\ RowsInStep'
                   /\ \A v \in Known : units'[v] = units[v]
                   /\ \A q \in Entered : purchases'[q] = purchases[q]
                                       /\ ledger'[q] = ledger[q]
<1>4. ASSUME NEW u \in UnitIds, NEW matched \in Match(f, vin),
             Record(p, f, vin, matched, u, TRUE)
      PROVE  Goal
  <2>1. matched \in OrNull(Known)
    BY MatchType
  <2> QED BY <1>1, <1>3, <2>1, <1>4, RecordInStep
<1>5. ASSUME NEW u \in UnitIds, Insert(p, f, u, FALSE, TRUE), UNCHANGED units
      PROVE  Goal
  <2>1. u \in OrNull(UnitIds)
    BY DEF OrNull
  <2>2. RowsInStep'
    BY <1>1, <1>3, <1>5, <2>1, InsertInStep
  <2>3. \A q \in Entered : purchases'[q] = purchases[q] /\ ledger'[q] = ledger[q]
    BY <1>1, <1>5, <2>1, InsertRows DEF IInv
  <2> QED BY <1>5, <2>2, <2>3
<1> QED BY <1>4, <1>5 DEF ImportRow

LEMMA ImportIInv ==
  ASSUME IInv, NEW p \in PurchaseIds, NEW f \in Forms,
         NEW vin \in OrNull(Vins), ImportRow(p, f, vin)
  PROVE  OneAsync' /\ EditsInStep' /\ RowsInStep'
<1>1. requests' = requests /\ adjusted' = adjusted
  BY DEF ImportRow
<1>2. EditsInStep'
  BY <1>1, ImportInStep, OtherEdits
<1>3. OneAsync'
  BY <1>1 DEF IInv, OneAsync
<1> QED BY <1>2, <1>3, ImportInStep

LEMMA UnitFormIInv ==
  ASSUME IInv, NEW u \in UnitIds, NEW row \in UnitForms,
         NewUnit(u, row) \/ EditUnit(u, row)
  PROVE  OneAsync' /\ EditsInStep' /\ RowsInStep'
<1>1. /\ UNCHANGED <<purchases, ledger, requests>>
      /\ adjusted \subseteq adjusted'
      /\ \A v \in Known : v \notin adjusted' => units'[v] = units[v]
  <2>1. CASE NewUnit(u, row)
    BY <2>1 DEF NewUnit, IInv, TypeOK, Types, Known
  <2>2. CASE EditUnit(u, row)
    BY <2>2 DEF EditUnit, Adjust, IInv, TypeOK, Types, Known
  <2> QED BY <2>1, <2>2
<1>2. EditsInStep'
  BY <1>1, OtherEdits
<1>3. OneAsync'
  BY <1>1 DEF IInv, OneAsync
<1>4. Entered' = Entered /\ Creators' = Creators
  BY <1>1 DEF Entered, Creators
<1>5. CreatedOnce' /\ CreatorsAreVehicles' /\ LedgerFollows'
  BY <1>1, <1>4 DEF IInv, RowsInStep, CreatedOnce, CreatorsAreVehicles, LedgerFollows
<1>6. CostFollowsCreator'
  <2>1. \A p \in Creators : purchases[p].unit \in Known
    BY DEF IInv, RowsInStep, CreatorsAreVehicles, TypeOK, References, OrNull, Creators
  <2> QED BY <1>1, <1>4, <2>1 DEF IInv, RowsInStep, CostFollowsCreator
<1> QED BY <1>2, <1>3, <1>5, <1>6 DEF RowsInStep

LEMMA EditTransactionIInv ==
  ASSUME IInv, NEW p \in PurchaseIds, NEW row \in TransactionForms,
         EditTransaction(p, row)
  PROVE  OneAsync' /\ EditsInStep' /\ RowsInStep'
<1>1. /\ UNCHANGED <<purchases, units, requests>>
      /\ adjusted' = adjusted \cup {p}
      /\ \A q \in Entered : q # p => ledger'[q] = ledger[q]
  BY DEF EditTransaction, Adjust, Entered, IInv, TypeOK, Types
<1>2. EditsInStep'
  BY <1>1, OtherEdits
<1>3. OneAsync'
  BY <1>1 DEF IInv, OneAsync
<1>4. Entered' = Entered /\ Creators' = Creators
  BY <1>1 DEF Entered, Creators
<1>5. CreatedOnce' /\ CreatorsAreVehicles' /\ CostFollowsCreator'
  BY <1>1, <1>4 DEF IInv, RowsInStep, CreatedOnce, CreatorsAreVehicles, CostFollowsCreator
<1>6. LedgerFollows'
  BY <1>1, <1>4 DEF IInv, RowsInStep, LedgerFollows
<1> QED BY <1>2, <1>3, <1>5, <1>6 DEF RowsInStep

LEMMA CommitStatusIInv ==
  ASSUME IInv, NEW s \in Slots, CommitReview(s) \/ CommitReopen(s)
  PROVE  OneAsync' /\ EditsInStep' /\ RowsInStep'
<1> DEFINE p == requests[s].pid
<1>1. /\ Done(s) /\ UNCHANGED <<ledger, units, adjusted>>
      /\ p \in Entered
  BY RequestTypes DEF CommitReview, CommitReopen, IInv
<1>2. PICK status, reviewer : purchases' = [purchases EXCEPT ![p] =
        [purchases[p] EXCEPT !.status = status, !.reviewer = reviewer]]
  BY DEF CommitReview, CommitReopen, SaveStatus
<1>3. purchases[p] \in PurchaseRows /\ p \in PurchaseIds
  BY <1>1, RowTypes DEF IInv
<1>4. \A q \in PurchaseIds :
        purchases[q] # Null =>
          /\ purchases'[q].cat = purchases[q].cat
          /\ purchases'[q].amount = purchases[q].amount
          /\ purchases'[q].extras = purchases[q].extras
          /\ purchases'[q].unit = purchases[q].unit
          /\ purchases'[q].created = purchases[q].created
  BY <1>2, <1>3 DEF IInv, TypeOK, Types, PurchaseRows
<1>5. Entered' = Entered
  BY StatusSaved DEF IInv
<1>6. Creators' = Creators
  BY <1>4, <1>5 DEF Creators, Entered
<1>7. \A q \in Entered : Figures(purchases'[q]) = Figures(purchases[q])
  BY <1>4 DEF Figures, Entered
<1>8. EditsInStep'
  BY <1>1, <1>7, DoneOthers, OtherEdits
<1>9. \A q \in Entered : /\ Total(purchases'[q]) = Total(purchases[q])
                         /\ BookedAmount(purchases'[q]) = BookedAmount(purchases[q])
                         /\ \A u, a : LedgerRow(purchases'[q], u, a) =
                                       LedgerRow(purchases[q], u, a)
  BY <1>4 DEF Total, BookedAmount, LedgerRow, Entered
<1>10. CreatedOnce' /\ CreatorsAreVehicles'
  BY <1>4, <1>5, <1>6 DEF IInv, RowsInStep, CreatedOnce, CreatorsAreVehicles,
                          Creators, Entered
<1>11. CostFollowsCreator'
  BY <1>1, <1>4, <1>6, <1>9 DEF IInv, RowsInStep, CostFollowsCreator, Creators, Entered
<1>12. LedgerFollows'
  BY <1>1, <1>4, <1>5, <1>9 DEF IInv, RowsInStep, LedgerFollows, Entered
<1> QED BY <1>1, <1>8, <1>10, <1>11, <1>12, DoneOthers DEF RowsInStep

\* What an edit leaves in the rows: the new figures in the purchase, its ledger
\* entry and the cost of the unit it created following them, nothing else.
LEMMA EditSaved ==
  ASSUME IInv, NEW s \in Slots, CommitEdit(s)
  PROVE  \E p \in Entered :
           LET row == purchases'[p] IN
           /\ Entered' = Entered /\ Creators' = Creators
           /\ \A q \in Entered : q # p => /\ purchases'[q] = purchases[q]
                                          /\ ledger'[q] = ledger[q]
           /\ row.created = purchases[p].created
           /\ IsVehicle(row.cat) <=> IsVehicle(purchases[p].cat)
           /\ IsVehicle(row.cat) =>
                /\ row.unit = purchases[p].unit
                /\ BusinessLine(row.cat) = BusinessLine(purchases[p].cat)
           /\ p \notin adjusted => ledger'[p] = LedgerRow(row, row.unit, Total(row))
           /\ \A u \in Known : p \notin Creators \/ u # row.unit => units'[u] = units[u]
           /\ p \in Creators /\ row.unit \notin adjusted =>
                units'[row.unit].cost = Total(row)
<1> DEFINE r == requests[s]
           p == r.pid
           new == Corrected(r.seen, r.form, r.matched)
<1>1. /\ r \in EditRequests /\ p \in Entered /\ EditInStep(r)
  BY RequestTypes DEF CommitEdit, IInv, EditsInStep
<1>2. /\ purchases' = [purchases EXCEPT ![p] = SavedRow(purchases[p], r.seen, new)]
      /\ SyncLedger(p, new, r.booked)
      /\ SyncUnit(p, new, r.cost)
  BY DEF CommitEdit
<1>3. /\ purchases[p] \in PurchaseRows /\ ledger[p] \in Bookings
      /\ p \in PurchaseIds
  BY <1>1, RowTypes DEF IInv
<1>4. new \in FigureRows
  BY <1>1, CorrectedType DEF EditRequests
<1>5. /\ r.seen \in FigureRows
      /\ new.cat = r.form.cat
      /\ IsVehicle(r.seen.cat) => new.unit = r.seen.unit
  BY <1>1 DEF EditRequests, Corrected, FigureRows
<1>6. /\ r.seen = Figures(purchases[p])
      /\ r.seen.cat = purchases[p].cat /\ r.seen.amount = purchases[p].amount
      /\ r.seen.extras = purchases[p].extras /\ r.seen.unit = purchases[p].unit
  BY <1>1 DEF EditInStep, Figures
<1>7. /\ IsVehicle(new.cat) <=> IsVehicle(purchases[p].cat)
      /\ IsVehicle(new.cat) =>
           /\ new.unit = purchases[p].unit
           /\ BusinessLine(new.cat) = BusinessLine(purchases[p].cat)
  BY <1>1, <1>5, <1>6 DEF EditInStep, EditAllowed
<1>8. p \notin adjusted => ledger[p] = r.booked
  BY <1>1 DEF EditInStep
<1>9. purchases[p].unit \notin adjusted \cup {Null} =>
        units[purchases[p].unit].cost = r.cost
  BY <1>1, <1>6 DEF EditInStep
<1> HIDE DEF r, p, new
<1> DEFINE row == purchases'[p]
<1>10. /\ row.cat = new.cat /\ row.amount = new.amount
       /\ row.extras = new.extras /\ row.unit = new.unit
       /\ row.created = purchases[p].created
  BY <1>2, <1>3, <1>6 DEF SavedRow, Save, PurchaseRows, IInv, TypeOK, Types
<1>11. \A q \in PurchaseIds : q # p => /\ purchases'[q] = purchases[q]
                                       /\ ledger'[q] = ledger[q]
  BY <1>2 DEF SyncLedger, IInv, TypeOK, Types
<1>12. row # Null
  <2>1. SavedRow(purchases[p], r.seen, new) \in PurchaseRows
    BY <1>3, <1>4 DEF SavedRow, Save, PurchaseRows, FigureRows
  <2> QED BY <2>1, <1>2, <1>3, ConstantsOK DEF IInv, TypeOK, Types
<1>13. Entered' = Entered
  BY <1>1, <1>3, <1>11, <1>12 DEF Entered
<1>14. Creators' = Creators
  BY <1>10, <1>11, <1>13 DEF Creators, Entered
<1> HIDE DEF row
<1>15. Total(row) = Total(new)
  BY <1>10 DEF Total
<1>16. LedgerRow(row, row.unit, Total(row)) = LedgerRow(new, new.unit, Total(new))
  BY <1>10, <1>15 DEF LedgerRow
<1>17. p \notin adjusted => ledger'[p] = LedgerRow(new, new.unit, Total(new))
  BY <1>2, <1>3, <1>8 DEF SyncLedger, Save, LedgerRow, Bookings, IInv, TypeOK, Types
<1>18. p \in Creators =>
         /\ new.unit = purchases[p].unit /\ new.unit \in Known
         /\ units' = [units EXCEPT ![new.unit].cost = Save(r.cost, Total(new), @)]
  <2> SUFFICES ASSUME p \in Creators
               PROVE  /\ new.unit = purchases[p].unit /\ new.unit \in Known
                      /\ units' = [units EXCEPT ![new.unit].cost =
                                     Save(r.cost, Total(new), @)]
    OBVIOUS
  <2>1. IsVehicle(purchases[p].cat) /\ purchases[p].unit # Null
    BY DEF IInv, RowsInStep, CreatorsAreVehicles
  <2>2. purchases[p].unit \in Known
    BY <1>1, <2>1 DEF IInv, TypeOK, References, OrNull
  <2> QED BY <1>2, <1>7, <2>1, <2>2 DEF SyncUnit, Creators
<1>19. p \notin Creators => units' = units
  BY <1>1, <1>2 DEF SyncUnit, Creators
<1>20. p \in Creators /\ new.unit \notin adjusted =>
         units'[new.unit].cost = Total(new)
  <2> SUFFICES ASSUME p \in Creators, new.unit \notin adjusted
               PROVE  units'[new.unit].cost = Total(new)
    OBVIOUS
  <2>1. units[new.unit].cost = r.cost /\ new.unit \in UnitIds
    BY <1>9, <1>18, ConstantsOK DEF Known
  <2>2. units[new.unit] \in UnitRows
    BY <1>18 DEF Known, IInv, TypeOK, Types, OrNull
  <2> QED BY <2>1, <2>2, <1>18 DEF Save, UnitRows, IInv, TypeOK, Types
<1>21. \A u \in Known : p \notin Creators \/ u # new.unit => units'[u] = units[u]
  BY <1>18, <1>19 DEF Known, IInv, TypeOK, Types
<1> QED BY <1>1, <1>7, <1>10, <1>11, <1>13, <1>14, <1>15, <1>16, <1>17, <1>20,
           <1>21 DEF Entered, row

LEMMA CommitEditIInv ==
  ASSUME IInv, NEW s \in Slots, CommitEdit(s)
  PROVE  OneAsync' /\ EditsInStep' /\ RowsInStep'
<1>1. PICK p \in Entered :
        LET row == purchases'[p] IN
        /\ Entered' = Entered /\ Creators' = Creators
        /\ \A q \in Entered : q # p => /\ purchases'[q] = purchases[q]
                                       /\ ledger'[q] = ledger[q]
        /\ row.created = purchases[p].created
        /\ IsVehicle(row.cat) <=> IsVehicle(purchases[p].cat)
        /\ IsVehicle(row.cat) =>
             /\ row.unit = purchases[p].unit
             /\ BusinessLine(row.cat) = BusinessLine(purchases[p].cat)
        /\ p \notin adjusted => ledger'[p] = LedgerRow(row, row.unit, Total(row))
        /\ \A u \in Known : p \notin Creators \/ u # row.unit => units'[u] = units[u]
        /\ p \in Creators /\ row.unit \notin adjusted =>
             units'[row.unit].cost = Total(row)
  BY EditSaved
<1>2. /\ Done(s) /\ adjusted' = adjusted /\ requests[s].kind = "edit"
  BY DEF CommitEdit
<1>3. OneAsync' /\ EditsInStep'
  BY <1>2, DoneOthers DEF EditsInStep
<1>4. \A q \in Creators : /\ q \in Entered /\ purchases'[q].unit = purchases[q].unit
                          /\ purchases[q].unit \in Known
                          /\ IsVehicle(purchases'[q].cat)
  <2>1. \A q \in Creators : /\ q \in Entered /\ purchases[q].unit \in Known
                            /\ IsVehicle(purchases[q].cat)
    BY DEF IInv, RowsInStep, CreatorsAreVehicles, TypeOK, References, OrNull, Creators
  <2> QED BY <1>1, <2>1
<1>5. CreatorsAreVehicles'
  BY <1>1, <1>4 DEF IInv, RowsInStep, CreatorsAreVehicles
<1>6. CreatedOnce'
  BY <1>1, <1>4 DEF IInv, RowsInStep, CreatedOnce
<1>7. CostFollowsCreator'
  <2> SUFFICES ASSUME NEW q \in Creators, purchases'[q].unit \notin adjusted
               PROVE  units'[purchases'[q].unit].cost = Total(purchases'[q])
    BY <1>1, <1>2 DEF CostFollowsCreator
  <2>1. CASE q = p
    BY <2>1, <1>1
  <2>2. CASE q # p
    <3>1. p \notin Creators \/ purchases[q].unit # purchases'[p].unit
      BY <2>2, <1>4 DEF IInv, RowsInStep, CreatedOnce
    <3> QED BY <2>2, <3>1, <1>1, <1>4 DEF IInv, RowsInStep, CostFollowsCreator
  <2> QED BY <2>1, <2>2
<1>8. LedgerFollows'
  BY <1>1, <1>2 DEF IInv, RowsInStep, LedgerFollows
<1> QED BY <1>3, <1>5, <1>6, <1>7, <1>8 DEF RowsInStep

LEMMA NextIInv == IInv /\ [Next]_vars => IInv'
<1> SUFFICES ASSUME IInv, [Next]_vars PROVE IInv'
  OBVIOUS
<1>1. TypeOK'
  BY NextTypeOK DEF IInv
<1> DEFINE Rest == OneAsync' /\ EditsInStep' /\ RowsInStep'
<1>2. ASSUME UNCHANGED vars PROVE Rest
  <2>1. RowsInStep'
    BY <1>2, SameRows DEF vars, IInv
  <2>2. OneAsync' /\ EditsInStep'
    BY <1>2 DEF vars, IInv, OneAsync, EditsInStep, EditInStep
  <2> QED BY <2>1, <2>2
<1>3. ASSUME NEW s \in Slots, Begin(s) PROVE Rest
  BY <1>3, BeginIInv
<1>4. ASSUME NEW s \in Slots, NEW p \in PurchaseIds, NEW a \in Admins,
             BeginReview(s, p, a)
      PROVE  Rest
  BY <1>4, BeginIInv
<1>5. ASSUME NEW s \in Slots, Commit(s) PROVE Rest
  BY <1>5, CommitCreateIInv, CommitEditIInv, CommitStatusIInv DEF Commit
<1>6. ASSUME NEW s \in Slots, Abandon(s) PROVE Rest
  BY <1>6, AbandonIInv
<1>7. ASSUME OtherWriters PROVE Rest
  <2>1. ASSUME NEW p \in PurchaseIds, NEW f \in Forms, NEW vin \in OrNull(Vins),
               ImportRow(p, f, vin)
        PROVE  Rest
    BY <2>1, ImportIInv
  <2>2. ASSUME NEW u \in UnitIds, NEW row \in UnitForms,
               NewUnit(u, row) \/ EditUnit(u, row)
        PROVE  Rest
    BY <2>2, UnitFormIInv
  <2>3. ASSUME NEW p \in PurchaseIds, NEW row \in TransactionForms,
               EditTransaction(p, row)
        PROVE  Rest
    BY <2>3, EditTransactionIInv
  <2> QED BY <1>7, <2>1, <2>2, <2>3 DEF OtherWriters
<1>8. Rest
  BY <1>2, <1>3, <1>4, <1>5, <1>6, <1>7 DEF Next, Work, IInv
<1> QED BY <1>1, <1>8 DEF IInv

LEMMA Invariant == Spec => []IInv
BY InitIInv, NextIInv, PTL DEF Spec

\* A unit costs what the purchase that created it totals, until the unit form
\* says otherwise.
THEOREM CostsFollowCreators == Spec => []CostFollowsCreator
<1>1. IInv => CostFollowsCreator
  BY DEF IInv, RowsInStep
<1> QED BY <1>1, Invariant, PTL

\* The ledger entry of every purchase repeats the purchase, until the
\* transaction form says otherwise.
THEOREM LedgerFollowsPurchases == Spec => []LedgerFollows
<1>1. IInv => LedgerFollows
  BY DEF IInv, RowsInStep
<1> QED BY <1>1, Invariant, PTL

\* A purchase row that stays, or changes its status only, keeps its unit.
LEMMA NextKeepsUnits == IInv /\ Next => UnitsKept
<1> SUFFICES ASSUME IInv, Next PROVE UnitsKept
  OBVIOUS
<1>1. ASSUME \A p \in Entered : /\ purchases'[p].cat = purchases[p].cat
                                /\ purchases'[p].unit = purchases[p].unit
      PROVE  UnitsKept
  BY <1>1 DEF UnitsKept
<1>2. ASSUME NEW s \in Slots, Begin(s) PROVE UnitsKept
  BY <1>1, <1>2 DEF Begin, BeginCreate, BeginEdit, BeginReopen, Accept
<1>3. ASSUME NEW s \in Slots, NEW p \in PurchaseIds, NEW a \in Admins,
             BeginReview(s, p, a)
      PROVE  UnitsKept
  BY <1>1, <1>3 DEF BeginReview, Accept
<1>4. ASSUME NEW s \in Slots, CommitCreate(s) PROVE UnitsKept
  <2> DEFINE r == requests[s]
  <2>1. r \in CreateRequests /\ r.matched \in OrNull(Known)
    BY <1>4, RequestTypes DEF CommitCreate, IInv
  <2>2. PICK p \in PurchaseIds, u \in UnitIds :
          Record(p, r.form, r.vin, r.matched, u, FALSE)
    BY <1>4 DEF CommitCreate
  <2>3. adjusted' = adjusted
    BY <1>4 DEF CommitCreate
  <2>4. /\ r.form.cat \in Categories /\ r.form.amount \in Amounts
        /\ r.form.extras \in Extras /\ r.vin \in OrNull(Vins)
    BY <2>1 DEF CreateRequests, MoneyForms
  <2> HIDE DEF r
  <2>5. \A q \in Entered : purchases'[q] = purchases[q]
    BY <2>1, <2>2, <2>3, <2>4, RecordInStep
  <2> QED BY <1>1, <2>5
<1>5. ASSUME NEW s \in Slots, CommitEdit(s) PROVE UnitsKept
  <2>1. PICK p \in Entered :
          /\ \A q \in Entered : q # p => purchases'[q] = purchases[q]
          /\ IsVehicle(purchases'[p].cat) <=> IsVehicle(purchases[p].cat)
          /\ IsVehicle(purchases'[p].cat) =>
               /\ purchases'[p].unit = purchases[p].unit
               /\ BusinessLine(purchases'[p].cat) = BusinessLine(purchases[p].cat)
    BY <1>5, EditSaved
  <2> QED BY <2>1 DEF UnitsKept
<1>6. ASSUME NEW s \in Slots, CommitReview(s) \/ CommitReopen(s) PROVE UnitsKept
  <2>1. PICK row \in PurchaseRows :
          /\ purchases' = [purchases EXCEPT ![requests[s].pid] = row]
          /\ row.unit = purchases[requests[s].pid].unit
          /\ row.cat = purchases[requests[s].pid].cat
    BY <1>6, StatusSaved DEF IInv
  <2> QED BY <1>1, <2>1 DEF Entered, IInv, TypeOK, Types
<1>7. ASSUME NEW s \in Slots, Abandon(s) PROVE UnitsKept
  BY <1>1, <1>7 DEF Abandon
<1>8. ASSUME OtherWriters PROVE UnitsKept
  <2>1. ASSUME NEW p \in PurchaseIds, NEW f \in Forms, NEW vin \in OrNull(Vins),
               ImportRow(p, f, vin)
        PROVE  UnitsKept
    BY <1>1, <2>1, ImportInStep
  <2>2. ASSUME NEW u \in UnitIds, NEW row \in UnitForms,
               NewUnit(u, row) \/ EditUnit(u, row)
        PROVE  UnitsKept
    BY <1>1, <2>2 DEF NewUnit, EditUnit
  <2>3. ASSUME NEW p \in PurchaseIds, NEW row \in TransactionForms,
               EditTransaction(p, row)
        PROVE  UnitsKept
    BY <1>1, <2>3 DEF EditTransaction
  <2> QED BY <1>8, <2>1, <2>2, <2>3 DEF OtherWriters
<1> QED BY <1>2, <1>3, <1>4, <1>5, <1>6, <1>7, <1>8 DEF Next, Work, Commit

\* No step turns a vehicle purchase into another kind, moves it between the
\* business lines or takes it to another unit.
THEOREM VehiclesKeepTheirUnit == Spec => VehicleKeepsUnit
<1>1. IInv /\ [Next]_vars => [UnitsKept]_vars
  BY NextKeepsUnits
<1> QED BY <1>1, Invariant, PTL DEF Spec, VehicleKeepsUnit

------------------------------------------------------------------------------
(* What a step does to one purchase and its history *)

Stays(p) == purchases'[p] = purchases[p] /\ history'[p] = history[p]

Logs(p, e) == history'[p] = Append(history[p], e)

\* A purchase appears: one entered in the application starts its history, an
\* imported one is reviewed already and has none.
Enters(p) ==
  /\ p \notin Entered /\ p \in Entered' /\ purchases'[p].reviewer = Null
  /\ \/ /\ ~purchases'[p].imported /\ purchases'[p].status = "pending"
        /\ Logs(p, Event("created", Null, Null, Figures(purchases'[p])))
     \/ /\ purchases'[p].imported /\ history'[p] = history[p]
        /\ purchases'[p].status = "reviewed"

\* The request of slot s, which ends, is about purchase p.
Ends(s, p, kind) ==
  /\ requests[s].kind = kind /\ requests[s].pid = p /\ Done(s)
  /\ p \in Entered /\ p \in Entered'
  /\ purchases'[p].imported = purchases[p].imported

Corrects(s, p) ==
  /\ Ends(s, p, "edit")
  /\ purchases'[p].status = purchases[p].status
  /\ purchases'[p].reviewer = purchases[p].reviewer
  /\ \/ /\ Figures(purchases'[p]) = Figures(purchases[p])
        /\ history'[p] = history[p]
     \/ Logs(p, Event("edited", Null, Figures(purchases[p]), Figures(purchases'[p])))

\* A decision of administrator a writes the status and logs itself.
Decides(s, p, kind, status, reviewer, action) ==
  /\ Ends(s, p, kind)
  /\ Figures(purchases'[p]) = Figures(purchases[p])
  /\ purchases'[p].status = status
  /\ purchases'[p].reviewer = Save(requests[s].seen, reviewer, purchases[p].reviewer)
  /\ Logs(p, Event(action, requests[s].by, Null, Null))

Reviewed(s, p) == Decides(s, p, "review", "reviewed", requests[s].by, "reviewed")
Reopened(s, p) == Decides(s, p, "reopen", "pending", Null, "reopened")

Changes(p) ==
  \/ Enters(p) /\ \A s \in Slots : requests'[s] \in {Idle, requests[s]}
  \/ \E s \in Slots : Corrects(s, p) \/ Reviewed(s, p) \/ Reopened(s, p)

AllStay == \A q \in PurchaseIds : Stays(q)

\* A request begins, and its purchase is as its handler requires.
Begins(s) ==
  /\ AllStay
  /\ \A t \in Slots \ {s} : requests'[t] = requests[t]
  /\ requests[s] = Idle
  /\ LET r == requests'[s] IN
     /\ r.kind \in {"edit", "review", "reopen"} => r.pid \in Entered
     /\ r.kind \in {"edit", "review"} => purchases[r.pid].status = "pending"
     /\ r.kind = "reopen" => purchases[r.pid].status # "pending"
     /\ r.kind \in {"review", "reopen"} => r.seen = purchases[r.pid].reviewer

Shape ==
  \/ \E p \in PurchaseIds : Changes(p) /\ \A q \in PurchaseIds \ {p} : Stays(q)
  \/ \E s \in Slots : Begins(s)
  \/ AllStay /\ \A s \in Slots : requests'[s] \in {Idle, requests[s]}

LEMMA DoneIdles ==
  ASSUME IInv, NEW s \in Slots, Done(s)
  PROVE  \A t \in Slots : requests'[t] = IF t = s THEN Idle ELSE requests[t]
BY DEF Done, IInv, TypeOK, Types

LEMMA LogsOnly ==
  ASSUME IInv, NEW p \in PurchaseIds, NEW e, Log(p, e)
  PROVE  Logs(p, e) /\ \A q \in PurchaseIds \ {p} : history'[q] = history[q]
BY DEF Log, Logs, IInv, TypeOK, Types

LEMMA BeginShape ==
  ASSUME IInv, NEW s \in Slots,
         Begin(s) \/ \E p \in PurchaseIds, a \in Admins : BeginReview(s, p, a)
  PROVE  Begins(s)
<1>1. PICK r : /\ Accept(s, r)
               /\ r.kind \in {"edit", "review", "reopen"} => r.pid \in Entered
               /\ r.kind \in {"edit", "review"} => purchases[r.pid].status = "pending"
               /\ r.kind = "reopen" => purchases[r.pid].status # "pending"
               /\ r.kind \in {"review", "reopen"} => r.seen = purchases[r.pid].reviewer
  <2> DEFINE Fits(r) ==
        /\ Accept(s, r)
        /\ r.kind \in {"edit", "review", "reopen"} => r.pid \in Entered
        /\ r.kind \in {"edit", "review"} => purchases[r.pid].status = "pending"
        /\ r.kind = "reopen" => purchases[r.pid].status # "pending"
        /\ r.kind \in {"review", "reopen"} => r.seen = purchases[r.pid].reviewer
  <2>1. ASSUME NEW f \in Forms, NEW vin \in OrNull(Vins), BeginCreate(s, f, vin)
        PROVE  \E r : Fits(r)
    BY <2>1 DEF BeginCreate
  <2>2. ASSUME NEW p \in PurchaseIds, NEW f \in Forms, BeginEdit(s, p, f)
        PROVE  \E r : Fits(r)
    BY <2>2 DEF BeginEdit, IsEditable
  <2>3. ASSUME NEW p \in PurchaseIds, NEW a \in Admins, BeginReview(s, p, a)
        PROVE  \E r : Fits(r)
    BY <2>3 DEF BeginReview
  <2>4. ASSUME NEW p \in PurchaseIds, NEW a \in Admins, BeginReopen(s, p, a)
        PROVE  \E r : Fits(r)
    BY <2>4 DEF BeginReopen
  <2> QED BY <2>1, <2>2, <2>3, <2>4 DEF Begin
<1>2. requests'[s] = r /\ \A t \in Slots \ {s} : requests'[t] = requests[t]
  BY <1>1 DEF Accept, IInv, TypeOK, Types
<1> QED BY <1>1, <1>2 DEF Begins, Accept, AllStay, Stays

\* An insertion makes its purchase appear and touches no other row.
LEMMA InsertShape ==
  ASSUME IInv, NEW p, NEW f, NEW unit \in OrNull(UnitIds),
         NEW isNew \in BOOLEAN, NEW imported \in BOOLEAN,
         f.cat \in Categories, f.amount \in Amounts, f.extras \in Extras,
         Insert(p, f, unit, isNew, imported)
  PROVE  /\ p \in PurchaseIds \ Entered /\ p \in Entered'
         /\ purchases'[p].imported = imported /\ purchases'[p].reviewer = Null
         /\ purchases'[p].status = IF imported THEN "reviewed" ELSE "pending"
         /\ \A q \in PurchaseIds \ {p} : purchases'[q] = purchases[q]
<1>1. TypeOK
  BY DEF IInv
<1>2. \A q : q \in Entered' <=> q \in Entered \/ q = p
  BY <1>1, InsertRows
<1> QED BY <1>1, <1>2 DEF Insert, TypeOK, Types

LEMMA RecordShape ==
  ASSUME IInv, NEW p, NEW f, NEW vin, NEW matched \in OrNull(Known),
         NEW u \in UnitIds, NEW imported \in BOOLEAN,
         f.cat \in Categories, f.amount \in Amounts, f.extras \in Extras,
         Record(p, f, vin, matched, u, imported)
  PROVE  /\ p \in PurchaseIds \ Entered /\ p \in Entered'
         /\ purchases'[p].imported = imported /\ purchases'[p].reviewer = Null
         /\ purchases'[p].status = IF imported THEN "reviewed" ELSE "pending"
         /\ \A q \in PurchaseIds \ {p} : purchases'[q] = purchases[q]
<1>1. u \in OrNull(UnitIds) /\ matched \in OrNull(UnitIds)
  BY DEF OrNull, Known
<1>2. Insert(p, f, u, TRUE, imported) \/ Insert(p, f, matched, FALSE, imported)
  BY DEF Record
<1> QED BY <1>1, <1>2, InsertShape

LEMMA CreateShape ==
  ASSUME IInv, NEW s \in Slots, CommitCreate(s) PROVE Shape
<1> DEFINE r == requests[s]
<1>1. r \in CreateRequests /\ r.matched \in OrNull(Known)
  BY RequestTypes DEF CommitCreate, IInv
<1>2. PICK p \in PurchaseIds, u \in UnitIds :
        /\ Record(p, r.form, r.vin, r.matched, u, FALSE)
        /\ Log(p, Event("created", Null, Null, Figures(purchases'[p])))
  BY DEF CommitCreate
<1>3. /\ r.form.cat \in Categories /\ r.form.amount \in Amounts
      /\ r.form.extras \in Extras
  BY <1>1 DEF CreateRequests, MoneyForms
<1>4. \A t \in Slots : requests'[t] \in {Idle, requests[t]}
  BY DoneIdles DEF CommitCreate
<1> HIDE DEF r
<1>5. /\ p \in PurchaseIds \ Entered /\ p \in Entered'
      /\ purchases'[p].imported = FALSE /\ purchases'[p].reviewer = Null
      /\ purchases'[p].status = "pending"
      /\ \A q \in PurchaseIds \ {p} : purchases'[q] = purchases[q]
  BY <1>1, <1>2, <1>3, RecordShape
<1>6. Enters(p) /\ \A q \in PurchaseIds \ {p} : Stays(q)
  BY <1>2, <1>5, LogsOnly DEF Enters, Stays
<1> QED BY <1>4, <1>6 DEF Shape, Changes

\* An imported row appears reviewed and alone.
LEMMA ImportedAlone ==
  ASSUME IInv, NEW p \in PurchaseIds, NEW f \in Forms,
         NEW vin \in OrNull(Vins), ImportRow(p, f, vin)
  PROVE  /\ p \in PurchaseIds \ Entered /\ p \in Entered'
         /\ purchases'[p].imported = TRUE /\ purchases'[p].reviewer = Null
         /\ purchases'[p].status = "reviewed"
         /\ \A q \in PurchaseIds \ {p} : purchases'[q] = purchases[q]
<1>1. f.cat \in Categories /\ f.amount \in Amounts /\ f.extras \in Extras
  BY DEF Forms
<1>2. PICK u \in UnitIds, matched \in Match(f, vin) :
        \/ Record(p, f, vin, matched, u, TRUE)
        \/ Insert(p, f, u, FALSE, TRUE)
  BY DEF ImportRow
<1>3. u \in OrNull(UnitIds)
  BY DEF OrNull
<1>4. CASE Record(p, f, vin, matched, u, TRUE)
  <2>1. matched \in OrNull(Known)
    BY MatchType
  <2> QED BY <1>1, <1>4, <2>1, RecordShape
<1>5. CASE Insert(p, f, u, FALSE, TRUE)
  BY <1>1, <1>3, <1>5, InsertShape
<1> QED BY <1>2, <1>4, <1>5

LEMMA ImportShape ==
  ASSUME IInv, NEW p \in PurchaseIds, NEW f \in Forms,
         NEW vin \in OrNull(Vins), ImportRow(p, f, vin)
  PROVE  Shape
<1>1. UNCHANGED <<history, requests>>
  BY DEF ImportRow
<1>2. Enters(p) /\ \A q \in PurchaseIds \ {p} : Stays(q)
  BY <1>1, ImportedAlone DEF Enters, Stays
<1> QED BY <1>1, <1>2 DEF Shape, Changes

LEMMA EditShape ==
  ASSUME IInv, NEW s \in Slots, CommitEdit(s) PROVE Shape
<1> DEFINE r == requests[s]
           p == r.pid
           new == Corrected(r.seen, r.form, r.matched)
<1>1. r \in EditRequests /\ p \in Entered /\ r.seen = Figures(purchases[p])
  BY RequestTypes DEF CommitEdit, IInv, EditsInStep, EditInStep
<1>2. /\ r.kind = "edit" /\ Done(s)
      /\ purchases' = [purchases EXCEPT ![p] = SavedRow(purchases[p], r.seen, new)]
      /\ LogEdit(p, r.seen, new)
  BY DEF CommitEdit
<1>3. p \in PurchaseIds /\ purchases[p] \in PurchaseRows
  BY <1>1, RowTypes DEF IInv
<1>4. r.seen \in FigureRows /\ new \in FigureRows
  BY <1>1, CorrectedType DEF EditRequests
<1>5. Entered' = Entered
  BY EditSaved
<1> HIDE DEF r, p, new
<1>6. /\ Figures(SavedRow(purchases[p], r.seen, new)) = new
      /\ \A k \in {"status", "reviewer", "imported"} :
           SavedRow(purchases[p], r.seen, new)[k] = purchases[p][k]
  <2> DEFINE row == SavedRow(purchases[p], r.seen, new)
  <2>1. /\ r.seen.cat = purchases[p].cat /\ r.seen.amount = purchases[p].amount
        /\ r.seen.extras = purchases[p].extras /\ r.seen.unit = purchases[p].unit
    BY <1>1 DEF Figures
  <2>2. /\ row.cat = new.cat /\ row.amount = new.amount
        /\ row.extras = new.extras /\ row.unit = new.unit
        /\ row.status = purchases[p].status /\ row.imported = purchases[p].imported
        /\ row.reviewer = purchases[p].reviewer
    BY <1>3, <2>1 DEF SavedRow, Save, PurchaseRows
  <2> HIDE DEF row
  <2>3. Figures(row) = new
    BY <1>4, <2>2 DEF Figures, FigureRows
  <2> QED BY <2>2, <2>3 DEF row
<1>7. /\ Figures(purchases'[p]) = new
      /\ purchases'[p].status = purchases[p].status
      /\ purchases'[p].reviewer = purchases[p].reviewer
      /\ purchases'[p].imported = purchases[p].imported
      /\ \A q \in PurchaseIds \ {p} : purchases'[q] = purchases[q]
  BY <1>2, <1>3, <1>6 DEF IInv, TypeOK, Types
<1>8. Corrects(s, p)
  <2>1. Ends(s, p, "edit")
    BY <1>1, <1>2, <1>5, <1>7 DEF Ends, r, p
  <2>2. CASE r.seen = new
    BY <1>1, <1>2, <1>7, <2>1, <2>2 DEF LogEdit, Corrects
  <2>3. CASE r.seen # new
    <3>1. Logs(p, Event("edited", Null, r.seen, new))
      BY <1>2, <1>3, <2>3, LogsOnly DEF LogEdit
    <3> QED BY <1>1, <1>7, <2>1, <3>1 DEF Corrects
  <2> QED BY <2>2, <2>3
<1>9. \A q \in PurchaseIds \ {p} : Stays(q)
  BY <1>2, <1>3, <1>7, LogsOnly DEF LogEdit, Stays
<1> QED BY <1>3, <1>8, <1>9 DEF Shape, Changes

LEMMA StatusShape ==
  ASSUME IInv, NEW s \in Slots, CommitReview(s) \/ CommitReopen(s)
  PROVE  Shape
<1> DEFINE r == requests[s]
           p == r.pid
<1>1. r \in StatusRequests /\ p \in Entered
  BY RequestTypes DEF CommitReview, CommitReopen, IInv
<1>2. p \in PurchaseIds /\ purchases[p] \in PurchaseRows /\ Entered' = Entered
  BY <1>1, RowTypes, StatusSaved DEF IInv
<1>3. Done(s)
  BY DEF CommitReview, CommitReopen
<1>4. ASSUME NEW status, NEW reviewer, NEW action, NEW kind,
             SaveStatus(r, status, reviewer), r.kind = kind,
             Log(p, Event(action, r.by, Null, Null))
      PROVE  Decides(s, p, kind, status, reviewer, action)
             /\ \A q \in PurchaseIds \ {p} : Stays(q)
  <2> DEFINE name == Save(r.seen, reviewer, purchases[p].reviewer)
  <2>1. purchases' = [purchases EXCEPT ![p] =
          [purchases[p] EXCEPT !.status = status, !.reviewer = name]]
    BY <1>4 DEF SaveStatus
  <2> HIDE DEF name
  <2>2. /\ purchases'[p].status = status /\ purchases'[p].reviewer = name
        /\ purchases'[p].imported = purchases[p].imported
        /\ purchases'[p].cat = purchases[p].cat
        /\ purchases'[p].amount = purchases[p].amount
        /\ purchases'[p].extras = purchases[p].extras
        /\ purchases'[p].unit = purchases[p].unit
    BY <1>2, <2>1 DEF PurchaseRows, IInv, TypeOK, Types
  <2>3. \A q \in PurchaseIds \ {p} : purchases'[q] = purchases[q]
    BY <1>2, <2>1 DEF IInv, TypeOK, Types
  <2>4. Figures(purchases'[p]) = Figures(purchases[p])
    BY <2>2 DEF Figures
  <2>5. Logs(p, Event(action, r.by, Null, Null))
        /\ \A q \in PurchaseIds \ {p} : history'[q] = history[q]
    BY <1>2, <1>4, LogsOnly
  <2> QED BY <1>1, <1>2, <1>3, <1>4, <2>2, <2>3, <2>4, <2>5
          DEF Decides, Ends, Stays, name
<1>5. CASE CommitReview(s)
  <2>1. /\ SaveStatus(r, "reviewed", r.by) /\ r.kind = "review"
        /\ Log(p, Event("reviewed", r.by, Null, Null))
    BY <1>5 DEF CommitReview
  <2>2. Reviewed(s, p) /\ \A q \in PurchaseIds \ {p} : Stays(q)
    BY <1>4, <2>1 DEF Reviewed
  <2> QED BY <1>2, <2>2 DEF Shape, Changes
<1>6. CASE CommitReopen(s)
  <2>1. /\ SaveStatus(r, "pending", Null) /\ r.kind = "reopen"
        /\ Log(p, Event("reopened", r.by, Null, Null))
    BY <1>6 DEF CommitReopen
  <2>2. Reopened(s, p) /\ \A q \in PurchaseIds \ {p} : Stays(q)
    BY <1>4, <2>1 DEF Reopened
  <2> QED BY <1>2, <2>2 DEF Shape, Changes
<1> QED BY <1>5, <1>6

LEMMA NextShape == IInv /\ [Next]_vars => Shape
<1> SUFFICES ASSUME IInv, [Next]_vars PROVE Shape
  OBVIOUS
<1>1. CASE UNCHANGED vars
  BY <1>1 DEF vars, Shape, AllStay, Stays
<1>2. ASSUME NEW s \in Slots,
             Begin(s) \/ \E p \in PurchaseIds, a \in Admins : BeginReview(s, p, a)
      PROVE  Shape
  BY <1>2, BeginShape DEF Shape
<1>3. ASSUME NEW s \in Slots, Commit(s) PROVE Shape
  BY <1>3, CreateShape, EditShape, StatusShape DEF Commit
<1>4. ASSUME NEW s \in Slots, Abandon(s) PROVE Shape
  BY <1>4, DoneIdles DEF Abandon, Shape, AllStay, Stays
<1>5. CASE OtherWriters
  <2>1. ASSUME NEW p \in PurchaseIds, NEW f \in Forms, NEW vin \in OrNull(Vins),
               ImportRow(p, f, vin)
        PROVE  Shape
    BY <2>1, ImportShape
  <2>2. ASSUME UNCHANGED <<purchases, history, requests>> PROVE Shape
    BY <2>2 DEF Shape, AllStay, Stays
  <2> QED BY <1>5, <2>1, <2>2 DEF OtherWriters, NewUnit, EditUnit, EditTransaction
<1> QED BY <1>1, <1>2, <1>3, <1>4, <1>5 DEF Next, Work

------------------------------------------------------------------------------
(* One creating purchase for one vehicle, however its VIN is spelled *)

VinOf(p) == units[purchases[p].unit].vin

VinCreators ==
  \A p, q \in Creators :
    ByTheForm(p) /\ ByTheForm(q) /\ Alike(VinOf(p), VinOf(q)) => p = q

\* No purchase has created the vehicle that request r is about to create.
Fresh(r) == \A p \in Creators : ByTheForm(p) => ~Alike(VinOf(p), r.vin)

CreatesFresh ==
  \A s \in Slots :
    /\ requests[s].kind = "create"
    /\ IsVehicle(requests[s].form.cat) /\ requests[s].matched = Null
    => Fresh(requests[s])

VInv == VinCreators /\ CreatesFresh

\* The units whose VIN is the form's, and the VINs, were there before the step.
VinsStay ==
  \A p \in Creators' : ByTheForm(p)' =>
    p \in Creators /\ ByTheForm(p) /\ VinOf(p)' = VinOf(p)

LEMMA VinsStayFresh ==
  ASSUME VInv, VinsStay,
         \A s \in Slots : requests'[s].kind = "create" =>
                           requests'[s] = requests[s]
  PROVE  VInv'
<1>1. VinCreators'
  <2> SUFFICES ASSUME NEW p \in Creators', NEW q \in Creators',
                      ByTheForm(p)', ByTheForm(q)', Alike(VinOf(p)', VinOf(q)')
               PROVE  p = q
    BY DEF VinCreators, Alike
  <2> QED BY DEF VInv, VinCreators, VinsStay
<1>2. CreatesFresh'
  <2> SUFFICES ASSUME NEW s \in Slots, requests'[s].kind = "create",
                      IsVehicle(requests'[s].form.cat),
                      requests'[s].matched = Null,
                      NEW p \in Creators', ByTheForm(p)'
               PROVE  ~Alike(VinOf(p)', requests'[s].vin)
    BY DEF CreatesFresh, Fresh, Alike
  <2> QED BY DEF VInv, CreatesFresh, Fresh, VinsStay
<1> QED BY <1>1, <1>2 DEF VInv

\* The unit of a creating purchase exists.
LEMMA CreatorsUnits ==
  ASSUME IInv
  PROVE  \A p \in Creators : p \in Entered /\ purchases[p].unit \in Known
BY DEF IInv, RowsInStep, CreatorsAreVehicles, TypeOK, References, OrNull, Creators

\* When nothing but imports creates, and nothing but the unit form touches a
\* VIN.
LEMMA OthersStay ==
  ASSUME IInv, adjusted \subseteq adjusted',
         \A p \in Creators' : p \in Creators \/ purchases'[p].imported,
         \A p \in Creators : /\ purchases'[p].unit = purchases[p].unit
                             /\ purchases'[p].imported = purchases[p].imported,
         \A u \in Known : u \notin adjusted' => units'[u].vin = units[u].vin
  PROVE  VinsStay
<1> SUFFICES ASSUME NEW p \in Creators', ByTheForm(p)'
             PROVE  p \in Creators /\ ByTheForm(p) /\ VinOf(p)' = VinOf(p)
  BY DEF VinsStay
<1>1. p \in Creators
  BY DEF ByTheForm
<1>2. ByTheForm(p) /\ purchases[p].unit \notin adjusted'
  BY <1>1 DEF ByTheForm
<1>3. purchases[p].unit \in Known
  BY <1>1, CreatorsUnits
<1> QED BY <1>1, <1>2, <1>3 DEF VinOf

LEMMA BeginVInv ==
  ASSUME IInv, VInv, NEW s \in Slots,
         Begin(s) \/ \E p \in PurchaseIds, a \in Admins : BeginReview(s, p, a)
  PROVE  VInv'
<1>1. PICK r : /\ Accept(s, r)
               /\ r.kind = "create" /\ IsVehicle(r.form.cat) /\ r.matched = Null
                    => \A u \in Known : ~Alike(units[u].vin, r.vin)
  <2> DEFINE Fits(r) ==
        /\ Accept(s, r)
        /\ r.kind = "create" /\ IsVehicle(r.form.cat) /\ r.matched = Null
             => \A u \in Known : ~Alike(units[u].vin, r.vin)
  <2>1. ASSUME NEW f \in Forms, NEW vin \in OrNull(Vins), BeginCreate(s, f, vin)
        PROVE  \E r : Fits(r)
    <3>1. PICK matched \in Match(f, vin) :
            Accept(s, [kind |-> "create", form |-> Money(f), vin |-> vin,
                       matched |-> matched])
      BY <2>1 DEF BeginCreate
    <3>2. IsVehicle(f.cat) /\ matched = Null =>
            \A u \in Known : ~Alike(units[u].vin, vin)
      BY NothingMatches DEF Match
    <3> DEFINE r == [kind |-> "create", form |-> Money(f), vin |-> vin,
                     matched |-> matched]
    <3>3. r.form.cat = f.cat /\ r.vin = vin /\ r.matched = matched
      BY DEF Money
    <3> HIDE DEF r
    <3>4. Accept(s, r)
      BY <3>1 DEF r
    <3> QED BY <3>2, <3>3, <3>4
  <2>2. ASSUME NEW p \in PurchaseIds, NEW f \in Forms, BeginEdit(s, p, f)
        PROVE  \E r : Fits(r)
    BY <2>2 DEF BeginEdit
  <2>3. ASSUME NEW p \in PurchaseIds, NEW a \in Admins,
               BeginReview(s, p, a) \/ BeginReopen(s, p, a)
        PROVE  \E r : Fits(r)
    BY <2>3 DEF BeginReview, BeginReopen
  <2> QED BY <2>1, <2>2, <2>3 DEF Begin
<1>2. /\ \A t \in Slots : requests'[t] = IF t = s THEN r ELSE requests[t]
      /\ UNCHANGED <<purchases, units, adjusted>>
  BY <1>1 DEF Accept, IInv, TypeOK, Types
<1>3. /\ Creators' = Creators
      /\ \A p : /\ ByTheForm(p)' <=> ByTheForm(p)
               /\ VinOf(p)' = VinOf(p)
  BY <1>2 DEF Creators, Entered, ByTheForm, VinOf
<1>4. VinCreators'
  <2> SUFFICES ASSUME NEW p \in Creators', NEW q \in Creators',
                      ByTheForm(p)', ByTheForm(q)', Alike(VinOf(p)', VinOf(q)')
               PROVE  p = q
    BY DEF VinCreators, Alike
  <2> QED BY <1>3 DEF VInv, VinCreators
<1>5. CreatesFresh'
  <2> SUFFICES ASSUME NEW t \in Slots, requests'[t].kind = "create",
                      IsVehicle(requests'[t].form.cat),
                      requests'[t].matched = Null,
                      NEW p \in Creators', ByTheForm(p)'
               PROVE  ~Alike(VinOf(p)', requests'[t].vin)
    BY DEF CreatesFresh, Fresh, Alike
  <2>1. p \in Creators /\ ByTheForm(p) /\ VinOf(p)' = VinOf(p)
    BY <1>3
  <2>2. CASE t = s
    <3>1. purchases[p].unit \in Known
      BY <2>1, CreatorsUnits
    <3> QED BY <1>1, <1>2, <2>1, <2>2, <3>1 DEF VinOf
  <2>3. CASE t # s
    BY <1>2, <2>1, <2>3 DEF VInv, CreatesFresh, Fresh
  <2> QED BY <2>2, <2>3
<1> QED BY <1>4, <1>5 DEF VInv

\* The one step that creates a vehicle from the purchase form.
LEMMA CommitCreateVInv ==
  ASSUME IInv, VInv, NEW s \in Slots, CommitCreate(s)
  PROVE  VInv'
<1> DEFINE r == requests[s]
<1>1. r \in CreateRequests /\ r.matched \in OrNull(Known) /\ r.kind = "create"
  BY RequestTypes DEF CommitCreate, IInv
<1>2. PICK p \in PurchaseIds, u \in UnitIds :
        Record(p, r.form, r.vin, r.matched, u, FALSE)
  BY DEF CommitCreate
<1>3. /\ r.form.cat \in Categories /\ r.form.amount \in Amounts
      /\ r.form.extras \in Extras /\ r.vin \in OrNull(Vins)
  BY <1>1 DEF CreateRequests, MoneyForms
<1>4. Done(s) /\ adjusted' = adjusted
  BY DEF CommitCreate
<1>5. \A t \in Slots : requests'[t].kind # "create"
  BY <1>1, <1>4, DoneIdles DEF IInv, OneAsync, Idle
<1>6. /\ \A q \in Entered : purchases'[q] = purchases[q]
      /\ \A v \in Known : units'[v] = units[v]
  BY <1>1, <1>2, <1>3, <1>4, RecordInStep
<1>7. CreatesFresh'
  BY <1>5 DEF CreatesFresh
<1>8. IsVehicle(r.form.cat) /\ r.matched = Null => Fresh(r)
  BY <1>1 DEF VInv, CreatesFresh
<1> HIDE DEF r
<1>9. /\ p \in PurchaseIds \ Entered
      /\ \A q : q \in Entered' <=> q \in Entered \/ q = p
  <2>1. u \in OrNull(UnitIds) /\ r.matched \in OrNull(UnitIds)
    BY <1>1 DEF OrNull, Known
  <2>2. \/ Insert(p, r.form, u, TRUE, FALSE)
        \/ Insert(p, r.form, r.matched, FALSE, FALSE)
    BY <1>2 DEF Record
  <2>3. TypeOK
    BY DEF IInv
  <2>4. CASE Insert(p, r.form, u, TRUE, FALSE)
    BY <1>3, <2>1, <2>3, <2>4, InsertRows
  <2>5. CASE Insert(p, r.form, r.matched, FALSE, FALSE)
    BY <1>3, <2>1, <2>3, <2>5, InsertRows
  <2> QED BY <2>2, <2>4, <2>5
<1>10. \A q \in Creators : /\ q \in Creators' /\ q # p
                           /\ ByTheForm(q)' <=> ByTheForm(q)
                           /\ VinOf(q)' = VinOf(q)
  BY <1>4, <1>6, <1>9, CreatorsUnits DEF Creators, ByTheForm, VinOf
<1>11. \A q \in Creators' : q \in Creators \/ q = p
  BY <1>6, <1>9 DEF Creators
<1>12. p \in Creators' => IsVehicle(r.form.cat) /\ r.matched = Null
                          /\ VinOf(p)' = r.vin
  <2>1. CASE IsVehicle(r.form.cat) /\ r.matched = Null
    <3>1. Insert(p, r.form, u, TRUE, FALSE) /\ InsertUnit(u, r.form, r.vin)
      BY <1>2, <2>1 DEF Record
    <3>2. purchases'[p].unit = u
      BY <3>1 DEF Insert, IInv, TypeOK, Types
    <3>3. units'[u].vin = r.vin
      BY <3>1 DEF InsertUnit, IInv, TypeOK, Types
    <3> QED BY <2>1, <3>2, <3>3 DEF VinOf
  <2>2. CASE ~(IsVehicle(r.form.cat) /\ r.matched = Null)
    <3>1. Insert(p, r.form, r.matched, FALSE, FALSE)
      BY <1>2, <2>2 DEF Record
    <3>2. ~purchases'[p].created
      BY <3>1 DEF Insert, IInv, TypeOK, Types
    <3> QED BY <3>2 DEF Creators
  <2> QED BY <2>1, <2>2
<1>13. VinCreators'
  <2> SUFFICES ASSUME NEW q \in Creators', NEW t \in Creators',
                      ByTheForm(q)', ByTheForm(t)', Alike(VinOf(q)', VinOf(t)')
               PROVE  q = t
    BY DEF VinCreators, Alike
  <2>1. CASE q \in Creators /\ t \in Creators
    BY <1>10, <2>1 DEF VInv, VinCreators
  <2>2. CASE q \in Creators /\ t = p
    BY <1>8, <1>10, <1>12, <2>2 DEF Fresh
  <2>3. CASE q = p /\ t \in Creators
    BY <1>8, <1>10, <1>12, <2>3 DEF Fresh, Alike
  <2> QED BY <1>11, <2>1, <2>2, <2>3
<1> QED BY <1>7, <1>13 DEF VInv

LEMMA CommitEditVins ==
  ASSUME IInv, NEW s \in Slots, CommitEdit(s) PROVE VinsStay
<1>1. PICK p \in Entered :
        LET row == purchases'[p] IN
        /\ Creators' = Creators
        /\ \A q \in Entered : q # p => purchases'[q] = purchases[q]
        /\ IsVehicle(row.cat) <=> IsVehicle(purchases[p].cat)
        /\ IsVehicle(row.cat) => row.unit = purchases[p].unit
  BY EditSaved
<1> DEFINE r == requests[s]
           new == Corrected(r.seen, r.form, r.matched)
<1>2. /\ r.pid \in PurchaseIds /\ purchases[r.pid] \in PurchaseRows
      /\ purchases' = [purchases EXCEPT ![r.pid] =
                         SavedRow(purchases[r.pid], r.seen, new)]
      /\ SyncUnit(r.pid, new, r.cost) /\ adjusted' = adjusted
  BY RequestTypes, RowTypes DEF CommitEdit, IInv
<1> HIDE DEF r, new
<1>3. \A q \in PurchaseIds : purchases[q] # Null =>
                               purchases'[q].imported = purchases[q].imported
  BY <1>2 DEF SavedRow, PurchaseRows, IInv, TypeOK, Types
<1>4. \A u \in Known : units'[u].vin = units[u].vin
  <2> SUFFICES ASSUME NEW u \in Known PROVE units'[u].vin = units[u].vin
    OBVIOUS
  <2>1. u \in UnitIds /\ units[u] \in UnitRows
    BY RowTypes DEF IInv
  <2> QED BY <1>2, <2>1 DEF SyncUnit, UnitRows, IInv, TypeOK, Types
<1>5. \A q \in Creators : /\ purchases'[q].unit = purchases[q].unit
                          /\ purchases'[q].imported = purchases[q].imported
  <2> SUFFICES ASSUME NEW q \in Creators
               PROVE  /\ purchases'[q].unit = purchases[q].unit
                      /\ purchases'[q].imported = purchases[q].imported
    OBVIOUS
  <2>1. q \in Entered /\ IsVehicle(purchases[q].cat)
    BY CreatorsUnits DEF IInv, RowsInStep, CreatorsAreVehicles
  <2> QED BY <1>1, <1>3, <2>1 DEF Entered
<1> QED BY <1>1, <1>2, <1>4, <1>5, OthersStay

LEMMA CommitStatusVins ==
  ASSUME IInv, NEW s \in Slots, CommitReview(s) \/ CommitReopen(s)
  PROVE  VinsStay
<1> DEFINE p == requests[s].pid
<1>1. /\ UNCHANGED <<units, adjusted>> /\ p \in Entered
  BY RequestTypes DEF CommitReview, CommitReopen, IInv
<1>2. PICK status, reviewer : purchases' = [purchases EXCEPT ![p] =
        [purchases[p] EXCEPT !.status = status, !.reviewer = reviewer]]
  BY DEF CommitReview, CommitReopen, SaveStatus
<1>3. purchases[p] \in PurchaseRows /\ p \in PurchaseIds
  BY <1>1, RowTypes DEF IInv
<1>4. Entered' = Entered
  BY StatusSaved DEF IInv
<1> HIDE DEF p
<1>5. \A q \in Entered : /\ purchases'[q].unit = purchases[q].unit
                         /\ purchases'[q].imported = purchases[q].imported
                         /\ purchases'[q].created = purchases[q].created
  BY <1>2, <1>3 DEF Entered, IInv, TypeOK, Types, PurchaseRows
<1>6. Creators' = Creators
  BY <1>4, <1>5 DEF Creators
<1> QED BY <1>1, <1>5, <1>6, OthersStay, CreatorsUnits

LEMMA ImportVins ==
  ASSUME IInv, NEW p \in PurchaseIds, NEW f \in Forms,
         NEW vin \in OrNull(Vins), ImportRow(p, f, vin)
  PROVE  VinsStay
<1>1. /\ \A v \in Known : units'[v] = units[v]
      /\ \A q \in Entered : purchases'[q] = purchases[q]
  BY ImportInStep
<1>2. adjusted' = adjusted
  BY DEF ImportRow
<1>3. \A q \in Creators' : q \in Creators \/ purchases'[q].imported
  <2> SUFFICES ASSUME NEW q \in Creators', q \notin Entered
               PROVE  purchases'[q].imported
    BY <1>1 DEF Creators
  <2>1. q \in PurchaseIds /\ q \in Entered'
    BY DEF Creators, Entered
  <2>2. q = p
    BY <2>1, ImportedAlone DEF Entered
  <2> QED BY <2>2, ImportedAlone
<1>4. \A q \in Creators : /\ purchases'[q].unit = purchases[q].unit
                          /\ purchases'[q].imported = purchases[q].imported
  BY <1>1, CreatorsUnits
<1> QED BY <1>1, <1>2, <1>3, <1>4, OthersStay

LEMMA FormVins ==
  ASSUME IInv,
         \/ \E u \in UnitIds, row \in UnitForms : NewUnit(u, row) \/ EditUnit(u, row)
         \/ \E p \in PurchaseIds, row \in TransactionForms : EditTransaction(p, row)
  PROVE  VinsStay
<1>1. /\ purchases' = purchases /\ adjusted \subseteq adjusted'
      /\ \A v \in Known : v \notin adjusted' => units'[v] = units[v]
  <2>1. ASSUME NEW u \in UnitIds, NEW row \in UnitForms, NewUnit(u, row)
        PROVE  \A v \in Known : units'[v] = units[v]
    BY <2>1 DEF NewUnit, IInv, TypeOK, Types, Known
  <2>2. ASSUME NEW u \in UnitIds, NEW row \in UnitForms, EditUnit(u, row)
        PROVE  \A v \in Known : v \notin adjusted' => units'[v] = units[v]
    BY <2>2 DEF EditUnit, Adjust, IInv, TypeOK, Types, Known
  <2> QED BY <2>1, <2>2 DEF NewUnit, EditUnit, EditTransaction, Adjust
<1>2. Creators' = Creators
  BY <1>1 DEF Creators, Entered
<1> QED BY <1>1, <1>2, OthersStay

LEMMA NextVInv == IInv /\ VInv /\ [Next]_vars => VInv'
<1> SUFFICES ASSUME IInv, VInv, [Next]_vars PROVE VInv'
  OBVIOUS
<1>1. ASSUME VinsStay, \/ UNCHANGED requests
                       \/ \E s \in Slots : Done(s)
      PROVE  VInv'
  <2>1. \A t \in Slots : requests'[t].kind = "create" =>
                          requests'[t] = requests[t]
    BY <1>1, DoneIdles DEF Idle
  <2> QED BY <1>1, <2>1, VinsStayFresh
<1>2. ASSUME UNCHANGED <<purchases, units, adjusted>> PROVE VinsStay
  BY <1>2 DEF VinsStay, Creators, Entered, ByTheForm, VinOf
<1>3. CASE UNCHANGED vars
  BY <1>1, <1>2, <1>3 DEF vars
<1>4. ASSUME NEW s \in Slots, Begin(s) PROVE VInv'
  BY <1>4, BeginVInv
<1>5. ASSUME NEW s \in Slots, NEW p \in PurchaseIds, NEW a \in Admins,
             BeginReview(s, p, a)
      PROVE  VInv'
  BY <1>5, BeginVInv
<1>6. ASSUME NEW s \in Slots, Commit(s) PROVE VInv'
  <2>1. CASE CommitCreate(s)
    BY <2>1, CommitCreateVInv
  <2>2. CASE CommitEdit(s)
    BY <1>1, <2>2, CommitEditVins DEF CommitEdit
  <2>3. CASE CommitReview(s) \/ CommitReopen(s)
    BY <1>1, <2>3, CommitStatusVins DEF CommitReview, CommitReopen
  <2> QED BY <1>6, <2>1, <2>2, <2>3 DEF Commit
<1>7. ASSUME NEW s \in Slots, Abandon(s) PROVE VInv'
  BY <1>1, <1>2, <1>7 DEF Abandon
<1>8. ASSUME OtherWriters PROVE VInv'
  <2>1. ASSUME NEW p \in PurchaseIds, NEW f \in Forms, NEW vin \in OrNull(Vins),
               ImportRow(p, f, vin)
        PROVE  VInv'
    BY <1>1, <2>1, ImportVins DEF ImportRow
  <2>2. ASSUME NEW u \in UnitIds, NEW row \in UnitForms,
               NewUnit(u, row) \/ EditUnit(u, row)
        PROVE  VInv'
    BY <1>1, <2>2, FormVins DEF NewUnit, EditUnit
  <2>3. ASSUME NEW p \in PurchaseIds, NEW row \in TransactionForms,
               EditTransaction(p, row)
        PROVE  VInv'
    BY <1>1, <2>3, FormVins DEF EditTransaction
  <2> QED BY <1>8, <2>1, <2>2, <2>3 DEF OtherWriters
<1> QED BY <1>3, <1>4, <1>5, <1>6, <1>7, <1>8 DEF Next, Work

\* No two purchases ever claim to have created the same unit, and no two of the
\* purchase form units of the same VIN in two spellings, whatever requests,
\* imports and forms interleave.
THEOREM UnitsHaveOneCreator == Spec => []OneCreator
<1>1. Init => VInv
  BY DEF Init, VInv, VinCreators, CreatesFresh, Creators, Entered, Idle
<1>2. IInv /\ VInv => OneCreator
  <2> SUFFICES ASSUME IInv, VInv, NEW p \in Creators, NEW q \in Creators
               PROVE  LET u == purchases[p].unit  v == purchases[q].unit IN
                      /\ u # Null
                      /\ u = v => p = q
                      /\ (/\ ByTheForm(p) /\ ByTheForm(q)
                          /\ units[u].vin # Null /\ units[v].vin # Null
                          /\ Lower[units[u].vin] = Lower[units[v].vin]) => p = q
    BY DEF OneCreator
  <2>1. /\ units[purchases[p].unit].vin \in OrNull(Vins)
        /\ units[purchases[q].unit].vin \in OrNull(Vins)
    BY CreatorsUnits, RowTypes DEF IInv, UnitRows
  <2>2. /\ purchases[p].unit # Null
        /\ purchases[p].unit = purchases[q].unit => p = q
    BY DEF IInv, RowsInStep, CreatedOnce
  <2> QED BY <2>1, <2>2 DEF VInv, VinCreators, VinOf, Alike, OrNull
<1> QED BY <1>1, <1>2, NextVInv, Invariant, PTL DEF Spec

------------------------------------------------------------------------------
(* The history is complete *)

\* What appending an event does to a log.
LEMMA Appended ==
  ASSUME NEW log \in Seq(Events), NEW e \in Events, NEW new, new = Append(log, e)
  PROVE  /\ new \in Seq(Events) /\ new # <<>>
         /\ Len(new) = Len(log) + 1 /\ Len(log) \in Nat
         /\ DOMAIN log = 1..Len(log) /\ DOMAIN new = 1..Len(new)
         /\ new[Len(new)] = e
         /\ \A i \in DOMAIN log : new[i] = log[i]
OBVIOUS

\* A save that starts from the present figures extends the log.
LEMMA SaveFollows ==
  ASSUME NEW log \in Seq(Events), NEW e \in Events, NEW new, new = Append(log, e),
         NEW figures, SavesFollow(log, figures),
         Saved(e), e.was = figures
  PROVE  SavesFollow(new, e.now)
<1> DEFINE n == Len(new)
<1>1. /\ Len(log) \in Nat /\ n = Len(log) + 1
      /\ DOMAIN log = 1..Len(log) /\ DOMAIN new = 1..n
      /\ new[n] = e /\ \A i \in 1..Len(log) : new[i] = log[i]
  BY Appended
<1> HIDE DEF n
<1> SUFFICES ASSUME NEW i \in 1..n, Saved(new[i])
             PROVE  /\ NoSave(new, i + 1, n) => new[i].now = e.now
                    /\ \A j \in i + 1 .. n :
                         Saved(new[j]) /\ NoSave(new, i + 1, j - 1) =>
                           new[j].was = new[i].now
  BY <1>1 DEF SavesFollow, n
<1>2. CASE i = n
  BY <1>1, <1>2 DEF NoSave
<1>3. CASE i # n
  <2>1. i \in 1..Len(log) /\ new[i] = log[i] /\ Saved(log[i])
    BY <1>1, <1>3
  <2>2. NoSave(new, i + 1, n) => new[i].now = e.now
    BY <1>1, <2>1 DEF NoSave
  <2>3. ASSUME NEW j \in i + 1 .. n, Saved(new[j]), NoSave(new, i + 1, j - 1)
        PROVE  new[j].was = new[i].now
    <3>1. NoSave(log, i + 1, j - 1)
      BY <1>1, <2>1, <2>3 DEF NoSave
    <3>2. CASE j = n
      BY <1>1, <2>1, <3>1, <3>2 DEF SavesFollow
    <3>3. CASE j # n
      BY <1>1, <2>1, <2>3, <3>1, <3>3 DEF SavesFollow
    <3> QED BY <3>2, <3>3
  <2> QED BY <2>2, <2>3
<1> QED BY <1>2, <1>3

\* A decision leaves the saves of a log as they were.
LEMMA DecisionFollows ==
  ASSUME NEW log \in Seq(Events), NEW e \in Events, NEW new, new = Append(log, e),
         NEW figures, SavesFollow(log, figures), ~Saved(e)
  PROVE  SavesFollow(new, figures)
<1> DEFINE n == Len(new)
<1>1. /\ Len(log) \in Nat /\ n = Len(log) + 1
      /\ DOMAIN log = 1..Len(log) /\ DOMAIN new = 1..n
      /\ new[n] = e /\ \A i \in 1..Len(log) : new[i] = log[i]
  BY Appended
<1> HIDE DEF n
<1> SUFFICES ASSUME NEW i \in 1..n, Saved(new[i])
             PROVE  /\ NoSave(new, i + 1, n) => new[i].now = figures
                    /\ \A j \in i + 1 .. n :
                         Saved(new[j]) /\ NoSave(new, i + 1, j - 1) =>
                           new[j].was = new[i].now
  BY <1>1 DEF SavesFollow, n
<1>2. i \in 1..Len(log) /\ new[i] = log[i] /\ Saved(log[i])
  BY <1>1
<1>3. NoSave(new, i + 1, n) => new[i].now = figures
  <2>1. NoSave(new, i + 1, n) => NoSave(log, i + 1, Len(log))
    BY <1>1, <1>2 DEF NoSave
  <2> QED BY <1>1, <1>2, <2>1 DEF SavesFollow
<1>4. ASSUME NEW j \in i + 1 .. n, Saved(new[j]), NoSave(new, i + 1, j - 1)
      PROVE  new[j].was = new[i].now
  <2>1. j \in i + 1 .. Len(log) /\ new[j] = log[j]
    BY <1>1, <1>2, <1>4
  <2>2. NoSave(log, i + 1, j - 1)
    BY <1>1, <1>2, <1>4, <2>1 DEF NoSave
  <2> QED BY <1>1, <1>2, <1>4, <2>1, <2>2 DEF SavesFollow
<1> QED BY <1>3, <1>4

\* The log of a purchase before and after a step, and the event it gained.
LEMMA LogTypes ==
  ASSUME TypeOK, TypeOK', NEW p \in PurchaseIds
  PROVE  /\ history[p] \in Seq(Events)
         /\ \A e : Logs(p, e) => /\ e \in Events
                                 /\ history'[p] = Append(history[p], e)
                                 /\ history'[p] # <<>>
<1>1. history[p] \in Seq(Events) /\ history'[p] \in Seq(Events)
  BY DEF TypeOK, Types
<1>2. ASSUME NEW e, Logs(p, e)
      PROVE  e \in Events /\ history'[p] # <<>>
  <2>1. history'[p] = Append(history[p], e)
    BY <1>2 DEF Logs
  <2>2. /\ Len(history[p]) + 1 \in DOMAIN history'[p]
        /\ history'[p][Len(history[p]) + 1] = e
    BY <1>1, <2>1
  <2>3. history'[p][Len(history[p]) + 1] \in Events
    BY <1>1, <2>2, ElementOfSeq
  <2> QED BY <1>1, <2>2, <2>3
<1> QED BY <1>1, <1>2 DEF Logs

\* Every purchase stays as it is or is the one that changes.
LEMMA StaysOrChanges ==
  ASSUME Shape, NEW p \in PurchaseIds PROVE Stays(p) \/ Changes(p)
BY DEF Shape, AllStay, Begins

\* What the history says of one purchase.
Told(p) ==
  /\ p \notin Entered => history[p] = <<>>
  /\ p \in Entered =>
       /\ SavesFollow(history[p], Figures(purchases[p]))
       /\ ~purchases[p].imported =>
            history[p] # <<>> /\ history[p][1].action = "created"

HInv == \A p \in PurchaseIds : Told(p)

LEMMA InitHInv == Init => HInv
BY DEF Init, HInv, Told, Entered

LEMMA EmptyFollows == ASSUME NEW figures PROVE SavesFollow(<<>>, figures)
BY DEF SavesFollow

LEMMA NextHInv ==
  ASSUME IInv, IInv', HInv, Shape PROVE HInv'
<1> SUFFICES ASSUME NEW p \in PurchaseIds PROVE Told(p)'
  BY DEF HInv
<1>1. Told(p) /\ TypeOK /\ TypeOK'
  BY DEF HInv, IInv
<1>2. history[p] \in Seq(Events)
  BY <1>1, LogTypes
<1>3. CASE Stays(p)
  BY <1>1, <1>3 DEF Stays, Told, Entered
<1>4. ASSUME Enters(p) PROVE Told(p)'
  <2>1. history[p] = <<>> /\ p \in Entered'
    BY <1>1, <1>4 DEF Enters, Told
  <2>2. CASE purchases'[p].imported /\ history'[p] = history[p]
    BY <2>1, <2>2, EmptyFollows DEF Told
  <2>3. CASE Logs(p, Event("created", Null, Null, Figures(purchases'[p])))
    <3> DEFINE e == Event("created", Null, Null, Figures(purchases'[p]))
    <3>1. e \in Events /\ history'[p] = Append(<<>>, e)
      BY <1>1, <2>1, <2>3, LogTypes
    <3>2. Len(history'[p]) = 1 /\ DOMAIN history'[p] = 1..1 /\ history'[p][1] = e
      BY <3>1
    <3>3. e.now = Figures(purchases'[p]) /\ e.action = "created"
      BY DEF Event
    <3>4. SavesFollow(history'[p], Figures(purchases'[p]))
      BY <3>2, <3>3 DEF SavesFollow
    <3> HIDE DEF e
    <3>5. history'[p] # <<>>
      BY <3>2
    <3> QED BY <2>1, <3>2, <3>3, <3>4, <3>5 DEF Told
  <2> QED BY <1>4, <2>2, <2>3 DEF Enters
\* The events of a purchase that exists are kept, and one is appended.
<1>5. ASSUME p \in Entered, p \in Entered', NEW e, Logs(p, e),
             purchases'[p].imported = purchases[p].imported,
             SavesFollow(history'[p], Figures(purchases'[p]))
      PROVE  Told(p)'
  <2>1. /\ history'[p] = Append(history[p], e) /\ history'[p] # <<>>
        /\ e \in Events
    BY <1>1, <1>5, LogTypes
  <2>2. history[p] # <<>> => history'[p][1] = history[p][1]
    BY <1>2, <2>1
  <2> QED BY <1>1, <1>5, <2>1, <2>2 DEF Told
<1>6. ASSUME NEW s \in Slots, Corrects(s, p) PROVE Told(p)'
  <2>1. p \in Entered /\ p \in Entered' /\ purchases'[p].imported = purchases[p].imported
    BY <1>6 DEF Corrects, Ends
  <2>2. SavesFollow(history[p], Figures(purchases[p]))
    BY <1>1, <2>1 DEF Told
  <2>3. CASE Figures(purchases'[p]) = Figures(purchases[p]) /\ history'[p] = history[p]
    BY <1>1, <2>1, <2>3 DEF Told
  <2>4. CASE Logs(p, Event("edited", Null, Figures(purchases[p]), Figures(purchases'[p])))
    <3> DEFINE e == Event("edited", Null, Figures(purchases[p]), Figures(purchases'[p]))
    <3>1. e \in Events /\ history'[p] = Append(history[p], e)
      BY <1>1, <2>4, LogTypes
    <3>2. /\ Saved(e) /\ e.was = Figures(purchases[p])
          /\ e.now = Figures(purchases'[p])
      BY DEF Event, Saved
    <3> HIDE DEF e
    <3>3. SavesFollow(history'[p], Figures(purchases'[p]))
      BY <1>2, <2>2, <3>1, <3>2, SaveFollows
    <3> QED BY <2>1, <2>4, <3>3, <1>5 DEF e
  <2> QED BY <1>6, <2>3, <2>4 DEF Corrects
<1>7. ASSUME NEW s \in Slots, Reviewed(s, p) \/ Reopened(s, p) PROVE Told(p)'
  <2>1. PICK action \in {"reviewed", "reopened"} :
          /\ p \in Entered /\ p \in Entered'
          /\ purchases'[p].imported = purchases[p].imported
          /\ Figures(purchases'[p]) = Figures(purchases[p])
          /\ Logs(p, Event(action, requests[s].by, Null, Null))
    BY <1>7 DEF Reviewed, Reopened, Decides, Ends
  <2> DEFINE e == Event(action, requests[s].by, Null, Null)
  <2>2. e \in Events /\ history'[p] = Append(history[p], e)
    BY <1>1, <2>1, LogTypes
  <2>3. ~Saved(e)
    BY DEF Event, Saved
  <2>4. SavesFollow(history[p], Figures(purchases[p]))
    BY <1>1, <2>1 DEF Told
  <2> HIDE DEF e
  <2>5. SavesFollow(history'[p], Figures(purchases'[p]))
    BY <1>2, <2>1, <2>2, <2>3, <2>4, DecisionFollows
  <2> QED BY <1>5, <2>1, <2>5
<1> QED BY <1>3, <1>4, <1>6, <1>7, StaysOrChanges DEF Changes

\* The history of every purchase tells how it came to its present figures,
\* whatever edits, reviews, imports and forms interleave.
THEOREM HistoriesAreComplete == Spec => []HistoryIsComplete
<1>1. HInv => HistoryIsComplete
  BY DEF HInv, Told, HistoryIsComplete, Entered
<1>2. IInv /\ IInv' /\ HInv /\ [Next]_vars => HInv'
  BY NextShape, NextHInv
<1> QED BY <1>1, <1>2, InitHInv, Invariant, PTL DEF Spec

------------------------------------------------------------------------------
(* The status follows the history *)

\* A decision in flight on a purchase entered in the application has loaded
\* the reviewer that goes with the other status.
Expects(s) ==
  LET r == requests[s] IN
  /\ r.kind = "review" /\ ~purchases[r.pid].imported => r.seen = Null
  /\ r.kind = "reopen" /\ ~purchases[r.pid].imported => r.seen # Null

DInv == (\A s \in Slots : Expects(s)) /\ ReviewFollowsHistory

\* An edit does not decide, a decision takes over.
LEMMA DecisionKept ==
  ASSUME NEW log \in Seq(Events), NEW e \in Events, NEW new, new = Append(log, e),
         ~Decided(e), NEW row, NEW next, DecidedAs(row, log),
         next.status = row.status, next.reviewer = row.reviewer
  PROVE  DecidedAs(next, new)
<1>1. /\ Len(log) \in Nat /\ Len(new) = Len(log) + 1
      /\ DOMAIN log = 1..Len(log) /\ DOMAIN new = 1..Len(new)
      /\ new[Len(new)] = e /\ \A i \in 1..Len(log) : new[i] = log[i]
  BY Appended
<1>2. \A i : LastDecision(new, i) <=> LastDecision(log, i)
  BY <1>1 DEF LastDecision
<1>3. \A i : LastDecision(log, i) => i \in DOMAIN new /\ new[i] = log[i]
  BY <1>1 DEF LastDecision
<1> QED BY <1>1, <1>2, <1>3 DEF DecidedAs, LastDecision

LEMMA DecisionTaken ==
  ASSUME NEW log \in Seq(Events), NEW e \in Events, NEW new, new = Append(log, e),
         NEW next,
         \/ /\ e.action = "reviewed" /\ next.status = "reviewed"
            /\ next.reviewer = e.by /\ e.by # Null
         \/ /\ e.action = "reopened" /\ next.status = "pending"
            /\ next.reviewer = Null
  PROVE  DecidedAs(next, new)
<1>1. /\ Len(log) \in Nat /\ Len(new) = Len(log) + 1
      /\ DOMAIN new = 1..Len(new) /\ new[Len(new)] = e
  BY Appended
<1>2. LastDecision(new, Len(new))
  BY <1>1 DEF LastDecision, Decided
<1>3. \A i : LastDecision(new, i) => i = Len(new)
  BY <1>1 DEF LastDecision, Decided
<1> QED BY <1>1, <1>2, <1>3 DEF DecidedAs

LEMMA InitDInv == Init => DInv
BY DEF Init, DInv, Expects, ReviewFollowsHistory, Entered, Idle

\* A request in flight after a step was in flight before it, or begins in it.
LEMMA RequestsBefore ==
  ASSUME IInv, Shape, NEW t \in Slots
  PROVE  requests'[t] \in {Idle, requests[t]} \/ Begins(t)
<1>1. ASSUME NEW s \in Slots, Done(s) PROVE requests'[t] \in {Idle, requests[t]}
  BY <1>1, DoneIdles
<1>2. ASSUME NEW s \in Slots, Begins(s)
      PROVE  requests'[t] \in {Idle, requests[t]} \/ Begins(t)
  BY <1>2 DEF Begins
<1> QED BY <1>1, <1>2 DEF Shape, Changes, Corrects, Reviewed, Reopened, Decides, Ends

\* A purchase that exists stays imported or not.
LEMMA ImportedKept ==
  ASSUME Shape, NEW p \in Entered
  PROVE  purchases'[p].imported = purchases[p].imported
<1>1. p \in PurchaseIds
  BY DEF Entered
<1> QED BY <1>1, StaysOrChanges
        DEF Stays, Changes, Enters, Corrects, Reviewed, Reopened, Decides, Ends

LEMMA ExpectsKept ==
  ASSUME IInv, DInv, Shape, NEW t \in Slots
  PROVE  Expects(t)'
<1> DEFINE r == requests'[t]
<1>1. CASE Begins(t)
  <2> SUFFICES ASSUME r.kind \in {"review", "reopen"}, ~purchases'[r.pid].imported
               PROVE  r.kind = "review" <=> r.seen = Null
    BY DEF Expects
  <2>1. /\ r.pid \in Entered /\ r.seen = purchases[r.pid].reviewer
        /\ r.kind = "review" <=> purchases[r.pid].status = "pending"
    BY <1>1 DEF Begins
  <2>2. /\ purchases[r.pid] \in PurchaseRows
        /\ ~purchases[r.pid].imported
    BY <2>1, RowTypes, ImportedKept DEF IInv
  <2>3. purchases[r.pid].status = "reviewed" <=> purchases[r.pid].reviewer # Null
    BY <2>1, <2>2 DEF DInv, ReviewFollowsHistory, DecidedAs
  <2> QED BY <2>1, <2>2, <2>3 DEF PurchaseRows
<1>2. CASE r = Idle
  BY <1>2 DEF Expects, Idle
<1>3. CASE r = requests[t]
  <2>1. r.kind \in {"review", "reopen"} => r.pid \in Entered
    BY <1>3, RequestTypes DEF IInv
  <2>2. Expects(t)
    BY DEF DInv
  <2> QED BY <1>3, <2>1, <2>2, ImportedKept DEF Expects
<1> QED BY <1>1, <1>2, <1>3, RequestsBefore

LEMMA NextDInv ==
  ASSUME IInv, IInv', HInv, DInv, Shape PROVE DInv'
<1>1. \A s \in Slots : Expects(s)'
  BY ExpectsKept
<1> SUFFICES ASSUME NEW p \in PurchaseIds, p \in Entered', ~purchases'[p].imported
             PROVE  DecidedAs(purchases'[p], history'[p])
  BY <1>1 DEF DInv, ReviewFollowsHistory, Entered
<1>2. TypeOK /\ TypeOK' /\ Told(p)
  BY DEF HInv, IInv
<1>3. history[p] \in Seq(Events)
  BY <1>2, LogTypes
<1>4. p \in Entered => ~purchases[p].imported /\ DecidedAs(purchases[p], history[p])
  BY ImportedKept DEF DInv, ReviewFollowsHistory
<1>5. CASE Stays(p)
  BY <1>4, <1>5 DEF Stays, Entered
<1>6. ASSUME Enters(p) PROVE DecidedAs(purchases'[p], history'[p])
  <2> DEFINE e == Event("created", Null, Null, Figures(purchases'[p]))
  <2>1. /\ history[p] = <<>> /\ Logs(p, e)
        /\ purchases'[p].status = "pending" /\ purchases'[p].reviewer = Null
    BY <1>2, <1>6 DEF Enters, Told
  <2>2. e \in Events /\ history'[p] = Append(<<>>, e)
    BY <1>2, <2>1, LogTypes
  <2>3. e.action = "created"
    BY DEF Event
  <2> HIDE DEF e
  <2>4. DOMAIN history'[p] = 1..1 /\ history'[p][1] = e
    BY <2>2
  <2>5. \A i : ~LastDecision(history'[p], i)
    BY <2>3, <2>4 DEF LastDecision, Decided
  <2> QED BY <2>1, <2>5 DEF DecidedAs
<1>7. ASSUME NEW s \in Slots, Corrects(s, p)
      PROVE  DecidedAs(purchases'[p], history'[p])
  <2>1. /\ p \in Entered /\ purchases'[p].status = purchases[p].status
        /\ purchases'[p].reviewer = purchases[p].reviewer
    BY <1>7 DEF Corrects, Ends
  <2>2. CASE history'[p] = history[p]
    BY <1>4, <2>1, <2>2 DEF DecidedAs
  <2>3. CASE Logs(p, Event("edited", Null, Figures(purchases[p]), Figures(purchases'[p])))
    <3> DEFINE e == Event("edited", Null, Figures(purchases[p]), Figures(purchases'[p]))
    <3>1. e \in Events /\ history'[p] = Append(history[p], e)
      BY <1>2, <2>3, LogTypes
    <3>2. ~Decided(e)
      BY DEF Event, Decided
    <3> HIDE DEF e
    <3> QED BY <1>3, <1>4, <2>1, <3>1, <3>2, DecisionKept
  <2> QED BY <1>7, <2>2, <2>3 DEF Corrects
<1>8. ASSUME NEW s \in Slots, Reviewed(s, p)
      PROVE  DecidedAs(purchases'[p], history'[p])
  <2> DEFINE e == Event("reviewed", requests[s].by, Null, Null)
  <2>1. /\ requests[s].kind = "review" /\ requests[s].pid = p /\ p \in Entered
        /\ purchases'[p].status = "reviewed" /\ Logs(p, e)
        /\ purchases'[p].reviewer =
             Save(requests[s].seen, requests[s].by, purchases[p].reviewer)
    BY <1>8 DEF Reviewed, Decides, Ends
  <2>2. requests[s].seen = Null
    BY <1>4, <2>1 DEF DInv, Expects
  <2>3. requests[s].by \in Admins /\ requests[s].by # Null
    BY <1>2, <2>1, RequestTypes, ConstantsOK DEF StatusRequests
  <2>4. purchases'[p].reviewer = requests[s].by
    BY <2>1, <2>2, <2>3 DEF Save
  <2>5. e \in Events /\ history'[p] = Append(history[p], e)
    BY <1>2, <2>1, LogTypes
  <2>6. e.action = "reviewed" /\ e.by = requests[s].by
    BY DEF Event
  <2> HIDE DEF e
  <2> QED BY <1>3, <2>1, <2>3, <2>4, <2>5, <2>6, DecisionTaken
<1>9. ASSUME NEW s \in Slots, Reopened(s, p)
      PROVE  DecidedAs(purchases'[p], history'[p])
  <2> DEFINE e == Event("reopened", requests[s].by, Null, Null)
  <2>1. /\ requests[s].kind = "reopen" /\ requests[s].pid = p /\ p \in Entered
        /\ purchases'[p].status = "pending" /\ Logs(p, e)
        /\ purchases'[p].reviewer = Save(requests[s].seen, Null, purchases[p].reviewer)
    BY <1>9 DEF Reopened, Decides, Ends
  <2>2. requests[s].seen # Null
    BY <1>4, <2>1 DEF DInv, Expects
  <2>3. purchases'[p].reviewer = Null
    BY <2>1, <2>2 DEF Save
  <2>4. e \in Events /\ history'[p] = Append(history[p], e)
    BY <1>2, <2>1, LogTypes
  <2>5. e.action = "reopened"
    BY DEF Event
  <2> HIDE DEF e
  <2> QED BY <1>3, <2>1, <2>3, <2>4, <2>5, DecisionTaken
<1> QED BY <1>5, <1>6, <1>7, <1>8, <1>9, StaysOrChanges DEF Changes

\* The status and the reviewer of a purchase entered in the application are
\* those of the last decision of its history, whatever order decisions load
\* and commit in.
THEOREM ReviewsFollowHistories == Spec => []ReviewFollowsHistory
<1>1. DInv => ReviewFollowsHistory
  BY DEF DInv
<1>2. IInv /\ IInv' /\ HInv /\ [Next]_vars => HInv'
  BY NextShape, NextHInv
<1>3. IInv /\ IInv' /\ HInv /\ DInv /\ [Next]_vars => DInv'
  BY NextShape, NextDInv
<1> QED BY <1>1, <1>2, <1>3, InitHInv, InitDInv, Invariant, PTL DEF Spec

------------------------------------------------------------------------------
(* What the purchases owe the reviewed ledger *)

\* The purchase of request s still has the status its handler found: the check
\* it made before others committed still holds.
StillAsLoaded(s) ==
  LET r == requests[s] IN
  /\ r.kind \in {"edit", "review"} => purchases[r.pid].status = "pending"
  /\ r.kind = "reopen" => purchases[r.pid].status # "pending"

Book == [p \in PurchaseIds |->
           IF purchases[p] = Null THEN Null
           ELSE [figures |-> Figures(purchases[p]),
                 open |-> purchases[p].status = "pending"]]

\* One entry of the book after a step.
LEMMA BookStep ==
  ASSUME NEW p \in PurchaseIds, \A q \in PurchaseIds \ {p} : Stays(q)
  PROVE  Book' = [Book EXCEPT ![p] = Book'[p]]
<1>1. \A q \in PurchaseIds \ {p} : Book'[q] = Book[q]
  BY DEF Book, Stays
<1>2. /\ Book \in [PurchaseIds -> {Book[q] : q \in PurchaseIds}]
      /\ Book' \in [PurchaseIds -> {Book'[q] : q \in PurchaseIds}]
  BY DEF Book
<1> QED BY <1>1, <1>2

LEMMA SameBook == ASSUME AllStay PROVE Book' = Book
BY DEF AllStay, Stays, Book

\* What the book says of each purchase.
BookOK ==
  \A p \in PurchaseIds :
    /\ p \notin Entered => Book[p] = Null
    /\ p \in Entered =>
         /\ Book[p] # Null
         /\ Book[p] = Promise!Row(Book[p].figures, Book[p].open)
         /\ Book[p].open \in BOOLEAN
         /\ Book[p].open <=> purchases[p].status = "pending"
         /\ Book[p].figures = Figures(purchases[p])
         /\ Book[p].figures \in FigureRows

LEMMA BookEntries == IInv => BookOK
<1> SUFFICES ASSUME IInv, NEW p \in PurchaseIds
             PROVE  /\ p \notin Entered => Book[p] = Null
                    /\ p \in Entered =>
                         /\ Book[p] # Null
                         /\ Book[p] = Promise!Row(Book[p].figures, Book[p].open)
                         /\ Book[p].open \in BOOLEAN
                         /\ Book[p].open <=> purchases[p].status = "pending"
                         /\ Book[p].figures = Figures(purchases[p])
                         /\ Book[p].figures \in FigureRows
  BY DEF BookOK
<1>1. CASE p \notin Entered
  BY <1>1 DEF Book, Entered
<1>2. CASE p \in Entered
  <2>1. PICK open \in BOOLEAN : open <=> purchases[p].status = "pending"
    OBVIOUS
  <2>2. Book[p] = [figures |-> Figures(purchases[p]), open |-> open]
    BY <1>2, <2>1 DEF Book, Entered
  <2>3. Figures(purchases[p]) \in FigureRows
    BY <1>2, RowTypes, FiguresType DEF IInv
  <2>4. Book[p] \in BookRows
    BY <2>2, <2>3 DEF BookRows
  <2>5. Book[p].open = open /\ Book[p].figures = Figures(purchases[p])
    BY <2>2
  <2>6. Book[p] = Promise!Row(Book[p].figures, Book[p].open)
    BY <2>2, <2>5 DEF Promise!Row
  <2> QED BY <1>2, <2>1, <2>3, <2>4, <2>5, <2>6, ConstantsOK
<1> QED BY <1>1, <1>2

LEMMA NextPromise ==
  ASSUME IInv, BookOK', Shape,
         \A s \in Slots : Done(s) => StillAsLoaded(s)
  PROVE  Promise!Next \/ Book' = Book
<1>0. BookOK
  BY BookEntries
<1>1. CASE AllStay
  BY <1>1, SameBook
<1>2. ASSUME NEW p \in PurchaseIds, Changes(p), \A q \in PurchaseIds \ {p} : Stays(q)
      PROVE  Promise!Next
  <2> DEFINE old == Book[p]  new == Book'[p]
  <2>1. Book' = [Book EXCEPT ![p] = new]
    BY <1>2, BookStep
  <2>2. /\ p \notin Entered => old = Null
        /\ p \in Entered => old # Null
        /\ p \in Entered => (old.open <=> purchases[p].status = "pending")
        /\ p \in Entered => old.figures = Figures(purchases[p])
    BY <1>0 DEF BookOK
  <2>3. p \in Entered' =>
          /\ new = Promise!Row(new.figures, new.open) /\ new.open \in BOOLEAN
          /\ new.open <=> purchases'[p].status = "pending"
          /\ new.figures = Figures(purchases'[p]) /\ new.figures \in FigureRows
    BY <1>2 DEF BookOK
  <2> HIDE DEF old, new
  <2>4. CASE Enters(p)
    <3>1. old = Null /\ p \in Entered'
      BY <2>2, <2>4 DEF Enters
    <3>2. PICK f \in FigureRows : new = Promise!Row(f, new.open)
      BY <2>3, <3>1
    <3>3. Promise!Enter(p, f)
      BY <2>1, <2>3, <3>1, <3>2 DEF Promise!Enter, Book, old
    <3> QED BY <3>3 DEF Promise!Next
  <2>5. ASSUME NEW s \in Slots, Corrects(s, p) PROVE Promise!Next
    <3>1. p \in Entered /\ p \in Entered'
      BY <2>5 DEF Corrects, Ends
    <3>2. purchases[p].status = "pending" /\ purchases'[p].status = "pending"
      BY <2>5 DEF Corrects, Ends, StillAsLoaded
    <3>3. PICK f \in FigureRows : new = Promise!Row(f, TRUE)
      BY <2>3, <3>1, <3>2
    <3>4. old # Null /\ old.open
      BY <2>2, <3>1, <3>2
    <3>5. Promise!Correct(p, f)
      BY <2>1, <3>3, <3>4 DEF Promise!Correct, Book, old
    <3> QED BY <3>5 DEF Promise!Next
  <2>6. ASSUME NEW s \in Slots, Reviewed(s, p) PROVE Promise!Next
    <3>1. /\ p \in Entered /\ p \in Entered'
          /\ Figures(purchases'[p]) = Figures(purchases[p])
      BY <2>6 DEF Reviewed, Decides, Ends
    <3>2. purchases[p].status = "pending" /\ purchases'[p].status # "pending"
      BY <2>6 DEF Reviewed, Decides, Ends, StillAsLoaded
    <3>3. old # Null /\ old.open /\ new = Promise!Row(old.figures, FALSE)
      BY <2>2, <2>3, <3>1, <3>2
    <3>4. Promise!Review(p)
      BY <2>1, <3>3 DEF Promise!Review, Book, old
    <3> QED BY <3>4 DEF Promise!Next
  <2>7. ASSUME NEW s \in Slots, Reopened(s, p) PROVE Promise!Next
    <3>1. /\ p \in Entered /\ p \in Entered'
          /\ Figures(purchases'[p]) = Figures(purchases[p])
      BY <2>7 DEF Reopened, Decides, Ends
    <3>2. purchases[p].status # "pending" /\ purchases'[p].status = "pending"
      BY <2>7 DEF Reopened, Decides, Ends, StillAsLoaded
    <3>3. old # Null /\ ~old.open /\ new = Promise!Row(old.figures, TRUE)
      BY <2>2, <2>3, <3>1, <3>2
    <3>4. Promise!Reopen(p)
      BY <2>1, <3>3 DEF Promise!Reopen, Book, old
    <3> QED BY <3>4 DEF Promise!Next
  <2> QED BY <1>2, <2>4, <2>5, <2>6, <2>7 DEF Changes
<1> QED BY <1>1, <1>2 DEF Shape, Begins

\* A step the reviewed ledger does not have: a save or a decision of a request
\* whose purchase was reviewed or reopened after the handler had checked it.
StaleDecision ==
  \E s \in Slots :
    /\ requests[s].kind \in {"edit", "review", "reopen"}
    /\ ~StillAsLoaded(s) /\ requests'[s] = Idle

\* However many requests overlap, every step of the purchases is a step of the
\* reviewed ledger (figures move only while a purchase is pending, a review
\* locks them and only a reopening unlocks them), unless it commits a request
\* whose check of the status is no longer true: the creations, the imports, the
\* forms and every fresh request keep what the ledger promises.
THEOREM OnlyStaleDecisionsBreakTheLedger ==
  Spec => [][Promise!Next \/ StaleDecision]_Book
<1>1. IInv /\ BookOK' /\ [Next]_vars => [Promise!Next \/ StaleDecision]_Book
  <2> SUFFICES ASSUME IInv, BookOK', [Next]_vars, ~StaleDecision
               PROVE  Promise!Next \/ Book' = Book
    OBVIOUS
  <2>1. ASSUME NEW s \in Slots, Done(s) PROVE StillAsLoaded(s)
    <3>1. requests'[s] = Idle
      BY <2>1, DoneIdles
    <3> QED BY <3>1 DEF StaleDecision, StillAsLoaded
  <2>2. CASE UNCHANGED vars
    BY <2>2 DEF vars, Book
  <2>3. CASE Next
    BY <2>1, <2>3, NextShape, NextPromise
  <2> QED BY <2>2, <2>3
<1> QED BY <1>1, BookEntries, Invariant, PTL DEF Spec

------------------------------------------------------------------------------
(* What an administrator locks is what the page showed, or is logged *)

\* The page of administrator a still shows the figures of purchase p, or the
\* history has an edit since.
PageOK(a, p) ==
  /\ p \in Entered /\ shown[a][p].events \in Nat
  /\ shown[a][p].events <= Len(history[p])
  /\ \/ Figures(purchases[p]) = shown[a][p].figures
     \/ \E i \in shown[a][p].events + 1 .. Len(history[p]) :
          history[p][i].action = "edited"

ShownType == shown \in [Admins -> [PurchaseIds ->
               OrNull([figures: FigureRows, events: Nat])]]
PagesOK == \A a \in Admins, p \in PurchaseIds : shown[a][p] # Null => PageOK(a, p)
ClickedOK ==
  \A s \in Slots, a \in Admins, p \in PurchaseIds :
    /\ requests[s].kind = "review"
    /\ requests[s].by = a /\ requests[s].pid = p
    => PageOK(a, p)
ReviewerOK ==
  \A a \in Admins, p \in PurchaseIds :
    p \in Entered /\ purchases[p].reviewer = a => PageOK(a, p)

PInv == ShownType /\ PagesOK /\ ClickedOK /\ ReviewerOK

LEMMA InitPInv == DeskInit => PInv
BY DEF DeskInit, Init, PInv, ShownType, PagesOK, ClickedOK, ReviewerOK, OrNull,
       Idle, Entered

LEMMA DeskNextIsNext == [DeskNext]_deskVars => [Next]_vars
BY DEF DeskNext, deskVars, Look, Click, Next

\* A page stays right whatever happens to its purchase.
LEMMA PageKept ==
  ASSUME IInv, IInv', Shape, NEW a \in Admins, NEW p \in PurchaseIds,
         PageOK(a, p), shown'[a][p] = shown[a][p]
  PROVE  PageOK(a, p)'
<1> DEFINE n == shown[a][p].events
<1>1. /\ history[p] \in Seq(Events) /\ TypeOK /\ TypeOK'
      /\ p \in Entered /\ n \in Nat /\ n <= Len(history[p])
  BY LogTypes DEF IInv, PageOK
<1>2. CASE Stays(p)
  BY <1>1, <1>2 DEF Stays, PageOK, Entered
<1>3. ASSUME NEW e, Logs(p, e), p \in Entered',
             \/ e.action = "edited"
             \/ Figures(purchases'[p]) = Figures(purchases[p])
      PROVE  PageOK(a, p)'
  <2>1. e \in Events /\ history'[p] = Append(history[p], e)
    BY <1>1, <1>3, LogTypes
  <2>2. /\ Len(history[p]) \in Nat /\ Len(history'[p]) = Len(history[p]) + 1
        /\ history'[p][Len(history'[p])] = e
        /\ \A i \in 1..Len(history[p]) : history'[p][i] = history[p][i]
    BY <1>1, <2>1
  <2>3. CASE e.action = "edited"
    <3>1. Len(history'[p]) \in n + 1 .. Len(history'[p])
      BY <1>1, <2>2
    <3> QED BY <1>1, <1>3, <2>2, <2>3, <3>1 DEF PageOK
  <2>4. CASE Figures(purchases'[p]) = Figures(purchases[p])
    <3>1. \A i \in n + 1 .. Len(history[p]) :
            /\ i \in n + 1 .. Len(history'[p])
            /\ history'[p][i] = history[p][i]
      BY <1>1, <2>2
    <3>2. n <= Len(history'[p])
      BY <1>1, <2>2
    <3>3. CASE Figures(purchases[p]) = shown[a][p].figures
      BY <1>1, <1>3, <2>4, <3>2, <3>3 DEF PageOK
    <3>4. CASE \E i \in n + 1 .. Len(history[p]) : history[p][i].action = "edited"
      <4>1. \E i \in n + 1 .. Len(history'[p]) : history'[p][i].action = "edited"
        BY <3>1, <3>4
      <4> QED BY <1>1, <1>3, <3>2, <4>1 DEF PageOK
    <3> QED BY <3>3, <3>4 DEF PageOK
  <2> QED BY <1>3, <2>3, <2>4
<1>4. ASSUME NEW s \in Slots, Corrects(s, p) PROVE PageOK(a, p)'
  <2>1. p \in Entered'
    BY <1>4 DEF Corrects, Ends
  <2>2. CASE Figures(purchases'[p]) = Figures(purchases[p]) /\ history'[p] = history[p]
    BY <1>1, <2>1, <2>2 DEF PageOK
  <2>3. CASE Logs(p, Event("edited", Null, Figures(purchases[p]), Figures(purchases'[p])))
    BY <1>3, <2>1, <2>3 DEF Event
  <2> QED BY <1>4, <2>2, <2>3 DEF Corrects
<1>5. ASSUME NEW s \in Slots, Reviewed(s, p) \/ Reopened(s, p) PROVE PageOK(a, p)'
  BY <1>3, <1>5 DEF Reviewed, Reopened, Decides, Ends
<1>6. ~Enters(p)
  BY <1>1 DEF Enters
<1> QED BY <1>2, <1>4, <1>5, <1>6, StaysOrChanges DEF Changes

\* Only a click puts a review in flight.
LEMMA WorkReviews ==
  ASSUME IInv, Work, NEW t \in Slots, requests'[t].kind = "review"
  PROVE  requests'[t] = requests[t]
<1>1. ASSUME NEW s \in Slots, Done(s) PROVE requests'[t] = requests[t]
  BY <1>1, DoneIdles DEF Idle
<1>2. ASSUME NEW s \in Slots, Begin(s) PROVE requests'[t] = requests[t]
  <2>1. PICK r : Accept(s, r) /\ r.kind # "review"
    <3>1. ASSUME NEW f \in Forms, NEW vin \in OrNull(Vins), BeginCreate(s, f, vin)
          PROVE  \E r : Accept(s, r) /\ r.kind # "review"
      BY <3>1 DEF BeginCreate
    <3>2. ASSUME NEW p \in PurchaseIds, NEW f \in Forms, BeginEdit(s, p, f)
          PROVE  \E r : Accept(s, r) /\ r.kind # "review"
      BY <3>2 DEF BeginEdit
    <3>3. ASSUME NEW p \in PurchaseIds, NEW a \in Admins, BeginReopen(s, p, a)
          PROVE  \E r : Accept(s, r) /\ r.kind # "review"
      BY <3>3 DEF BeginReopen
    <3> QED BY <1>2, <3>1, <3>2, <3>3 DEF Begin
  <2>2. requests'[s] = r /\ \A u \in Slots \ {s} : requests'[u] = requests[u]
    BY <2>1 DEF Accept, IInv, TypeOK, Types
  <2> QED BY <2>1, <2>2
<1>3. ASSUME NEW s \in Slots, Commit(s) \/ Abandon(s) PROVE Done(s)
  BY <1>3 DEF Commit, CommitCreate, CommitEdit, CommitReview, CommitReopen, Abandon
<1>4. CASE OtherWriters
  BY <1>4 DEF OtherWriters, ImportRow, NewUnit, EditUnit, EditTransaction
<1> QED BY <1>1, <1>2, <1>3, <1>4 DEF Work

\* The reviewer after a step was the reviewer before it, or clicked.
LEMMA ReviewerBefore ==
  ASSUME IInv, Shape, NEW p \in PurchaseIds, p \in Entered',
         purchases'[p].reviewer # Null
  PROVE  /\ p \in Entered
         /\ \/ purchases'[p].reviewer = purchases[p].reviewer
            \/ \E s \in Slots : /\ requests[s].kind = "review" /\ requests[s].pid = p
                                /\ purchases'[p].reviewer = requests[s].by
<1>1. CASE Stays(p)
  BY <1>1 DEF Stays, Entered
<1>2. ~Enters(p)
  BY DEF Enters
<1> QED BY <1>1, <1>2, StaysOrChanges
        DEF Changes, Corrects, Reviewed, Reopened, Decides, Ends, Save

\* A step of the desk keeps the pages, except the one that is rendered anew.
LEMMA DeskPages ==
  ASSUME IInv, IInv', PInv, Shape, [DeskNext]_deskVars
  PROVE  /\ ShownType'
         /\ \A a \in Admins, p \in PurchaseIds :
              PageOK(a, p) \/ shown'[a][p] # shown[a][p] => PageOK(a, p)'
<1>1. ASSUME NEW b \in Admins, NEW q \in PurchaseIds, Look(b, q)
      PROVE  /\ ShownType'
             /\ \A a \in Admins, p \in PurchaseIds :
                  IF a = b /\ p = q THEN PageOK(a, p)'
                  ELSE shown'[a][p] = shown[a][p]
  <2> DEFINE page == [figures |-> Figures(purchases[q]), events |-> Len(history[q])]
             Pages == [figures: FigureRows, events: Nat]
  <2>1. /\ q \in Entered /\ shown' = [shown EXCEPT ![b][q] = page]
        /\ UNCHANGED <<purchases, history>>
    BY <1>1 DEF Look, vars
  <2>2. TypeOK /\ history[q] \in Seq(Events)
    BY LogTypes DEF IInv
  <2>3. Figures(purchases[q]) \in FigureRows /\ Len(history[q]) \in Nat
    BY <2>1, <2>2, RowTypes, FiguresType
  <2>4. page \in OrNull(Pages)
    BY <2>3 DEF OrNull
  <2>5. page.events = Len(history[q]) /\ page.figures = Figures(purchases[q])
    OBVIOUS
  <2>6. shown \in [Admins -> [PurchaseIds -> OrNull(Pages)]]
    BY DEF PInv, ShownType
  <2> HIDE DEF page, Pages
  <2>7. /\ shown' \in [Admins -> [PurchaseIds -> OrNull(Pages)]]
        /\ shown'[b][q] = page
        /\ \A a \in Admins, p \in PurchaseIds :
             ~(a = b /\ p = q) => shown'[a][p] = shown[a][p]
    BY <2>1, <2>4, <2>6
  <2>8. PageOK(b, q)'
    BY <2>1, <2>3, <2>5, <2>7 DEF PageOK, Entered
  <2> QED BY <2>7, <2>8 DEF ShownType, Pages
<1>2. CASE UNCHANGED shown
  BY <1>2, PageKept DEF PInv, ShownType
<1>3. CASE \E b \in Admins, q \in PurchaseIds : Look(b, q)
  BY <1>1, <1>3, PageKept
<1> QED BY <1>2, <1>3 DEF DeskNext, deskVars, Click

LEMMA NextPInv ==
  ASSUME IInv, IInv', PInv, Shape, [DeskNext]_deskVars PROVE PInv'
<1>1. /\ ShownType'
      /\ \A a \in Admins, p \in PurchaseIds :
           PageOK(a, p) \/ shown'[a][p] # shown[a][p] => PageOK(a, p)'
  BY DeskPages
<1>2. PagesOK'
  BY <1>1 DEF PInv, PagesOK
<1>3. ClickedOK'
  <2> SUFFICES ASSUME NEW t \in Slots, NEW a \in Admins, NEW p \in PurchaseIds,
                      requests'[t].kind = "review",
                      requests'[t].by = a, requests'[t].pid = p
               PROVE  PageOK(a, p)
    BY <1>1 DEF ClickedOK
  <2>1. CASE requests'[t] = requests[t]
    BY <2>1 DEF PInv, ClickedOK
  <2>2. ASSUME NEW s \in Slots, NEW q \in PurchaseIds, NEW b \in Admins,
               Click(s, q, b), requests'[t] # requests[t]
        PROVE  PageOK(a, p)
    <3>1. requests'[t].by = b /\ requests'[t].pid = q
      BY <2>2 DEF Click, BeginReview, Accept, IInv, TypeOK, Types
    <3> QED BY <2>2, <3>1 DEF Click, PInv, PagesOK
  <2>3. CASE Work \/ UNCHANGED requests
    BY <2>1, <2>3, WorkReviews
  <2> QED BY <2>1, <2>2, <2>3 DEF DeskNext, deskVars, vars, Look
<1>4. ReviewerOK'
  <2> SUFFICES ASSUME NEW a \in Admins, NEW p \in PurchaseIds, p \in Entered',
                      purchases'[p].reviewer = a
               PROVE  PageOK(a, p)
    BY <1>1 DEF ReviewerOK
  <2>1. a # Null
    BY ConstantsOK
  <2>2. /\ p \in Entered
        /\ \/ purchases[p].reviewer = a
           \/ \E s \in Slots : /\ requests[s].kind = "review" /\ requests[s].pid = p
                               /\ requests[s].by = a
    BY <2>1, ReviewerBefore
  <2> QED BY <2>2 DEF PInv, ReviewerOK, ClickedOK
<1> QED BY <1>1, <1>2, <1>3, <1>4 DEF PInv

LEMMA EnteredGrows == ASSUME Shape PROVE Entered \subseteq Entered'
<1> SUFFICES ASSUME NEW p \in Entered PROVE p \in Entered'
  OBVIOUS
<1>1. p \in PurchaseIds
  BY DEF Entered
<1> QED BY <1>1, StaysOrChanges
        DEF Changes, Stays, Enters, Corrects, Reviewed, Reopened, Decides, Ends, Entered

\* A step of the desk that makes a purchase reviewed leaves its page as it was.
LEMMA ReviewStep ==
  ASSUME Shape, [DeskNext]_deskVars, PInv',
         NEW a \in Admins, NEW p \in PurchaseIds, Reviews(a, p)
  PROVE  \/ AsShown(a, p)
         \/ \E i \in shown[a][p].events + 1 .. Len(history'[p]) :
              history'[p][i].action = "edited"
<1>1. shown' = shown
  BY DEF DeskNext, deskVars, Look, Click, vars, Reviews
<1>2. PageOK(a, p)'
  <2>1. p \in Entered' /\ purchases'[p].reviewer = a
    <3>1. purchases'[p].status = "reviewed" /\ purchases'[p].reviewer = a
      BY DEF Reviews
    <3>2. p \in Entered'
      BY EnteredGrows DEF Reviews
    <3> QED BY <3>1, <3>2
  <2> QED BY <2>1 DEF PInv, ReviewerOK
<1> QED BY <1>1, <1>2 DEF PageOK, AsShown

\* An administrator locks what the review queue showed, or the history records
\* the edit that came between.
THEOREM ReviewsAsSeenOrLogged == DeskSpec => ReviewedAsSeenOrLogged
<1>1. DeskInit => IInv /\ PInv
  BY InitPInv, InitIInv DEF DeskInit
<1>2. IInv /\ [DeskNext]_deskVars => IInv'
  BY DeskNextIsNext, NextIInv
<1>3. IInv /\ IInv' /\ PInv /\ [DeskNext]_deskVars => PInv'
  BY DeskNextIsNext, NextShape, NextPInv
<1> DEFINE Goal == \A a \in Admins, p \in PurchaseIds :
                     Reviews(a, p) =>
                       \/ AsShown(a, p)
                       \/ \E i \in shown[a][p].events + 1 .. Len(history'[p]) :
                            history'[p][i].action = "edited"
<1>4. IInv /\ PInv' /\ [DeskNext]_deskVars => [Goal]_deskVars
  BY ReviewStep, DeskNextIsNext, NextShape
<1> QED BY <1>1, <1>2, <1>3, <1>4, PTL DEF DeskSpec, ReviewedAsSeenOrLogged
=============================================================================
