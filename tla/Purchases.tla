----------------------------- MODULE Purchases -----------------------------
(***************************************************************************)
(* The Purchases module of the application: purchases, the ledger          *)
(* transaction each one books, the units (vehicles) they create or link to *)
(* and the history the reviewers read.                                     *)
(*                                                                         *)
(* A request to the web server is two steps.  Begin reads the rows it      *)
(* needs and decides; Commit writes.  Handlers run in threads on a READ    *)
(* COMMITTED database with no row versions, so other commits fall between  *)
(* the two.  create_purchase and update_purchase are "async def" without   *)
(* an await: the event loop runs them one at a time (LoopFree), but the    *)
(* threads of the other handlers still interleave with them.  A form that  *)
(* overwrites a row without a decision (the unit and the transaction form) *)
(* is one step: whatever it had loaded, each column ends up with either    *)
(* the value of the form or the value in the database.                     *)
(***************************************************************************)
EXTENDS PurchaseRules, Sequences, FiniteSets

CONSTANTS
  PurchaseIds, UnitIds,  \* primary keys; a unit's key is also its stock number
  Vins,                  \* VINs, as they are spelled
  Lower,                 \* what is left of a spelling without letter case
  Admins,                \* signed-in administrators
  Slots,                 \* requests the server has in flight
  Categories,            \* the categories submitted, a subset of AllCategories
  Amounts, Extras,       \* money submitted
  UnitForms,             \* rows saved through the unit form
  TransactionForms,      \* rows saved through the transaction form
  MaxEvents,             \* bound: events per purchase
  MaxImported,           \* bound: purchases imported
  MaxAdjusted            \* bound: records changed through the other forms

UnitRows == [vin: OrNull(Vins), line: AssetLines, cost: OrNull(Nat)]
Bookings == [amount: Nat, line: BusinessLines, unit: OrNull(UnitIds),
             cat: OrNull(AllCategories)]
PurchaseRows == [cat: Categories, amount: Amounts, extras: Extras,
                 unit: OrNull(UnitIds), created: BOOLEAN, imported: BOOLEAN,
                 reviewer: OrNull(Admins), status: {"pending", "reviewed"}]
FigureRows == [cat: Categories, amount: Amounts, extras: Extras,
               unit: OrNull(UnitIds)]
BookRows == [figures: FigureRows, open: BOOLEAN]

ASSUME ConstantsOK ==
  /\ Categories \subseteq AllCategories
  /\ Amounts \subseteq Nat /\ Extras \subseteq Nat
  /\ UnitForms \subseteq UnitRows /\ TransactionForms \subseteq Bookings
  /\ Null \notin PurchaseIds \cup UnitIds \cup Vins \cup Admins \cup Nat
  /\ Null \notin UnitRows \cup Bookings \cup PurchaseRows \cup BookRows
  /\ UnitIds \cap Vins = {} /\ UnitIds \cap PurchaseIds = {}
  /\ DOMAIN Lower = Vins

\* A purchase form.  A stock number matters by what it matches: the key or
\* the VIN of a unit, or nothing.
Forms == [cat: Categories, amount: Amounts, extras: Extras,
          stock: OrNull(UnitIds \cup Vins)]

VARIABLES
  purchases,   \* the purchase rows; Null is a row not inserted yet
  ledger,      \* the transaction linked to each purchase
  units,       \* the unit rows
  history,     \* purchase_events, per purchase, oldest first
  requests,    \* what each request in flight has loaded and will commit
  adjusted     \* ghost: purchases and units whose ledger entry or cost was
               \* saved through the transaction form or the unit form

vars == <<purchases, ledger, units, history, requests, adjusted>>

Entered == {p \in PurchaseIds : purchases[p] # Null}
Known   == {u \in UnitIds : units[u] # Null}

Figures(p) == [cat |-> p.cat, amount |-> p.amount, extras |-> p.extras,
               unit |-> p.unit]
Money(f) == [cat |-> f.cat, amount |-> f.amount, extras |-> f.extras]
LedgerRow(f, unit, amount) ==
  [amount |-> amount, line |-> BusinessLine(f.cat), unit |-> unit,
   cat |-> f.cat]
Idle == [kind |-> "idle"]

------------------------------------------------------------------------------
(* Matching units *)

\* Fault: the look-ups mind the letter case.
AlikeSpelled(v, w) == v \in Vins /\ v = w

\* func.lower(Unit.vin_serial) == vin.lower()
Alike(v, w) == v \in Vins /\ w \in Vins /\ Lower[v] = Lower[w]

\* units.vin_serial is unique, letter by letter.
VinFree(vin, others) == vin # Null => \A u \in others : units[u].vin # vin

\* What the .first() of a query may return; no query orders its rows.
FirstOf(S) == IF S = {} THEN {Null} ELSE S

ByVin(vin) == FirstOf({u \in Known : Alike(units[u].vin, vin)})

\* match_unit_by_stock_number: against the unit id or the VIN.
ByStock(stock) ==
  FirstOf({u \in Known : u = stock \/ Alike(units[u].vin, stock)})

\* resolve_vehicle_unit, which raises when the two name different units.
Resolve(stock, vin) ==
  IF ByVin(vin) = {Null} THEN ByStock(stock)
  ELSE {u \in ByVin(vin) : ByStock(stock) \cap {u, Null} # {}}

------------------------------------------------------------------------------
(* The history *)

Event(action, by, was, now) ==
  [action |-> action, by |-> by, was |-> was, now |-> now]

CanLog(p) == Len(history[p]) < MaxEvents      \* bounds the model
Log(p, e) == history' = [history EXCEPT ![p] = Append(@, e)]

------------------------------------------------------------------------------
(* Entering purchases *)

Init ==
  /\ purchases = [p \in PurchaseIds |-> Null]
  /\ ledger    = [p \in PurchaseIds |-> Null]
  /\ units     = [u \in UnitIds |-> Null]
  /\ history   = [p \in PurchaseIds |-> <<>>]
  /\ requests  = [s \in Slots |-> Idle]
  /\ adjusted  = {}

\* Fault: the two async handlers await something before they commit.
LoopShared == TRUE

LoopFree == \A s \in Slots : requests[s].kind \notin {"create", "edit"}

Accept(s, request) ==
  /\ requests[s] = Idle
  /\ requests' = [requests EXCEPT ![s] = request]
  /\ UNCHANGED <<purchases, ledger, units, history, adjusted>>

Done(s) == requests' = [requests EXCEPT ![s] = Idle]

\* An exception, a failed constraint or a killed process: get_db rolls back.
Abandon(s) ==
  /\ requests[s] # Idle
  /\ Done(s)
  /\ UNCHANGED <<purchases, ledger, units, history, adjusted>>

\* record_purchase inserts the unit (when needed), the purchase and the
\* transaction.
Insert(p, f, unit, isNew, imported) ==
  /\ p \in PurchaseIds \ Entered
  /\ purchases' = [purchases EXCEPT ![p] =
       [cat |-> f.cat, amount |-> f.amount, extras |-> f.extras, unit |-> unit,
        created |-> isNew, imported |-> imported, reviewer |-> Null,
        status |-> IF imported THEN "reviewed" ELSE "pending"]]
  /\ ledger' = [ledger EXCEPT ![p] = LedgerRow(f, unit, BookedAmount(f))]

\* Fault: the new unit is never added to the session.
InsertNoUnit(u, f, vin) == u \in UnitIds \ Known /\ UNCHANGED units

\* The unit row of a vehicle nothing matched.
InsertUnit(u, f, vin) ==
  /\ u \in UnitIds \ Known
  /\ VinFree(vin, Known)
  /\ units' = [units EXCEPT ![u] =
       [vin |-> vin, line |-> BusinessLine(f.cat), cost |-> Total(f)]]

\* Fault: created_unit is set for every vehicle purchase.
RecordAllCreate(p, f, vin, matched, u, imported) ==
  IF IsVehicle(f.cat) /\ matched = Null
  THEN InsertUnit(u, f, vin) /\ Insert(p, f, u, TRUE, imported)
  ELSE Insert(p, f, matched, IsVehicle(f.cat), imported) /\ UNCHANGED units

Record(p, f, vin, matched, u, imported) ==
  IF IsVehicle(f.cat) /\ matched = Null
  THEN InsertUnit(u, f, vin) /\ Insert(p, f, u, TRUE, imported)
  ELSE Insert(p, f, matched, FALSE, imported) /\ UNCHANGED units

Match(f, vin) ==
  IF IsVehicle(f.cat) THEN Resolve(f.stock, vin) ELSE ByStock(f.stock)

BeginCreate(s, f, vin) ==
  /\ LoopFree
  /\ \E matched \in Match(f, vin) :
       Accept(s, [kind |-> "create", form |-> Money(f), vin |-> vin,
                  matched |-> matched])

CommitCreate(s) ==
  /\ requests[s].kind = "create"
  /\ LET r == requests[s] IN
     \E p \in PurchaseIds, u \in UnitIds :
       /\ CanLog(p)
       /\ Record(p, r.form, r.vin, r.matched, u, FALSE)
       /\ Log(p, Event("created", Null, Null, Figures(purchases'[p])))
  /\ Done(s)
  /\ UNCHANGED adjusted

\* One row of the historical importer, a process of its own: read, insert and
\* commit, reviewed from the start, with no reviewer and no event.  An expense
\* whose stock tag is a vehicle's of the same file is linked to that vehicle.
ImportRow(p, f, vin) ==
  /\ Cardinality({q \in Entered : purchases[q].imported}) < MaxImported
  /\ LET sameTag == {purchases[q].unit : q \in {x \in Entered :
                       purchases[x].imported /\ IsVehicle(purchases[x].cat)}}
     IN \E u \in UnitIds, matched \in Match(f, vin) :
          \/ Record(p, f, vin, matched, u, TRUE)
          \/ /\ ~IsVehicle(f.cat) /\ matched = Null /\ u \in sameTag
             /\ Insert(p, f, u, FALSE, TRUE)
             /\ UNCHANGED units
  /\ UNCHANGED <<history, requests, adjusted>>

------------------------------------------------------------------------------
(* Correcting purchases *)

\* Fault: the lock of a reviewed purchase is not checked.
EditableAlways(p) == TRUE

IsEditable(p) == purchases[p].status = "pending"

BeginEdit(s, p, f) ==
  /\ LoopFree
  /\ p \in Entered
  /\ IsEditable(p)
  /\ \E matched \in ByStock(f.stock) :
       /\ EditAllowed(purchases[p], f.cat, matched)
       /\ Accept(s, [kind |-> "edit", pid |-> p, form |-> Money(f),
                     matched |-> matched,
                     seen |-> Figures(purchases[p]), booked |-> ledger[p],
                     cost |-> IF purchases[p].unit = Null THEN Null
                              ELSE units[purchases[p].unit].cost])

\* The purchase as update_purchase leaves it: a vehicle keeps its unit, any
\* other purchase takes the unit its stock number matches and never loses one.
Corrected(p, f, matched) ==
  [p EXCEPT !.cat = f.cat, !.amount = f.amount, !.extras = f.extras,
            !.unit = IF matched = Null \/ IsVehicle(p.cat) THEN @ ELSE matched]

\* Fault: a newly linked unit does not reach the ledger.
SyncLedgerNoUnit(p, new, booked) ==
  ledger' = [ledger EXCEPT ![p].amount = Save(booked.amount, Total(new), @),
                           ![p].line = Save(booked.line, BusinessLine(new.cat), @),
                           ![p].cat = Save(booked.cat, new.cat, @)]

\* sync_purchase_transaction, first half.
SyncLedger(p, new, booked) ==
  LET row == LedgerRow(new, new.unit, Total(new)) IN
  ledger' = [ledger EXCEPT ![p] =
    [amount |-> Save(booked.amount, row.amount, @.amount),
     line   |-> Save(booked.line, row.line, @.line),
     unit   |-> Save(booked.unit, row.unit, @.unit),
     cat    |-> Save(booked.cat, row.cat, @.cat)]]

\* Fault: every purchase linked to the unit moves its cost.
SyncAnyUnit(p, new, cost) ==
  units' = IF new.unit # Null
           THEN [units EXCEPT ![new.unit].cost = Save(cost, Total(new), @)]
           ELSE units

\* Second half: only the purchase that created the unit corrects its cost.
SyncUnit(p, new, cost) ==
  units' = IF purchases[p].created /\ new.unit # Null
           THEN [units EXCEPT ![new.unit].cost = Save(cost, Total(new), @)]
           ELSE units

SavedRow(row, was, new) ==
  [row EXCEPT !.cat    = Save(was.cat, new.cat, @),
              !.amount = Save(was.amount, new.amount, @),
              !.extras = Save(was.extras, new.extras, @),
              !.unit   = Save(was.unit, new.unit, @)]

\* Fault: the snapshots the edit compares leave out the money.
LogRecoding(p, was, now) ==
  IF was.cat = now.cat /\ was.unit = now.unit
  THEN UNCHANGED history
  ELSE Log(p, Event("edited", Null, was, now))

\* No event when changes_between the two snapshots is empty.
LogEdit(p, was, now) ==
  IF was = now THEN UNCHANGED history
  ELSE Log(p, Event("edited", Null, was, now))

CommitEdit(s) ==
  /\ requests[s].kind = "edit"
  /\ LET r   == requests[s]
         p   == r.pid
         new == Corrected(r.seen, r.form, r.matched)
     IN /\ CanLog(p)
        /\ purchases' = [purchases EXCEPT ![p] =
                           SavedRow(purchases[p], r.seen, new)]
        /\ SyncLedger(p, new, r.booked)
        /\ SyncUnit(p, new, r.cost)
        /\ LogEdit(p, r.seen, new)
  /\ Done(s)
  /\ UNCHANGED adjusted

------------------------------------------------------------------------------
(* Reviewing and reopening *)

BeginReview(s, p, a) ==
  /\ p \in Entered
  /\ purchases[p].status = "pending"
  /\ Accept(s, [kind |-> "review", pid |-> p, by |-> a,
                seen |-> purchases[p].reviewer])

BeginReopen(s, p, a) ==
  /\ p \in Entered
  /\ purchases[p].status # "pending"
  /\ Accept(s, [kind |-> "reopen", pid |-> p, by |-> a,
                seen |-> purchases[p].reviewer])

\* Fault: a reopening leaves the reviewer's name.
SaveStatusOnly(r, status, reviewer) ==
  purchases' = [purchases EXCEPT ![r.pid] =
    [@ EXCEPT !.status   = status,
              !.reviewer = IF reviewer = Null THEN @ ELSE reviewer]]

\* Both loaded the other status, so the new one is always written.
SaveStatus(r, status, reviewer) ==
  LET row == purchases[r.pid] IN
  purchases' = [purchases EXCEPT ![r.pid] =
    [row EXCEPT !.status   = status,
                !.reviewer = Save(r.seen, reviewer, @)]]

CommitReview(s) ==
  /\ requests[s].kind = "review"
  /\ LET r == requests[s] IN
     /\ CanLog(r.pid)
     /\ SaveStatus(r, "reviewed", r.by)
     /\ Log(r.pid, Event("reviewed", r.by, Null, Null))
  /\ Done(s)
  /\ UNCHANGED <<ledger, units, adjusted>>

CommitReopen(s) ==
  /\ requests[s].kind = "reopen"
  /\ LET r == requests[s] IN
     /\ CanLog(r.pid)
     /\ SaveStatus(r, "pending", Null)
     /\ Log(r.pid, Event("reopened", r.by, Null, Null))
  /\ Done(s)
  /\ UNCHANGED <<ledger, units, adjusted>>

------------------------------------------------------------------------------
(* The unit form and the transaction form *)

Adjust(r) ==
  /\ Cardinality(adjusted \cup {r}) <= MaxAdjusted     \* bounds the model
  /\ adjusted' = adjusted \cup {r}

NewUnit(u, row) ==
  /\ u \in UnitIds \ Known
  /\ VinFree(row.vin, Known)
  /\ units' = [units EXCEPT ![u] = row]
  /\ UNCHANGED <<purchases, ledger, history, requests, adjusted>>

EditUnit(u, row) ==
  /\ u \in Known
  /\ VinFree(row.vin, Known \ {u})
  /\ units' = [units EXCEPT ![u] = row]
  /\ Adjust(u)
  /\ UNCHANGED <<purchases, ledger, history, requests>>

EditTransaction(p, row) ==
  /\ p \in Entered
  /\ row.unit \in OrNull(Known)
  /\ ledger' = [ledger EXCEPT ![p] = row]
  /\ Adjust(p)
  /\ UNCHANGED <<purchases, units, history, requests>>

------------------------------------------------------------------------------
Begin(s) ==
  \/ \E f \in Forms, vin \in OrNull(Vins) : BeginCreate(s, f, vin)
  \/ \E p \in PurchaseIds, f \in Forms : BeginEdit(s, p, f)
  \/ \E p \in PurchaseIds, a \in Admins : BeginReopen(s, p, a)

Commit(s) ==
  CommitCreate(s) \/ CommitEdit(s) \/ CommitReview(s) \/ CommitReopen(s)

OtherWriters ==
  \/ \E p \in PurchaseIds, f \in Forms, vin \in OrNull(Vins) :
       ImportRow(p, f, vin)
  \/ \E u \in UnitIds, row \in UnitForms : NewUnit(u, row) \/ EditUnit(u, row)
  \/ \E p \in PurchaseIds, row \in TransactionForms : EditTransaction(p, row)

Work ==
  \/ \E s \in Slots : Begin(s) \/ Commit(s) \/ Abandon(s)
  \/ OtherWriters

Next ==
  \/ Work
  \/ \E s \in Slots, p \in PurchaseIds, a \in Admins : BeginReview(s, p, a)

Spec == Init /\ [][Next]_vars
------------------------------------------------------------------------------
(* Types *)

Events == [action: {"created", "edited", "reviewed", "reopened"},
           by: OrNull(Admins), was: OrNull(FigureRows), now: OrNull(FigureRows)]

MoneyForms == [cat: Categories, amount: Amounts, extras: Extras]
CreateRequests == [kind: {"create"}, form: MoneyForms, vin: OrNull(Vins),
                   matched: OrNull(UnitIds)]
EditRequests == [kind: {"edit"}, pid: PurchaseIds, form: MoneyForms,
                 matched: OrNull(UnitIds), seen: FigureRows,
                 booked: Bookings, cost: OrNull(Nat)]
StatusRequests == [kind: {"review", "reopen"}, pid: PurchaseIds, by: Admins,
                   seen: OrNull(Admins)]

Types ==
  /\ purchases \in [PurchaseIds -> OrNull(PurchaseRows)]
  /\ ledger \in [PurchaseIds -> OrNull(Bookings)]
  /\ units \in [UnitIds -> OrNull(UnitRows)]
  /\ history \in [PurchaseIds -> Seq(Events)]
  /\ requests \in [Slots -> {Idle} \cup CreateRequests \cup EditRequests
                               \cup StatusRequests]
  /\ adjusted \subseteq PurchaseIds \cup UnitIds

\* What a row or a request in flight refers to exists.
References ==
  /\ \A p \in PurchaseIds : purchases[p] = Null <=> ledger[p] = Null
  /\ \A p \in Entered : purchases[p].unit \in OrNull(Known)
  /\ \A p \in Entered : ledger[p].unit \in OrNull(Known)
  /\ \A s \in Slots :
       /\ requests[s].kind \in {"create", "edit"} =>
            requests[s].matched \in OrNull(Known)
       /\ requests[s].kind \in {"edit", "review", "reopen"} =>
            requests[s].pid \in Entered
       /\ requests[s].kind = "edit" => requests[s].seen.unit \in OrNull(Known)

\* The type invariant: the rows have their columns and the foreign keys hold,
\* also for what the requests in flight have loaded (app/models).
TypeOK == Types /\ References

------------------------------------------------------------------------------
(* Properties *)

Creators == {p \in Entered : purchases[p].created}

\* The VIN is the form's: nothing else made the unit or changed it.
ByTheForm(p) == ~purchases[p].imported /\ purchases[p].unit \notin adjusted

\* A vehicle has at most one purchase that created its unit: a second purchase
\* of it, however its VIN is spelled, is linked to the unit of the first
\* (resolve_vehicle_unit looks up without letter case, and no other creation
\* falls between that and the insertion), and created_unit, which licenses
\* edits to move the unit's cost, stays with the first.  Of a vehicle the
\* importer or the unit form entered meanwhile only the same spelling is
\* refused.
OneCreator ==
  \A p, q \in Creators :
    LET u == purchases[p].unit  v == purchases[q].unit IN
    /\ u # Null
    /\ u = v => p = q
    /\ (/\ ByTheForm(p) /\ ByTheForm(q)
        /\ units[u].vin # Null /\ units[v].vin # Null
        /\ Lower[units[u].vin] = Lower[units[v].vin]) => p = q

\* A unit costs what its creating purchase totals, through any number of
\* corrections of that purchase and of others linked to the unit, until
\* somebody sets the cost on the unit form (sync_purchase_transaction).
CostFollowsCreator ==
  \A p \in Creators :
    purchases[p].unit \notin adjusted =>
      units[purchases[p].unit].cost = Total(purchases[p])

\* The ledger entry of a purchase repeats its category, line, unit and (for a
\* vehicle) total, unless it was saved through the transaction form.
LedgerFollows ==
  \A p \in Entered \ adjusted :
    LET row == purchases[p] IN
    \/ ledger[p] = LedgerRow(row, row.unit, BookedAmount(row))
    \/ ledger[p] = LedgerRow(row, row.unit, Total(row))

UnitsKept ==
  \A p \in Entered :
    LET now == purchases[p]  next == purchases'[p] IN
    /\ IsVehicle(now.cat) <=> IsVehicle(next.cat)
    /\ IsVehicle(now.cat) =>
         /\ now.unit = next.unit
         /\ BusinessLine(now.cat) = BusinessLine(next.cat)

\* No step turns a vehicle purchase into another kind, moves it between the
\* lines or takes it to another unit (check_edit_allowed, decided on rows
\* loaded before the save).
VehicleKeepsUnit == [][UnitsKept]_vars

Saved(e) == e.action \in {"created", "edited"}

NoSave(log, i, j) == \A k \in i..j : ~Saved(log[k])

\* In a log, every save starts from the figures the save before it left, and
\* the last save left these figures.
SavesFollow(log, figures) ==
  \A i \in DOMAIN log : Saved(log[i]) =>
    /\ NoSave(log, i + 1, Len(log)) => log[i].now = figures
    /\ \A j \in i + 1 .. Len(log) :
         Saved(log[j]) /\ NoSave(log, i + 1, j - 1) => log[j].was = log[i].now

\* The history tells how a purchase came to its present figures, starting with
\* its creation; that of an imported purchase starts with its first correction
\* (purchase_events).
HistoryIsComplete ==
  \A p \in Entered :
    LET row == purchases[p]  log == history[p] IN
    /\ SavesFollow(log, Figures(row))
    /\ ~row.imported => log # <<>> /\ log[1].action = "created"

Decided(e) == e.action \in {"reviewed", "reopened"}
LastDecision(log, i) ==
  /\ i \in DOMAIN log /\ Decided(log[i])
  /\ \A j \in i+1 .. Len(log) : ~Decided(log[j])

\* The status and the reviewer of a row are those of its log's last decision.
DecidedAs(row, log) ==
  /\ row.status = "reviewed" <=> row.reviewer # Null
  /\ row.status = "reviewed" =>
       \E i \in DOMAIN log :
         /\ LastDecision(log, i)
         /\ log[i].action = "reviewed" /\ log[i].by = row.reviewer
  /\ row.status = "pending" =>
       \A i \in DOMAIN log : LastDecision(log, i) => log[i].action = "reopened"

\* The review status and the reviewer of a purchase entered in the application
\* are those of the last decision its history records, whatever order
\* concurrent reviews and reopens commit in.
ReviewFollowsHistory ==
  \A p \in Entered :
    ~purchases[p].imported => DecidedAs(purchases[p], history[p])

\* With one request at a time, the purchases are a reviewed ledger: figures
\* move only while a purchase is pending, and only a reopening unlocks them.
Promise == INSTANCE ReviewedLedger WITH
  Entries <- PurchaseIds, FigureSet <- FigureRows, Nothing <- Null,
  book <- [p \in PurchaseIds |->
             IF purchases[p] = Null THEN Null
             ELSE [figures |-> Figures(purchases[p]),
                   open |-> purchases[p].status = "pending"]]
KeepsReviewedLedger == Promise!Spec

=============================================================================
