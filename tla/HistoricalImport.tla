-------------------------- MODULE HistoricalImport --------------------------
(***************************************************************************)
(* The one-time import of historical purchases from a file, run by hand,   *)
(* and run again after a failure.  Vehicle rows come first and remember    *)
(* which unit each stock tag names; the other rows are linked through that *)
(* memory, which lasts as long as the process.                             *)
(*                                                                         *)
(* A row is one transaction and two steps: Begin reads and decides, Commit *)
(* inserts.  Between them commit the application and any second run of the *)
(* importer.  A dry run writes nothing: it is the operator DryRun.         *)
(***************************************************************************)
EXTENDS Sessions, Naturals, SequencesExt

CONSTANTS
  File,         \* the rows of the file, in order
  Tags,         \* historical stock numbers: no unit has such an id or VIN
  Vins,         \* VINs, as they are spelled
  Lower,        \* what is left of a spelling without letter case
  UnitIds,      \* unit keys
  Importers,    \* runs of the script that may overlap
  Gone,         \* the key of a unit whose insertion was rolled back
  MaxSaves,     \* bound: saves of the unit form meanwhile
  MaxTrouble    \* bound: crashes and failed commits

\* What a row may give as its stock number.
Stocks == Tags \cup Vins

FileRow == [ref: STRING, parses: BOOLEAN, vehicle: BOOLEAN,
            stock: OrNull(Stocks), vin: OrNull(Vins)]

ASSUME FileOK ==
  /\ File \in Seq(FileRow)
  /\ MaxSaves \in Nat /\ MaxTrouble \in Nat
  /\ DOMAIN Lower = Vins
  /\ Tags \cap Vins = {}
  /\ Null \notin Stocks \cup UnitIds \cup FileRow
  /\ Gone \notin UnitIds \cup Vins \cup {Null}

VARIABLES
  purchases,    \* per source reference, the purchases that carry it
  units,        \* the VIN of each unit; Gone if there is no such unit
  runs,         \* the state of each run of the importer
  trouble,      \* crashes and failed commits so far
  saves,        \* saves of the unit form so far
  typed,        \* ghost: units whose VIN was entered or changed on the form
  mishaps       \* ghost: what a run of the importer met with

vars == <<purchases, units, runs, trouble, saves, typed, mishaps>>

\* A run met another one; a run crashed or failed a row.
Mishaps == {"overlap", "failure"}
Interrupted == mishaps # {}

\* parse_row: a line that does not parse is reported and left out.
Lines == {k \in DOMAIN File : File[k].parses}
Rows  == {File[k] : k \in Lines}
References == {row.ref : row \in Rows}

\* The order of the lines, vehicle_rows + non_vehicle_rows: the vehicles, then
\* the others.
Before(j, k) ==
  IF File[j].vehicle = File[k].vehicle THEN j < k ELSE File[j].vehicle

End == Len(File) + 1                      \* a run has no line left

First(S) == IF S = {} THEN End
            ELSE CHOOSE k \in S : \A j \in S \ {k} : Before(k, j)

After == [k \in Lines |-> First({j \in Lines : Before(k, j)})]

\* What a run that stands at k has behind it, and its last line.
Done(k) == IF k = End THEN Lines ELSE {j \in Lines : Before(j, k)}
LastLine(S) == CHOOSE k \in S : \A j \in S \ {k} : Before(j, k)

------------------------------------------------------------------------------
(* One row, against the purchases P and the units U it sees *)

Known(U) == {u \in UnitIds : U[u] # Gone}

\* Fault: the look-up minds the letter case.
AlikeSpelled(v, w) == v \in Vins /\ v = w

\* func.lower(Unit.vin_serial) == vin.lower()
Alike(v, w) == v \in Vins /\ w \in Vins /\ Lower[v] = Lower[w]

\* What the .first() of a look-up may return; the order is not specified.
Having(U, vin)  == {u \in Known(U) : Alike(U[u], vin)}
Found(U, vin)   == IF Having(U, vin) = {} THEN {Null} ELSE Having(U, vin)
Imported(P, row) == P[row.ref] # <<>>

\* resolve_vehicle_unit raises when stock number and VIN name two units.
Disagree(row, byStock, byVin) ==
  row.vehicle /\ byStock # Null /\ byVin # Null /\ byStock # byVin

Resolve(byStock, byVin) == IF byVin # Null THEN byVin ELSE byStock

\* process_non_vehicle_row: the unit the stock number matches, or else the
\* one this run remembers for it.
LinkFor(memory, row, byStock) ==
  IF byStock # Null \/ row.stock = Null THEN byStock ELSE memory[row.stock]

NewUnit(U) == CHOOSE u \in UnitIds : u \notin Known(U)

\* The purchase to insert, and whether a unit is inserted with it.
Decide(U, memory, row, byStock, byVin) ==
  LET found == IF row.vehicle THEN Resolve(byStock, byVin)
               ELSE LinkFor(memory, row, byStock)
      isNew == row.vehicle /\ found = Null
  IN  [row |-> row, unit |-> IF isNew THEN NewUnit(U) ELSE found,
       created |-> isNew]

\* Fault: nothing but the look-up keeps a reference from being used twice.
AlwaysFree(P, ref) == TRUE

\* purchases.source_reference is unique.
RefFree(P, ref) == P[ref] = <<>>

\* units.vin_serial is unique, letter by letter.
VinFree(U, vin) == vin # Null => \A u \in Known(U) : U[u] # vin

\* What the flushes of the row need.
Insertable(P, U, d) ==
  /\ RefFree(P, d.row.ref)
  /\ d.created => VinFree(U, d.row.vin)
  /\ d.unit # Gone                                    \* the foreign key

\* A key another transaction took meanwhile is replaced by the next one.
Settled(U, d) == IF d.created THEN [d EXCEPT !.unit = NewUnit(U)] ELSE d

\* Fault: the unit is never added to the session.
WithoutUnit(U, d) == U

WithPurchase(P, d) == [P EXCEPT ![d.row.ref] = Append(@, d)]
WithUnit(U, d) == IF d.created THEN [U EXCEPT ![d.unit] = d.row.vin] ELSE U

\* Fault: the first vehicle of a stock number keeps it.
RememberFirst(memory, row, unit) ==
  IF row.vehicle /\ row.stock # Null /\ memory[row.stock] = Null
  THEN [memory EXCEPT ![row.stock] = unit] ELSE memory

\* stock_to_unit: the last vehicle of a stock number keeps it.
Remember(memory, row, unit) ==
  IF row.vehicle /\ row.stock # Null
  THEN [memory EXCEPT ![row.stock] = unit] ELSE memory

NothingRemembered == [stock \in Stocks |-> Null]

------------------------------------------------------------------------------
(* The dry run: every row under a savepoint, then a rollback *)

Pick(U, vin) == CHOOSE u \in Found(U, vin) : TRUE

\* What the row decides, and whether it stays: not if it was imported, raises
\* or cannot be inserted.
DryDecide(seen, row) ==
  Decide(seen.units, seen.memory, row,
         Pick(seen.units, row.stock), Pick(seen.units, row.vin))

Stays(seen, row) ==
  /\ ~Imported(seen.purchases, row)
  /\ ~Disagree(row, Pick(seen.units, row.stock), Pick(seen.units, row.vin))
  /\ Insertable(seen.purchases, seen.units, DryDecide(seen, row))

\* Fault: what a row remembers is rolled back with its savepoint.
DryRowForgets(seen, row) ==
  LET d == DryDecide(seen, row) IN
  IF ~Stays(seen, row) THEN seen
  ELSE [seen EXCEPT !.purchases = WithPurchase(@, d), !.units = WithUnit(@, d)]

DryRow(seen, row) ==
  LET d == DryDecide(seen, row) IN
  IF ~Stays(seen, row) THEN seen
  ELSE [purchases |-> WithPurchase(seen.purchases, d),
        units     |-> WithUnit(seen.units, d),
        memory    |-> Remember(seen.memory, row, d.unit)]

\* What the rows before the line k have made of the tables, and at the end of
\* the file, the purchases there would be.
DryRun(P, U) ==
  LET seen[k \in Lines \cup {End}] ==
        IF Done(k) = {}
        THEN [purchases |-> P, units |-> U, memory |-> NothingRemembered]
        ELSE DryRow(seen[LastLine(Done(k))], File[LastLine(Done(k))])
  IN  seen[End].purchases

------------------------------------------------------------------------------
(* The real run *)

Stopped == [at |-> 0]
Nothing == [row |-> Null]

Running(i) == runs[i] # Stopped
Doing(i)   == runs[i].doing
Current(i) == File[runs[i].at]
AtRow(i)   == Running(i) /\ runs[i].at # End /\ Doing(i) = Nothing

\* Ghost: what a run found at its start, until anything disturbs it.
Undisturbed(R) ==
  [i \in Importers |-> IF R[i] = Stopped THEN Stopped
                       ELSE [R[i] EXCEPT !.before = Null]]

Advance(i, memory) ==
  [runs[i] EXCEPT !.at = After[@], !.doing = Nothing, !.memory = memory]

Init ==
  /\ purchases = [r \in References |-> <<>>]
  /\ units = [u \in UnitIds |-> Gone]
  /\ runs = [i \in Importers |-> Stopped]
  /\ trouble = 0 /\ saves = 0 /\ typed = {} /\ mishaps = {}

\* main --commit
Start(i) ==
  /\ ~Running(i)
  /\ LET alone == \A j \in Importers : ~Running(j) IN
     /\ runs' = [Undisturbed(runs) EXCEPT ![i] =
          [at |-> First(Lines), doing |-> Nothing, memory |-> NothingRemembered,
           before |-> IF alone THEN <<purchases, units>> ELSE Null]]
     /\ mishaps' = mishaps \cup (IF alone THEN {} ELSE {"overlap"})
  /\ UNCHANGED <<purchases, units, trouble, saves, typed>>

\* _already_imported
Skip(i) ==
  /\ AtRow(i) /\ Imported(purchases, Current(i))
  /\ runs' = [runs EXCEPT ![i] = Advance(i, @.memory)]
  /\ UNCHANGED <<purchases, units, trouble, saves, typed, mishaps>>

Raise(i) ==
  /\ AtRow(i) /\ ~Imported(purchases, Current(i))
  /\ \E byStock \in Found(units, Current(i).stock),
        byVin \in Found(units, Current(i).vin) : Disagree(Current(i), byStock, byVin)
  /\ runs' = [runs EXCEPT ![i] = Advance(i, @.memory)]
  /\ mishaps' = mishaps \cup {"failure"}
  /\ UNCHANGED <<purchases, units, trouble, saves, typed>>

BeginRow(i) ==
  /\ AtRow(i) /\ ~Imported(purchases, Current(i))
  /\ Known(units) # UnitIds                              \* bounds the model
  /\ \E byStock \in Found(units, Current(i).stock),
        byVin \in Found(units, Current(i).vin) :
       /\ ~Disagree(Current(i), byStock, byVin)
       /\ runs' = [runs EXCEPT ![i].doing =
            Decide(units, runs[i].memory, Current(i), byStock, byVin)]
  /\ UNCHANGED <<purchases, units, trouble, saves, typed, mishaps>>

CommitRow(i) ==
  /\ Running(i) /\ Doing(i) # Nothing /\ Insertable(purchases, units, Doing(i))
  /\ Doing(i).created => Known(units) # UnitIds           \* bounds the model
  /\ LET d == Settled(units, Doing(i)) IN
     /\ purchases' = WithPurchase(purchases, d)
     /\ units' = WithUnit(units, d)
     /\ runs' = [runs EXCEPT ![i] =
          Advance(i, Remember(@.memory, d.row, d.unit))]
  /\ UNCHANGED <<trouble, saves, typed, mishaps>>

\* A flush fails: the row is rolled back and nothing is remembered of it.
RowFails(i) ==
  /\ Running(i) /\ Doing(i) # Nothing
  /\ ~Insertable(purchases, units, Doing(i))
  /\ runs' = [runs EXCEPT ![i] = Advance(i, @.memory)]
  /\ mishaps' = mishaps \cup {"failure"}
  /\ UNCHANGED <<purchases, units, trouble, saves, typed>>

\* The commit fails: the row is rolled back, but stays remembered.
CommitFails(i) ==
  /\ Running(i) /\ Doing(i) # Nothing /\ Insertable(purchases, units, Doing(i))
  /\ trouble < MaxTrouble /\ trouble' = trouble + 1
  /\ LET d == Doing(i)
         unit == IF d.created THEN Gone ELSE d.unit
     IN  runs' = [Undisturbed(runs) EXCEPT ![i] =
           [Advance(i, Remember(@.memory, d.row, unit)) EXCEPT !.before = Null]]
  /\ mishaps' = mishaps \cup {"failure"}
  /\ UNCHANGED <<purchases, units, saves, typed>>

Finish(i) ==
  /\ Running(i) /\ runs[i].at = End
  /\ runs' = [runs EXCEPT ![i] = Stopped]
  /\ UNCHANGED <<purchases, units, trouble, saves, typed, mishaps>>

Crash(i) ==
  /\ Running(i)
  /\ trouble < MaxTrouble /\ trouble' = trouble + 1
  /\ runs' = [runs EXCEPT ![i] = Stopped]
  /\ mishaps' = mishaps \cup {"failure"}
  /\ UNCHANGED <<purchases, units, saves, typed>>

\* Somebody saves the unit form, which keeps a VIN as it is typed and looks
\* nothing up.
SaveUnit(u, vin) ==
  /\ saves < MaxSaves /\ saves' = saves + 1
  /\ units' = [units EXCEPT ![u] = vin]
  /\ typed' = typed \cup {u}
  /\ runs' = Undisturbed(runs)
  /\ UNCHANGED <<purchases, trouble, mishaps>>

\* create_unit
EnterUnit(vin) ==
  /\ Known(units) # UnitIds
  /\ VinFree(units, vin)
  /\ SaveUnit(NewUnit(units), vin)

\* update_unit; a save that leaves the VIN changes nothing here.
EditUnit(u, vin) ==
  /\ u \in Known(units) /\ vin # units[u]
  /\ VinFree(units, vin)
  /\ SaveUnit(u, vin)

Row(i) ==
  Skip(i) \/ Raise(i) \/ BeginRow(i) \/ CommitRow(i) \/ RowFails(i) \/ Finish(i)

Next ==
  \/ \E i \in Importers : Start(i) \/ Row(i) \/ CommitFails(i) \/ Crash(i)
  \/ \E vin \in OrNull(Vins) :
       EnterUnit(vin) \/ \E u \in UnitIds : EditUnit(u, vin)

\* A process that is not stopped goes on, and the operator runs the importer
\* again, as its documentation allows at any time.
Fairness == \A i \in Importers : WF_vars(Start(i)) /\ WF_vars(Row(i))

Spec == Init /\ [][Next]_vars /\ Fairness

------------------------------------------------------------------------------
Entries(keys) == [row: Rows, unit: keys, created: BOOLEAN]

RunOK(run) ==
  /\ run.at \in Lines \cup {End}
  /\ run.memory \in [Stocks -> UnitIds \cup {Null, Gone}]
  /\ run.doing # Nothing => run.doing \in Entries(UnitIds \cup {Null, Gone})

\* Rows are what the columns hold; a purchase belongs to a unit there is, and
\* only the row of a vehicle brings one (purchases.unit_id, created_unit).
TypeOK ==
  /\ DOMAIN purchases = References
  /\ \A r \in References : \A d \in Range(purchases[r]) :
       /\ d \in Entries(OrNull(Known(units)))
       /\ d.created => d.row.vehicle
  /\ units \in [UnitIds -> OrNull(Vins) \cup {Gone}]
  /\ \A i \in Importers : Running(i) => RunOK(runs[i])
  /\ trouble \in 0..MaxTrouble /\ saves \in 0..MaxSaves
  /\ typed \subseteq Known(units) /\ mishaps \subseteq Mishaps

\* A vehicle row filed under a VIN, beside its own.
Muddled(row) == row.vehicle /\ row.stock \in Vins /\ row.vin # Null

Clear == {r \in References :
            \A row \in Rows : row.ref = r => ~Muddled(row)}

\* Crashes, failed commits and overlapping runs included, every row of the
\* file arrives under its reference, once and for good, unless it may name two
\* units ("Re-running the importer against the same file is always safe",
\* import_historical_purchases.py:34; run_import, _already_imported).
Promise == INSTANCE ImportedOnce
             WITH References <- Clear,
                  entered <- [r \in Clear |-> Len(purchases[r])]
ArrivesOnce == Promise!Spec

\* Purchases of vehicles of one VIN, however it is spelled, share one unit:
\* across rows, interruptions and runs, nothing enters a second one
\* (resolve_vehicle_unit looks up without letter case), unless
\*  - the VIN of one of the two units was typed in the unit form, which looks
\*    nothing up, or
\*  - two runs overlapped and entered two spellings, as the unique VIN stops
\*    only the second unit of the same spelling.
\* A muddled row may land on the other vehicle.
SameVinSameUnit ==
  \A r, q \in Clear : \A d \in Range(purchases[r]), e \in Range(purchases[q]) :
    (/\ d.row.vehicle /\ d.row.vin # Null
     /\ e.row.vehicle /\ e.row.vin # Null
     /\ Lower[d.row.vin] = Lower[e.row.vin])
      => \/ d.unit = e.unit
         \/ d.unit \in typed \/ e.unit \in typed
         \/ "overlap" \in mishaps /\ units[d.unit] # units[e.unit]

\* The vehicles of a tag whose row is the first of its reference.
OfTag(tag) ==
  {k \in Lines : /\ File[k].vehicle /\ File[k].stock = tag
                 /\ \A j \in Lines : Before(j, k) => File[j].ref # File[k].ref}

UnitOfTag(tag) ==
  IF OfTag(tag) = {} THEN Null ELSE purchases[File[Max(OfTag(tag))].ref][1].unit

\* As long as no run crashed, failed a row or met another run, the expenses of
\* a stock tag belong to the last vehicle of the file with that tag, wherever
\* the rows stand in the file.  After an interruption they may stay without a
\* unit for good: the next run skips the vehicle, so it does not remember it
\* (stock_to_unit).
TagsLinked ==
  ~Interrupted =>
    \A r \in References : \A d \in Range(purchases[r]) :
      (~d.row.vehicle /\ d.row.stock \in Tags) => d.unit = UnitOfTag(d.row.stock)

\* No two units have one VIN in two spellings.
OneEach(U) == \A u, v \in Known(U) : Alike(U[u], U[v]) => u = v

\* A run nothing disturbs enters exactly the purchases, with the same units,
\* that a dry run at its start would have ("guaranteed to match what a real run
\* would do", import_historical_purchases.py:37), whatever earlier runs left;
\* unless two units had one VIN then, of which a look-up may take either.
DryRunForetells ==
  \A i \in Importers :
    (/\ Running(i) /\ runs[i].at = End /\ runs[i].before # Null
     /\ OneEach(runs[i].before[2]))
      => purchases = DryRun(runs[i].before[1], runs[i].before[2])
=============================================================================
