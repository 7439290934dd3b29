---------------------- MODULE HistoricalImport_proofs ----------------------
(***************************************************************************)
(* Proofs about HistoricalImport, for every file, every number of runs     *)
(* that overlap and every interruption.                                    *)
(***************************************************************************)
EXTENDS HistoricalImport, WellFoundedInduction, TLAPS

------------------------------------------------------------------------------
(* The lines of the file and their order *)

LEMMA LeastNat ==
  ASSUME NEW T, T \subseteq Nat, T # {} PROVE \E x \in T : \A y \in T : x <= y
<1>1. PICK x \in T : \A y \in T : <<y, x>> \notin OpToRel(<, Nat)
  BY NatLessThanWellFounded, WFMin
<1>2. \A y \in T : ~(y < x)
  BY <1>1 DEF OpToRel
<1> QED BY <1>2

LEMMA LineTypes ==
  /\ Lines \subseteq Nat /\ End \in Nat /\ End \notin Lines /\ 0 \notin Lines \cup {End}
  /\ \A k \in Lines : File[k] \in Rows /\ File[k].vehicle \in BOOLEAN
  /\ \A row \in Rows : row \in FileRow /\ row.ref \in References
<1>1. Len(File) \in Nat /\ DOMAIN File = 1..Len(File)
      /\ \A k \in 1..Len(File) : File[k] \in FileRow
  BY FileOK
<1>2. \A k \in Lines : k \in 1..Len(File) /\ File[k] \in Rows
  BY <1>1 DEF Lines, Rows
<1>3. \A row \in Rows : row \in FileRow /\ row.ref \in References
  BY <1>1, <1>2 DEF Rows, References, Lines
<1>4. \A k \in Lines : File[k].vehicle \in BOOLEAN
  BY <1>2, <1>3 DEF FileRow
<1> QED BY <1>1, <1>2, <1>3, <1>4 DEF End

\* There is a first line among any lines.
LEMMA FirstExists ==
  ASSUME NEW S, S \subseteq Lines, S # {} PROVE \E k \in S : \A j \in S \ {k} : Before(k, j)
<1> DEFINE V == {k \in S : File[k].vehicle}
<1>1. CASE V # {}
  <2>1. V \subseteq Nat
    BY LineTypes
  <2>2. PICK k \in V : \A j \in V : k <= j
    BY <1>1, <2>1, LeastNat
  <2>3. k \in S /\ \A j \in S \ {k} : Before(k, j)
    BY <2>1, <2>2, LineTypes DEF Before
  <2> QED BY <2>3
<1>2. CASE V = {}
  <2>1. S \subseteq Nat
    BY LineTypes
  <2>2. PICK k \in S : \A j \in S : k <= j
    BY <2>1, LeastNat
  <2>3. \A j \in S \ {k} : Before(k, j)
    BY <1>2, <2>1, <2>2, LineTypes DEF Before
  <2> QED BY <2>3
<1> QED BY <1>1, <1>2

LEMMA FirstType ==
  ASSUME NEW S, S \subseteq Lines PROVE First(S) \in Lines \cup {End}
BY FirstExists DEF First

LEMMA AfterType == \A k \in Lines : After[k] \in Lines \cup {End}
<1> SUFFICES ASSUME NEW k \in Lines PROVE After[k] \in Lines \cup {End}
  OBVIOUS
<1>1. After[k] = First({j \in Lines : Before(k, j)})
  BY DEF After
<1> QED BY <1>1, FirstType

------------------------------------------------------------------------------
(* What a state of the tables is *)

Keys == UnitIds \cup {Null, Gone}
PurchaseTables == [References -> Seq(Entries(OrNull(UnitIds)))]
UnitTables == [UnitIds -> OrNull(Vins) \cup {Gone}]
RunRows == [at: Lines \cup {End}, doing: Entries(Keys) \cup {Nothing},
            memory: [Stocks -> Keys], before: OrNull(PurchaseTables \X UnitTables)]

\* A purchase carries its reference and belongs to a unit there is.
EntryOK(U, ref, d) ==
  /\ d.row.ref = ref /\ d.unit \in OrNull(Known(U))
  /\ d.created => d.row.vehicle

\* What a run has decided stays right until it commits, unless the unit is yet
\* to be inserted or was rolled back.
PlanOK(U, d) ==
  IF d.created THEN d.row.vehicle ELSE d.unit \in Known(U) \cup {Null, Gone}

RunGood(U, run) ==
  /\ \A t \in Stocks : run.memory[t] \in Known(U) \cup {Null, Gone}
  /\ run.doing # Nothing => run.at # End /\ PlanOK(U, run.doing)

RunsGood(U, R) ==
  /\ R \in [Importers -> RunRows \cup {Stopped}]
  /\ \A i \in Importers : R[i] # Stopped => RunGood(U, R[i])

PurchasesGood(U, P) ==
  /\ P \in PurchaseTables
  /\ \A r \in References : /\ Len(P[r]) <= 1
                           /\ \A k \in DOMAIN P[r] : EntryOK(U, r, P[r][k])

\* No two units have one VIN in one spelling.
UnitsGood(U) ==
  /\ U \in UnitTables
  /\ \A u, v \in Known(U) : U[u] # Null /\ U[u] = U[v] => u = v

IInv ==
  /\ UnitsGood(units) /\ PurchasesGood(units, purchases) /\ RunsGood(units, runs)
  /\ trouble \in 0..MaxTrouble /\ saves \in 0..MaxSaves
  /\ typed \subseteq Known(units) /\ mishaps \subseteq Mishaps

\* No unit is ever removed.
Grows(U, V) == Known(U) \subseteq Known(V)

LEMMA InitIInv == Init => IInv
<1> SUFFICES ASSUME Init PROVE IInv
  OBVIOUS
<1>1. PurchasesGood(units, purchases)
  <2>1. purchases = [r \in References |-> <<>>]
    BY DEF Init
  <2>2. purchases \in PurchaseTables
    BY <2>1 DEF PurchaseTables
  <2>3. \A r \in References : Len(purchases[r]) = 0 /\ DOMAIN purchases[r] = {}
    BY <2>1
  <2> QED BY <2>2, <2>3 DEF PurchasesGood
<1>2. UnitsGood(units)
  BY DEF Init, UnitTables, Known, UnitsGood
<1>3. RunsGood(units, runs)
  <2>1. runs = [i \in Importers |-> Stopped]
    BY DEF Init
  <2>2. runs \in [Importers -> RunRows \cup {Stopped}]
    BY <2>1
  <2>3. \A i \in Importers : runs[i] = Stopped
    BY <2>1
  <2> QED BY <2>2, <2>3 DEF RunsGood
<1>4. trouble \in 0..MaxTrouble
  BY FileOK DEF Init
<1>5. saves \in 0..MaxSaves /\ typed \subseteq Known(units) /\ mishaps \subseteq Mishaps
  BY FileOK DEF Init
<1> QED BY <1>1, <1>2, <1>3, <1>4, <1>5 DEF IInv

------------------------------------------------------------------------------
(* Looking up and deciding *)

LEMMA FoundType ==
  ASSUME NEW U \in UnitTables, NEW vin, NEW u \in Found(U, vin)
  PROVE  \/ u = Null /\ \A v \in Known(U) : ~Alike(U[v], vin)
         \/ u \in Known(U) /\ u # Null /\ Alike(U[u], vin)
<1>1. Known(U) \subseteq UnitIds /\ Null \notin UnitIds
  BY FileOK DEF Known
<1> QED BY <1>1 DEF Found, Having

LEMMA NewUnitType ==
  ASSUME NEW U, Known(U) # UnitIds
  PROVE  NewUnit(U) \in UnitIds /\ NewUnit(U) \notin Known(U)
<1>1. \E u \in UnitIds : u \notin Known(U)
  BY DEF Known
<1> QED BY <1>1 DEF NewUnit

LEMMA DecideOK ==
  ASSUME NEW U \in UnitTables, NEW memory \in [Stocks -> Keys], NEW row \in Rows,
         \A t \in Stocks : memory[t] \in Known(U) \cup {Null, Gone},
         Known(U) # UnitIds,
         NEW byStock \in Found(U, row.stock), NEW byVin \in Found(U, row.vin)
  PROVE  /\ Decide(U, memory, row, byStock, byVin) \in Entries(Keys)
         /\ PlanOK(U, Decide(U, memory, row, byStock, byVin))
<1> DEFINE found == IF row.vehicle THEN Resolve(byStock, byVin)
                    ELSE LinkFor(memory, row, byStock)
           isNew == row.vehicle /\ found = Null
           unit == IF isNew THEN NewUnit(U) ELSE found
           d == [row |-> row, unit |-> unit, created |-> isNew]
<1>1. d = Decide(U, memory, row, byStock, byVin)
  BY DEF Decide
<1>2. found \in Known(U) \cup {Null, Gone}
  <2>1. byStock \in Known(U) \cup {Null} /\ byVin \in Known(U) \cup {Null}
    BY FoundType
  <2>2. row.stock # Null => row.stock \in Stocks
    BY LineTypes DEF FileRow, OrNull
  <2>3. LinkFor(memory, row, byStock) \in Known(U) \cup {Null, Gone}
    BY <2>1, <2>2 DEF LinkFor
  <2> QED BY <2>1, <2>3 DEF Resolve
<1>3. row.vehicle \in BOOLEAN
  BY LineTypes DEF FileRow
<1>4. unit \in Keys
  BY <1>2, NewUnitType DEF Keys, Known
<1> HIDE DEF found
<1>5. d \in Entries(Keys)
  BY <1>3, <1>4 DEF Entries
<1>6. PlanOK(U, d)
  BY <1>2, <1>3 DEF PlanOK
<1> QED BY <1>1, <1>5, <1>6

------------------------------------------------------------------------------
(* The steps *)

LEMMA KnownType == ASSUME NEW U PROVE Known(U) \subseteq UnitIds
BY DEF Known

\* What a run holds stays right when units are added.
LEMMA RunGrows ==
  ASSUME NEW U, NEW V, Grows(U, V), NEW run, RunGood(U, run) PROVE RunGood(V, run)
<1>1. Known(U) \subseteq Known(V)
  BY DEF Grows
<1> QED BY <1>1 DEF RunGood, PlanOK

LEMMA EntryGrows ==
  ASSUME NEW U, NEW V, Grows(U, V), NEW r, NEW d, EntryOK(U, r, d)
  PROVE  EntryOK(V, r, d)
<1>1. OrNull(Known(U)) \subseteq OrNull(Known(V))
  BY DEF Grows, OrNull
<1> QED BY <1>1 DEF EntryOK

LEMMA RunsGrow ==
  ASSUME NEW U, NEW V, Grows(U, V), NEW R, RunsGood(U, R) PROVE RunsGood(V, R)
BY RunGrows DEF RunsGood

LEMMA PurchasesGrow ==
  ASSUME NEW U, NEW V, Grows(U, V), NEW P, PurchasesGood(U, P)
  PROVE  PurchasesGood(V, P)
BY EntryGrows DEF PurchasesGood

\* One run moves.
LEMMA OneRunMoves ==
  ASSUME NEW U, NEW R, RunsGood(U, R), NEW i \in Importers,
         NEW run \in RunRows \cup {Stopped}, run # Stopped => RunGood(U, run)
  PROVE  RunsGood(U, [R EXCEPT ![i] = run])
BY DEF RunsGood

LEMMA BeforeForgotten ==
  ASSUME NEW U, NEW run \in RunRows, RunGood(U, run)
  PROVE  /\ [run EXCEPT !.before = Null] \in RunRows
         /\ RunGood(U, [run EXCEPT !.before = Null])
BY DEF RunRows, RunGood, OrNull

LEMMA UndisturbedGood ==
  ASSUME NEW U, NEW R, RunsGood(U, R) PROVE RunsGood(U, Undisturbed(R))
<1>1. \A i \in Importers : R[i] # Stopped => R[i] \in RunRows /\ RunGood(U, R[i])
  BY DEF RunsGood
<1>2. \A i \in Importers :
        R[i] # Stopped => /\ [R[i] EXCEPT !.before = Null] \in RunRows
                          /\ RunGood(U, [R[i] EXCEPT !.before = Null])
  BY <1>1, BeforeForgotten
<1> QED BY <1>2 DEF Undisturbed, RunsGood

LEMMA AdvanceGood ==
  ASSUME IInv, NEW i \in Importers, Running(i), runs[i].at # End,
         NEW memory \in [Stocks -> Keys], NEW U,
         \A t \in Stocks : memory[t] \in Known(U) \cup {Null, Gone}
  PROVE  /\ Advance(i, memory) \in RunRows
         /\ RunGood(U, Advance(i, memory))
<1>1. runs[i] \in RunRows
  BY DEF IInv, RunsGood, Running
<1>2. After[runs[i].at] \in Lines \cup {End}
  BY <1>1, AfterType DEF RunRows
<1> DEFINE next == After[runs[i].at]
<1>3. Advance(i, memory)
        = [runs[i] EXCEPT !.at = next, !.doing = Nothing, !.memory = memory]
  BY DEF Advance
<1> HIDE DEF next
<1>4. Advance(i, memory) \in RunRows
  BY <1>1, <1>2, <1>3 DEF RunRows, next
<1>5. /\ Advance(i, memory).memory = memory
      /\ Advance(i, memory).doing = Nothing
  BY <1>1, <1>3 DEF RunRows
<1> QED BY <1>4, <1>5 DEF RunGood

\* A unit is saved under a VIN nobody has.
LEMMA UnitSaved ==
  ASSUME NEW U, UnitsGood(U), NEW u \in UnitIds,
         NEW vin \in OrNull(Vins), VinFree(U, vin),
         NEW V, V = [U EXCEPT ![u] = vin]
  PROVE  /\ UnitsGood(V) /\ Grows(U, V) /\ V[u] = vin
         /\ Known(V) = Known(U) \cup {u} /\ \A v \in UnitIds \ {u} : V[v] = U[v]
<1>1. vin # Gone
  BY FileOK DEF OrNull
<1>2. V \in UnitTables /\ V[u] = vin /\ \A v \in UnitIds \ {u} : V[v] = U[v]
  BY DEF UnitsGood, UnitTables
<1>3. Known(V) = Known(U) \cup {u}
  BY <1>1, <1>2 DEF Known
<1>4. Known(U) \subseteq UnitIds
  BY DEF Known
<1>5. \A v \in Known(U) : vin # Null => U[v] # vin
  BY DEF VinFree
<1>6. ASSUME NEW x \in Known(V), NEW y \in Known(V), V[x] # Null, V[x] = V[y]
      PROVE  x = y
  <2>1. CASE x = u /\ y # u
    BY <1>2, <1>3, <1>4, <1>5, <1>6, <2>1
  <2>2. CASE x # u /\ y = u
    BY <1>2, <1>3, <1>4, <1>5, <1>6, <2>2
  <2>3. CASE x # u /\ y # u
    BY <1>2, <1>3, <1>4, <1>6, <2>3 DEF UnitsGood
  <2> QED BY <2>1, <2>2, <2>3
<1> QED BY <1>2, <1>3, <1>6 DEF UnitsGood, Grows

\* What the run has in hand, if it runs.
LEMMA InHand ==
  ASSUME IInv, NEW i \in Importers, Running(i)
  PROVE  /\ runs[i] \in RunRows /\ RunGood(units, runs[i])
         /\ runs[i].memory \in [Stocks -> Keys]
         /\ \A t \in Stocks : runs[i].memory[t] \in Known(units) \cup {Null, Gone}
         /\ runs[i].at # End => Current(i) \in Rows
         /\ Doing(i) # Nothing => /\ Doing(i) \in Entries(Keys)
                                  /\ PlanOK(units, Doing(i)) /\ runs[i].at # End
<1>1. runs[i] \in RunRows /\ RunGood(units, runs[i])
  BY DEF IInv, RunsGood, Running
<1>2. /\ runs[i].at \in Lines \cup {End} /\ runs[i].memory \in [Stocks -> Keys]
      /\ runs[i].doing \in Entries(Keys) \cup {Nothing}
  BY <1>1 DEF RunRows
<1>3. runs[i].at # End => Current(i) \in Rows
  BY <1>2 DEF Current, Rows
<1> QED BY <1>1, <1>2, <1>3 DEF RunGood, Doing

\* A step that touches no table and moves one run.
LEMMA OnlyTheRun ==
  ASSUME IInv, UNCHANGED <<purchases, units, saves, typed>>,
         trouble' \in 0..MaxTrouble, mishaps' \subseteq Mishaps,
         RunsGood(units, runs')
  PROVE  IInv'
<1>1. UnitsGood(units') /\ PurchasesGood(units', purchases') /\ RunsGood(units', runs')
  BY DEF IInv
<1> QED BY <1>1 DEF IInv

LEMMA TroubleType ==
  ASSUME IInv, trouble < MaxTrouble, trouble' = trouble + 1
  PROVE  trouble' \in 0..MaxTrouble
BY FileOK DEF IInv

LEMMA StartKeeps == ASSUME IInv, NEW i \in Importers, Start(i) PROVE IInv'
<1> DEFINE before == IF \A j \in Importers : ~Running(j)
                     THEN <<purchases, units>> ELSE Null
           run == [at |-> First(Lines), doing |-> Nothing,
                   memory |-> NothingRemembered, before |-> before]
<1>1. runs' = [Undisturbed(runs) EXCEPT ![i] = run]
  BY DEF Start
<1>2. before \in OrNull(PurchaseTables \X UnitTables)
  BY DEF IInv, UnitsGood, PurchasesGood, OrNull
<1>3. First(Lines) \in Lines \cup {End}
  BY FirstType
<1> HIDE DEF before
<1>4. run \in RunRows /\ RunGood(units, run)
  BY <1>2, <1>3 DEF RunRows, RunGood, NothingRemembered, Keys
<1> HIDE DEF run
<1>5. RunsGood(units, runs')
  BY <1>1, <1>4, UndisturbedGood, OneRunMoves DEF IInv
<1>6. mishaps' \subseteq Mishaps /\ trouble' \in 0..MaxTrouble
  BY DEF Start, IInv, Mishaps
<1> QED BY <1>5, <1>6, OnlyTheRun DEF Start

LEMMA PassOn ==
  ASSUME IInv, NEW i \in Importers, Running(i), runs[i].at # End,
         runs' = [runs EXCEPT ![i] = Advance(i, @.memory)]
  PROVE  RunsGood(units, runs')
<1> DEFINE run == Advance(i, runs[i].memory)
<1>1. runs' = [runs EXCEPT ![i] = run]
  BY DEF IInv, RunsGood
<1>2. run \in RunRows /\ RunGood(units, run)
  BY InHand, AdvanceGood
<1>3. RunsGood(units, runs)
  BY DEF IInv
<1> HIDE DEF run
<1>4. RunsGood(units, [runs EXCEPT ![i] = run])
  BY <1>2, <1>3, OneRunMoves
<1> QED BY <1>1, <1>4

LEMMA SkipKeeps == ASSUME IInv, NEW i \in Importers, Skip(i) PROVE IInv'
<1>1. RunsGood(units, runs')
  BY PassOn DEF Skip, AtRow
<1> QED BY <1>1, OnlyTheRun DEF Skip, IInv

LEMMA RaiseKeeps == ASSUME IInv, NEW i \in Importers, Raise(i) PROVE IInv'
<1>1. RunsGood(units, runs')
  BY PassOn DEF Raise, AtRow
<1> QED BY <1>1, OnlyTheRun DEF Raise, IInv, Mishaps

LEMMA RowFailsKeeps == ASSUME IInv, NEW i \in Importers, RowFails(i) PROVE IInv'
<1>1. RunsGood(units, runs')
  BY InHand, PassOn DEF RowFails
<1> QED BY <1>1, OnlyTheRun DEF RowFails, IInv, Mishaps

LEMMA BeginRowKeeps == ASSUME IInv, NEW i \in Importers, BeginRow(i) PROVE IInv'
<1> PICK byStock \in Found(units, Current(i).stock),
         byVin \in Found(units, Current(i).vin) :
           runs' = [runs EXCEPT ![i].doing =
             Decide(units, runs[i].memory, Current(i), byStock, byVin)]
  BY DEF BeginRow
<1> DEFINE d == Decide(units, runs[i].memory, Current(i), byStock, byVin)
           run == [runs[i] EXCEPT !.doing = d]
<1>1. /\ runs[i] \in RunRows /\ RunGood(units, runs[i]) /\ runs[i].at # End
      /\ runs[i].memory \in [Stocks -> Keys] /\ Current(i) \in Rows
      /\ \A t \in Stocks : runs[i].memory[t] \in Known(units) \cup {Null, Gone}
  BY InHand DEF BeginRow, AtRow
<1>2. d \in Entries(Keys) /\ PlanOK(units, d)
  BY <1>1, DecideOK DEF BeginRow, IInv, UnitsGood
<1>3. runs' = [runs EXCEPT ![i] = run]
  OBVIOUS
<1> HIDE DEF d
<1>4. /\ run \in RunRows /\ run.at = runs[i].at
      /\ run.doing = d /\ run.memory = runs[i].memory
  BY <1>1, <1>2 DEF RunRows
<1>5. RunGood(units, run)
  BY <1>1, <1>2, <1>4 DEF RunGood
<1> HIDE DEF run
<1>6. RunsGood(units, runs')
  <2>1. RunsGood(units, runs)
    BY DEF IInv
  <2>2. RunsGood(units, [runs EXCEPT ![i] = run])
    BY <1>4, <1>5, <2>1, OneRunMoves
  <2> QED BY <1>3, <2>2
<1>7. UNCHANGED <<purchases, units, trouble, saves, typed, mishaps>>
  BY DEF BeginRow
<1> QED BY <1>6, <1>7, OnlyTheRun DEF IInv

LEMMA FinishKeeps == ASSUME IInv, NEW i \in Importers, Finish(i) PROVE IInv'
<1>1. RunsGood(units, runs')
  BY OneRunMoves DEF Finish, IInv
<1> QED BY <1>1, OnlyTheRun DEF Finish, IInv

LEMMA CrashKeeps == ASSUME IInv, NEW i \in Importers, Crash(i) PROVE IInv'
<1>1. RunsGood(units, runs')
  BY OneRunMoves DEF Crash, IInv
<1> QED BY <1>1, OnlyTheRun, TroubleType DEF Crash, IInv, Mishaps

LEMMA RememberType ==
  ASSUME NEW U, NEW memory \in [Stocks -> Keys],
         \A t \in Stocks : memory[t] \in Known(U) \cup {Null, Gone},
         NEW row, NEW unit \in Known(U) \cup {Null, Gone}
  PROVE  /\ Remember(memory, row, unit) \in [Stocks -> Keys]
         /\ \A t \in Stocks :
              Remember(memory, row, unit)[t] \in Known(U) \cup {Null, Gone}
BY KnownType DEF Remember, Keys

LEMMA CommitFailsKeeps == ASSUME IInv, NEW i \in Importers, CommitFails(i) PROVE IInv'
<1> DEFINE d == Doing(i)
           unit == IF d.created THEN Gone ELSE d.unit
           memory == Remember(runs[i].memory, d.row, unit)
           run == [Advance(i, memory) EXCEPT !.before = Null]
<1>1. /\ runs[i].at # End /\ runs[i].memory \in [Stocks -> Keys] /\ Running(i)
      /\ \A t \in Stocks : runs[i].memory[t] \in Known(units) \cup {Null, Gone}
      /\ PlanOK(units, d)
  BY InHand DEF CommitFails
<1>2. unit \in Known(units) \cup {Null, Gone}
  BY <1>1 DEF PlanOK
<1> HIDE DEF unit
<1>3. /\ memory \in [Stocks -> Keys]
      /\ \A t \in Stocks : memory[t] \in Known(units) \cup {Null, Gone}
  BY <1>1, <1>2, RememberType
<1>4. runs[i] # Stopped
  BY <1>1 DEF Running
<1>5. Undisturbed(runs)[i].memory = runs[i].memory
  <2>1. runs[i] \in RunRows
    BY <1>1, InHand
  <2>2. [runs[i] EXCEPT !.before = Null].memory = runs[i].memory
    BY <2>1 DEF RunRows
  <2> QED BY <1>4, <2>2 DEF Undisturbed
<1>6. runs' = [Undisturbed(runs) EXCEPT ![i] = run]
  BY <1>5 DEF CommitFails, Undisturbed, unit
<1> HIDE DEF memory
<1>7. run \in RunRows /\ RunGood(units, run)
  BY <1>1, <1>3, AdvanceGood, BeforeForgotten
<1> HIDE DEF run
<1>8. RunsGood(units, runs')
  BY <1>6, <1>7, UndisturbedGood, OneRunMoves DEF IInv
<1> QED BY <1>8, OnlyTheRun, TroubleType DEF CommitFails, IInv, Mishaps

LEMMA CommitRowKeeps == ASSUME IInv, NEW i \in Importers, CommitRow(i) PROVE IInv'
<1> DEFINE p == Doing(i)
           d == Settled(units, p)
           U == WithUnit(units, d)
           memory == Remember(runs[i].memory, d.row, d.unit)
<1>1. /\ runs[i].at # End /\ runs[i].memory \in [Stocks -> Keys] /\ Running(i)
      /\ \A t \in Stocks : runs[i].memory[t] \in Known(units) \cup {Null, Gone}
      /\ p \in Entries(Keys) /\ PlanOK(units, p)
      /\ p.row \in Rows /\ p.created \in BOOLEAN
  BY InHand DEF CommitRow, Entries
<1>3. /\ d \in Entries(Keys) /\ d.row = p.row /\ d.created = p.created
      /\ d.unit = IF p.created THEN NewUnit(units) ELSE p.unit
  <2>1. CASE p.created
    <3>1. NewUnit(units) \in Keys
      BY <2>1, NewUnitType DEF CommitRow, Keys
    <3>2. d = [p EXCEPT !.unit = NewUnit(units)]
      BY <2>1 DEF Settled
    <3> QED BY <1>1, <2>1, <3>1, <3>2 DEF Entries
  <2>2. CASE ~p.created
    BY <1>1, <2>2 DEF Settled, Entries
  <2> QED BY <2>1, <2>2
<1> HIDE DEF d
<1>4. /\ d.row.ref \in References /\ d.row.vin \in OrNull(Vins)
  BY <1>1, <1>3, LineTypes DEF FileRow
<1>5. /\ UnitsGood(U) /\ Grows(units, U) /\ d.unit \in OrNull(Known(U))
      /\ typed \subseteq Known(U)
  <2>0. UnitsGood(units) /\ typed \subseteq Known(units)
    BY DEF IInv
  <2>1. CASE d.created
    <3> DEFINE vin == d.row.vin  new == d.unit
    <3>1. VinFree(units, vin) /\ new \in UnitIds /\ vin \in OrNull(Vins)
      BY <1>3, <1>4, <2>1, NewUnitType DEF CommitRow, Insertable
    <3>2. U = [units EXCEPT ![new] = vin]
      BY <2>1 DEF WithUnit
    <3> HIDE DEF U, vin, new
    <3>3. UnitsGood(U) /\ Grows(units, U) /\ Known(U) = Known(units) \cup {new}
      BY <2>0, <3>1, <3>2, UnitSaved
    <3> QED BY <2>0, <3>3 DEF OrNull, new
  <2>2. CASE ~d.created
    <3>1. U = units
      BY <2>2 DEF WithUnit
    <3>2. d.unit = p.unit /\ p.unit # Gone
      BY <1>3, <2>2 DEF CommitRow, Insertable
    <3>3. p.unit \in Known(units) \cup {Null}
      BY <1>1, <1>3, <2>2, <3>2 DEF PlanOK
    <3> QED BY <2>0, <3>1, <3>2, <3>3 DEF Grows, OrNull
  <2> QED BY <2>1, <2>2
<1>6. EntryOK(U, d.row.ref, d) /\ d \in Entries(OrNull(UnitIds))
  <2>1. d.created => d.row.vehicle
    BY <1>1, <1>3 DEF PlanOK
  <2>2. d.unit \in OrNull(UnitIds)
    BY <1>5, KnownType DEF OrNull
  <2> QED BY <1>3, <1>5, <2>1, <2>2 DEF EntryOK, Entries
<1>7. purchases' = WithPurchase(purchases, d) /\ units' = U
  BY DEF CommitRow, d
<1>8. PurchasesGood(U, WithPurchase(purchases, d))
  <2> DEFINE r == d.row.ref
             P == WithPurchase(purchases, d)
  <2>1. purchases[r] = <<>>
    BY <1>3 DEF CommitRow, Insertable, RefFree
  <2>2. purchases \in PurchaseTables
    BY DEF IInv, PurchasesGood
  <2>3. P = [purchases EXCEPT ![r] = <<d>>]
    BY <1>4, <1>6, <2>1, <2>2 DEF WithPurchase, PurchaseTables
  <2>4. P \in PurchaseTables /\ P[r] = <<d>>
        /\ \A q \in References \ {r} : P[q] = purchases[q]
    BY <1>4, <1>6, <2>2, <2>3 DEF PurchaseTables
  <2>5. PurchasesGood(U, purchases)
    BY <1>5, PurchasesGrow DEF IInv
  <2>6. Len(<<d>>) = 1 /\ DOMAIN <<d>> = {1} /\ <<d>>[1] = d
    OBVIOUS
  <2> HIDE DEF P, U, r
  <2>7. ASSUME NEW q \in References
        PROVE  Len(P[q]) <= 1 /\ \A k \in DOMAIN P[q] : EntryOK(U, q, P[q][k])
    <3>1. CASE q = r
      <4>1. Len(P[q]) = 1 /\ DOMAIN P[q] = {1} /\ P[q][1] = d
        BY <2>4, <2>6, <3>1
      <4>2. EntryOK(U, q, d)
        BY <1>6, <3>1 DEF r
      <4> QED BY <4>1, <4>2
    <3>2. CASE q # r
      BY <2>4, <2>5, <3>2 DEF PurchasesGood
    <3> QED BY <3>1, <3>2
  <2> QED BY <2>4, <2>7 DEF PurchasesGood, P
<1>9. RunsGood(U, runs')
  <2>1. d.unit \in Known(U) \cup {Null, Gone}
    BY <1>5 DEF OrNull
  <2>2. \A t \in Stocks : runs[i].memory[t] \in Known(U) \cup {Null, Gone}
    BY <1>1, <1>5 DEF Grows
  <2>3. /\ memory \in [Stocks -> Keys]
        /\ \A t \in Stocks : memory[t] \in Known(U) \cup {Null, Gone}
    BY <1>1, <2>1, <2>2, RememberType
  <2>4. runs' = [runs EXCEPT ![i] = Advance(i, memory)]
    BY DEF CommitRow, d, IInv, RunsGood
  <2> HIDE DEF memory
  <2>5. Advance(i, memory) \in RunRows /\ RunGood(U, Advance(i, memory))
    BY <1>1, <2>3, AdvanceGood
  <2>6. RunsGood(U, runs)
    BY <1>5, RunsGrow DEF IInv
  <2> QED BY <2>4, <2>5, <2>6, OneRunMoves
<1>10. /\ trouble' \in 0..MaxTrouble /\ saves' \in 0..MaxSaves
       /\ typed' = typed /\ mishaps' \subseteq Mishaps
  BY DEF CommitRow, IInv
<1> QED BY <1>5, <1>7, <1>8, <1>9, <1>10 DEF IInv

LEMMA SaveUnitKeeps ==
  ASSUME IInv, NEW u \in UnitIds, NEW vin \in OrNull(Vins), VinFree(units, vin),
         SaveUnit(u, vin)
  PROVE  IInv'
<1> DEFINE U == [units EXCEPT ![u] = vin]
<1>1. /\ units' = U /\ runs' = Undisturbed(runs) /\ purchases' = purchases
      /\ typed' = typed \cup {u} /\ trouble' = trouble /\ mishaps' = mishaps
  BY DEF SaveUnit
<1>2. UnitsGood(U) /\ Grows(units, U) /\ Known(U) = Known(units) \cup {u}
  BY UnitSaved DEF IInv
<1>3. saves' \in 0..MaxSaves
  BY FileOK DEF SaveUnit, IInv
<1> HIDE DEF U
<1>4. PurchasesGood(U, purchases) /\ RunsGood(U, Undisturbed(runs))
  BY <1>2, PurchasesGrow, UndisturbedGood, RunsGrow DEF IInv
<1> QED BY <1>1, <1>2, <1>3, <1>4 DEF IInv

\* Both forms save a unit under a VIN nobody has.
LEMMA FormsSave ==
  ASSUME NEW vin \in OrNull(Vins),
         EnterUnit(vin) \/ \E u \in UnitIds : EditUnit(u, vin)
  PROVE  \E u \in UnitIds : VinFree(units, vin) /\ SaveUnit(u, vin)
BY NewUnitType DEF EnterUnit, EditUnit

LEMMA NextIInv == IInv /\ [Next]_vars => IInv'
<1> SUFFICES ASSUME IInv, [Next]_vars PROVE IInv'
  OBVIOUS
<1>1. ASSUME NEW i \in Importers, Start(i) \/ CommitFails(i) \/ Crash(i)
      PROVE  IInv'
  BY <1>1, StartKeeps, CommitFailsKeeps, CrashKeeps
<1>2. ASSUME NEW i \in Importers, Row(i) PROVE IInv'
  BY <1>2, SkipKeeps, RaiseKeeps, BeginRowKeeps, CommitRowKeeps, RowFailsKeeps,
     FinishKeeps DEF Row
<1>3. ASSUME NEW vin \in OrNull(Vins),
             EnterUnit(vin) \/ \E u \in UnitIds : EditUnit(u, vin)
      PROVE  IInv'
  BY <1>3, FormsSave, SaveUnitKeeps
<1>4. CASE UNCHANGED vars
  BY <1>4 DEF vars, IInv
<1> QED BY <1>1, <1>2, <1>3, <1>4 DEF Next

LEMMA Invariance == Spec => []IInv
BY InitIInv, NextIInv, PTL DEF Spec

------------------------------------------------------------------------------
(* What follows *)

\* Every purchase in the table is its row's.
LEMMA PurchaseOK ==
  ASSUME IInv, NEW r \in References, NEW d \in Range(purchases[r])
  PROVE  EntryOK(units, r, d) /\ d \in Entries(OrNull(UnitIds))
<1>1. PICK k \in DOMAIN purchases[r] : d = purchases[r][k]
  BY DEF Range
<1>2. purchases[r] \in Seq(Entries(OrNull(UnitIds)))
  BY DEF IInv, PurchasesGood, PurchaseTables
<1>3. d \in Entries(OrNull(UnitIds))
  BY <1>1, <1>2
<1> QED BY <1>1, <1>3 DEF IInv, PurchasesGood

\* The tables and the runs hold what their columns and variables hold, and a
\* purchase belongs to a unit there is, whatever overlaps and fails
\* (process_vehicle_row, process_non_vehicle_row, _run_import).
THEOREM TypeCorrect == Spec => []TypeOK
<1>1. IInv => TypeOK
  <2> SUFFICES ASSUME IInv PROVE TypeOK
    OBVIOUS
  <2>1. DOMAIN purchases = References /\ units \in [UnitIds -> OrNull(Vins) \cup {Gone}]
    BY DEF IInv, PurchasesGood, PurchaseTables, UnitsGood, UnitTables
  <2>2. ASSUME NEW r \in References, NEW d \in Range(purchases[r])
        PROVE  d \in Entries(OrNull(Known(units))) /\ (d.created => d.row.vehicle)
    <3>1. EntryOK(units, r, d) /\ d \in Entries(OrNull(UnitIds))
      BY PurchaseOK
    <3> QED BY <3>1 DEF EntryOK, Entries
  <2>3. ASSUME NEW i \in Importers, Running(i) PROVE RunOK(runs[i])
    <3>1. runs[i] \in RunRows
      BY <2>3, InHand
    <3> QED BY <3>1 DEF RunRows, RunOK, Keys
  <2> QED BY <2>1, <2>2, <2>3 DEF TypeOK, IInv
<1> QED BY <1>1, Invariance, PTL

\* The purchases of a reference number none or one, and a step that changes
\* that enters the first one.
LEMMA EntryStep ==
  ASSUME IInv, [Next]_vars
  PROVE  [Promise!Next]_([r \in Clear |-> Len(purchases[r])])
<1> DEFINE count == [r \in Clear |-> Len(purchases[r])]
<1>1. ASSUME NEW i \in Importers, CommitRow(i) PROVE [Promise!Next]_count
  <2> DEFINE d == Settled(units, Doing(i))
             ref == d.row.ref
  <2>1. /\ Doing(i) \in Entries(Keys) /\ RefFree(purchases, Doing(i).row.ref)
    BY <1>1, InHand DEF CommitRow, Insertable
  <2>2. d.row = Doing(i).row
    BY <2>1 DEF Settled, Entries
  <2>3. ref \in References /\ purchases[ref] = <<>>
    BY <2>1, <2>2, LineTypes DEF RefFree, Entries
  <2>4. purchases \in [References -> Seq(Entries(OrNull(UnitIds)))]
    BY DEF IInv, PurchasesGood, PurchaseTables
  <2>5. purchases' = [purchases EXCEPT ![ref] = Append(@, d)]
    BY <1>1 DEF CommitRow, WithPurchase
  <2> HIDE DEF d, ref
  <2>6. purchases'[ref] = <<d>>
    BY <2>3, <2>4, <2>5
  <2>7. /\ Len(purchases[ref]) = 0 /\ Len(purchases'[ref]) = 1
        /\ \A q \in References \ {ref} : purchases'[q] = purchases[q]
    BY <2>3, <2>4, <2>5, <2>6
  <2>8. Clear \subseteq References
    BY DEF Clear
  <2>9. CASE ref \in Clear
    <3>1. count' = [count EXCEPT ![ref] = 1]
      BY <2>7, <2>8, <2>9
    <3>2. count[ref] = 0
      BY <2>7, <2>9
    <3> QED BY <2>9, <3>1, <3>2 DEF Promise!Next, Promise!Enter
  <2>10. CASE ref \notin Clear
    <3>1. count' = count
      BY <2>7, <2>8, <2>10
    <3> QED BY <3>1
  <2> QED BY <2>9, <2>10
<1>2. CASE purchases' = purchases
  BY <1>2
<1>3. ASSUME NEW i \in Importers, Start(i) \/ CommitFails(i) \/ Crash(i)
      PROVE  purchases' = purchases
  BY <1>3 DEF Start, CommitFails, Crash
<1>4. ASSUME NEW i \in Importers, Row(i) PROVE CommitRow(i) \/ purchases' = purchases
  BY <1>4 DEF Row, Skip, Raise, BeginRow, RowFails, Finish
<1>5. ASSUME NEW vin \in OrNull(Vins),
             EnterUnit(vin) \/ \E u \in UnitIds : EditUnit(u, vin)
      PROVE  purchases' = purchases
  BY <1>5, FormsSave DEF SaveUnit
<1>6. (\E i \in Importers : CommitRow(i)) \/ purchases' = purchases
  BY <1>3, <1>4, <1>5 DEF Next, vars
<1> QED BY <1>1, <1>2, <1>6

\* Crashes, failed commits and overlapping runs included, a reference is
\* entered once and never taken back (_already_imported, the unique
\* purchases.source_reference): the import is an implementation of the
\* promise, its arrival apart.
THEOREM EnteredOnce == Spec => Promise!Safety
<1>1. Init => Promise!Init
  <2> SUFFICES ASSUME Init PROVE [r \in Clear |-> Len(purchases[r])] = [r \in Clear |-> 0]
    BY DEF Promise!Init
  <2>1. \A r \in Clear : Len(purchases[r]) = 0
    BY DEF Init, Clear
  <2> QED BY <2>1
<1>2. IInv /\ [Next]_vars => [Promise!Next]_([r \in Clear |-> Len(purchases[r])])
  BY EntryStep
<1> QED BY <1>1, <1>2, Invariance, PTL DEF Spec, Promise!Safety

------------------------------------------------------------------------------
(* The order of the lines *)

LEMMA BeforeOrders ==
  /\ \A j \in Lines : ~Before(j, j)
  /\ \A j, k \in Lines : j # k => Before(j, k) \/ Before(k, j)
  /\ \A j, k, l \in Lines : Before(j, k) /\ Before(k, l) => Before(j, l)
<1> DEFINE rank == [j \in Lines |-> IF File[j].vehicle THEN 0 ELSE 1]
<1>1. \A j \in Lines : j \in Nat /\ rank[j] \in Nat
  BY LineTypes
<1>2. \A j, k \in Lines :
        Before(j, k) <=> (rank[j] < rank[k]) \/ (rank[j] = rank[k] /\ j < k)
  <2> SUFFICES ASSUME NEW j \in Lines, NEW k \in Lines
               PROVE  Before(j, k) <=> (rank[j] < rank[k]) \/ (rank[j] = rank[k] /\ j < k)
    OBVIOUS
  <2>1. CASE File[j].vehicle /\ File[k].vehicle
    <3>1. Before(j, k) <=> j < k
      BY <2>1, LineTypes DEF Before
    <3>2. rank[j] = 0 /\ rank[k] = 0
      BY <2>1
    <3> HIDE DEF rank
    <3> QED BY <3>1, <3>2
  <2>2. CASE File[j].vehicle /\ ~File[k].vehicle
    <3>1. Before(j, k)
      BY <2>2, LineTypes DEF Before
    <3>2. rank[j] = 0 /\ rank[k] = 1
      BY <2>2
    <3> HIDE DEF rank
    <3> QED BY <3>1, <3>2
  <2>3. CASE ~File[j].vehicle /\ File[k].vehicle
    <3>1. ~Before(j, k)
      BY <2>3, LineTypes DEF Before
    <3>2. rank[j] = 1 /\ rank[k] = 0
      BY <2>3
    <3> HIDE DEF rank
    <3> QED BY <3>1, <3>2
  <2>4. CASE ~File[j].vehicle /\ ~File[k].vehicle
    BY <2>4, LineTypes DEF Before
  <2> QED BY <2>1, <2>2, <2>3, <2>4
<1> HIDE DEF rank
<1> QED BY <1>1, <1>2

LEMMA FirstIsFirst ==
  ASSUME NEW S, S \subseteq Lines, S # {}
  PROVE  First(S) \in S /\ \A j \in S : j = First(S) \/ Before(First(S), j)
BY FirstExists DEF First

LEMMA DoneAtFirst == Done(First(Lines)) = {}
<1>1. CASE Lines = {}
  BY <1>1 DEF First, Done
<1>2. CASE Lines # {}
  <2>1. First(Lines) \in Lines /\ \A j \in Lines : j = First(Lines) \/ Before(First(Lines), j)
    BY <1>2, FirstIsFirst
  <2> QED BY <2>1, BeforeOrders, LineTypes DEF Done
<1> QED BY <1>1, <1>2

LEMMA DoneAfter ==
  ASSUME NEW k \in Lines PROVE Done(After[k]) = Done(k) \cup {k} /\ k \notin Done(k)
<1> DEFINE Rest == {j \in Lines : Before(k, j)}
<1>1. After[k] = First(Rest) /\ k # End
  BY LineTypes DEF After
<1>2. CASE Rest = {}
  <2>1. After[k] = End
    BY <1>1, <1>2 DEF First
  <2> QED BY <1>1, <1>2, <2>1, BeforeOrders DEF Done
<1>3. CASE Rest # {}
  <2>1. After[k] \in Rest /\ \A j \in Rest : j = After[k] \/ Before(After[k], j)
    BY <1>1, <1>3, FirstIsFirst
  <2>2. After[k] # End
    BY <2>1, LineTypes
  <2> QED BY <1>1, <2>1, <2>2, BeforeOrders DEF Done
<1> QED BY <1>2, <1>3

\* Nonempty sets of lines have a last.
LEMMA MaxOfLines ==
  ASSUME NEW S, S \subseteq Lines, S # {} PROVE Max(S) \in S /\ \A j \in S : Max(S) >= j
<1>1. Len(File) \in Nat /\ \A j \in S : j \in Nat /\ j <= Len(File)
  BY FileOK DEF Lines
<1> DEFINE T == {m \in Nat : \E j \in S : m = Len(File) - j}
<1>2. T # {} /\ T \subseteq Nat
  <2>1. PICK j \in S : TRUE
    OBVIOUS
  <2>2. Len(File) - j \in T
    BY <1>1
  <2> QED BY <2>2
<1>3. PICK m \in T : \A n \in T : m <= n
  <2> HIDE DEF T
  <2> QED BY <1>2, LeastNat
<1>4. PICK k \in S : m = Len(File) - k
  BY <1>3
<1>5. \A j \in S : Len(File) - j \in T
  BY <1>1
<1> HIDE DEF T
<1>6. \A j \in S : k >= j
  BY <1>1, <1>3, <1>4, <1>5
<1>7. \E x \in S : \A j \in S : x >= j
  BY <1>6
<1> QED BY <1>7 DEF Max

\* The lines of a tag done so far end with the present one, if it is one.
LEMMA MaxIsLatest ==
  ASSUME NEW k \in Lines, File[k].vehicle, NEW S, S \subseteq Done(k)
  PROVE  Max(S \cup {k}) = k
<1>1. \A j \in S : j \in Nat /\ j < k
  BY LineTypes DEF Done, Before
<1>2. k \in Nat
  BY LineTypes
<1> QED BY <1>1, <1>2 DEF Max

------------------------------------------------------------------------------
(* The expenses of a tag *)

\* The unit the last of these lines has brought or found.
LastOf(P, S) == IF S = {} THEN Null ELSE P[File[Max(S)].ref][1].unit

Linked(P, d) ==
  (~d.row.vehicle /\ d.row.stock \in Tags) => d.unit = LastOf(P, OfTag(d.row.stock))

AllLinked(P) == \A r \in References : \A d \in Range(P[r]) : Linked(P, d)

\* The purchases are those of the lines done so far, and the memory holds the
\* last vehicle of each tag among them.
Seen(P, k) ==
  /\ \A r \in References : P[r] # <<>> <=> \E l \in Done(k) : File[l].ref = r
  /\ \A r \in References : \A d \in Range(P[r]) : \E l \in Done(k) : d.row = File[l]
Remembers(P, memory, k) ==
  \A tag \in Tags : memory[tag] = LastOf(P, OfTag(tag) \cap Done(k))

FirstPass(P, run) ==
  /\ Seen(P, run.at) /\ Remembers(P, run.memory, run.at)
  /\ run.doing # Nothing => run.doing.row = File[run.at] /\ Linked(P, run.doing)

Solo(R) == \A i, j \in Importers : R[i] # Stopped /\ R[j] # Stopped => i = j

Untouched(P, R) == (\A r \in References : P[r] = <<>>) /\ \A i \in Importers : R[i] = Stopped
Complete(P, R) == /\ \A k \in Lines : P[File[k].ref] # <<>>
                  /\ \A i \in Importers : R[i] # Stopped => R[i].doing = Nothing
OnFirst(P, R) == \E i \in Importers : R[i] # Stopped /\ FirstPass(P, R[i])

\* While nothing was interrupted, the first run alone has entered what there is.
Smooth(P, R) ==
  Solo(R) /\ AllLinked(P) /\ (Untouched(P, R) \/ Complete(P, R) \/ OnFirst(P, R))

TInv == Interrupted \/ Smooth(purchases, runs)

LEMMA OfTagLines == \A tag : OfTag(tag) \subseteq Lines /\ \A k \in OfTag(tag) : File[k].vehicle
BY DEF OfTag

\* What another line enters does not change the last vehicle.
LEMMA LastStays ==
  ASSUME NEW P, NEW Q, NEW k \in Lines, Seen(P, k), P[File[k].ref] = <<>>,
         \A r \in References \ {File[k].ref} : Q[r] = P[r],
         NEW S, S \subseteq Done(k)
  PROVE  LastOf(Q, S) = LastOf(P, S)
<1>1. CASE S = {}
  BY <1>1 DEF LastOf
<1>2. CASE S # {}
  <2>1. Max(S) \in Done(k) /\ Max(S) \in Lines
    BY <1>2, MaxOfLines DEF Done
  <2>2. File[Max(S)].ref \in References
    BY <2>1, LineTypes
  <2>3. P[File[Max(S)].ref] # <<>>
    BY <2>1, <2>2 DEF Seen
  <2> QED BY <1>2, <2>2, <2>3 DEF LastOf
<1> QED BY <1>1, <1>2

\* At an expense, every vehicle of the file is done.
LEMMA VehiclesDone ==
  ASSUME NEW k \in Lines, ~File[k].vehicle, NEW tag PROVE OfTag(tag) \subseteq Done(k)
BY LineTypes, OfTagLines DEF Done, Before

\* A line whose reference is free is the first with it.
LEMMA FirstOfRef ==
  ASSUME NEW P, NEW k \in Lines, Seen(P, k), P[File[k].ref] = <<>>
  PROVE  \A j \in Lines : Before(j, k) => File[j].ref # File[k].ref
BY LineTypes DEF Seen, Done

\* A purchase d is entered for the line k.
Entered(P, Q, k, d) ==
  /\ d.row = File[k] /\ P[File[k].ref] = <<>> /\ Q[File[k].ref] = <<d>>
  /\ \A r \in References \ {File[k].ref} : Q[r] = P[r]

LEMMA OneEntry ==
  ASSUME NEW d PROVE Range(<<d>>) = {d} /\ <<d>> # <<>> /\ <<d>>[1] = d
BY DEF Range

LEMMA EnteredSeen ==
  ASSUME NEW P, NEW Q, NEW k \in Lines, NEW d, Seen(P, k), Entered(P, Q, k, d)
  PROVE  Seen(Q, After[k])
<1> DEFINE ref == File[k].ref
<1>1. ref \in References /\ Done(After[k]) = Done(k) \cup {k}
  BY LineTypes, DoneAfter
<1>2. /\ P[ref] = <<>> /\ Q[ref] # <<>> /\ Range(Q[ref]) = {d} /\ d.row = File[k]
      /\ \A r \in References \ {ref} : Q[r] = P[r]
  BY OneEntry DEF Entered
<1>3. ASSUME NEW r \in References
      PROVE  (Q[r] # <<>> <=> \E l \in Done(After[k]) : File[l].ref = r)
  <2>1. CASE r = ref
    BY <1>1, <1>2, <2>1
  <2>2. CASE r # ref
    BY <1>1, <1>2, <2>2 DEF Seen
  <2> QED BY <2>1, <2>2
<1>4. ASSUME NEW r \in References, NEW e \in Range(Q[r])
      PROVE  \E l \in Done(After[k]) : e.row = File[l]
  <2>1. CASE r = ref
    BY <1>1, <1>2, <1>4, <2>1
  <2>2. CASE r # ref
    BY <1>1, <1>2, <1>4, <2>2 DEF Seen
  <2> QED BY <2>1, <2>2
<1> QED BY <1>3, <1>4 DEF Seen

\* The expenses stay linked: if there are any, the vehicles are all done.
LEMMA EnteredLinked ==
  ASSUME NEW P, NEW Q, NEW k \in Lines, NEW d, Seen(P, k), Entered(P, Q, k, d),
         AllLinked(P), Linked(P, d)
  PROVE  AllLinked(Q)
<1> DEFINE ref == File[k].ref
<1>1. ASSUME NEW tag, ~File[k].vehicle PROVE LastOf(Q, OfTag(tag)) = LastOf(P, OfTag(tag))
  BY <1>1, VehiclesDone, LastStays DEF Entered
<1> SUFFICES ASSUME NEW r \in References, NEW e \in Range(Q[r]),
                    ~e.row.vehicle, e.row.stock \in Tags
             PROVE  e.unit = LastOf(Q, OfTag(e.row.stock))
  BY DEF AllLinked, Linked
<1>2. CASE r = ref
  <2>1. e = d /\ d.row = File[k]
    BY <1>2, OneEntry DEF Entered
  <2> QED BY <1>1, <2>1 DEF Linked
<1>3. CASE r # ref
  <2>1. e \in Range(P[r])
    BY <1>3 DEF Entered
  <2>2. PICK l \in Done(k) : e.row = File[l]
    BY <2>1 DEF Seen
  <2>3. ~File[k].vehicle
    BY <2>2, LineTypes DEF Done, Before
  <2> QED BY <1>1, <2>1, <2>3 DEF AllLinked, Linked
<1> QED BY <1>2, <1>3

LEMMA EnteredRemembered ==
  ASSUME NEW P, NEW Q, NEW k \in Lines, NEW d, Seen(P, k), Entered(P, Q, k, d),
         NEW memory, memory \in [Stocks -> Keys], Remembers(P, memory, k)
  PROVE  Remembers(Q, Remember(memory, d.row, d.unit), After[k])
<1> DEFINE row == File[k]
           next == Remember(memory, row, d.unit)
<1>1. /\ Done(After[k]) = Done(k) \cup {k} /\ k \notin Done(k) /\ d.row = row
      /\ Q[row.ref] = <<d>>
  BY DoneAfter DEF Entered
<1> SUFFICES ASSUME NEW tag \in Tags
             PROVE  next[tag] = LastOf(Q, OfTag(tag) \cap Done(After[k]))
  BY <1>1 DEF Remembers
<1> DEFINE S == OfTag(tag) \cap Done(k)
<1>2. LastOf(Q, S) = memory[tag]
  <2>1. LastOf(Q, S) = LastOf(P, S)
    BY LastStays DEF Entered
  <2> QED BY <2>1 DEF Remembers
<1>3. CASE row.vehicle /\ row.stock = tag
  <2>1. k \in OfTag(tag)
    BY <1>3, FirstOfRef DEF OfTag, Entered
  <2>2. OfTag(tag) \cap Done(After[k]) = S \cup {k}
    BY <1>1, <2>1
  <2>3. Max(S \cup {k}) = k
    BY <1>3, MaxIsLatest
  <2>4. LastOf(Q, S \cup {k}) = d.unit
    <3> HIDE DEF S
    <3> QED BY <1>1, <2>3 DEF LastOf
  <2>5. next[tag] = d.unit
    <3>1. tag \in Stocks /\ row.stock # Null
      BY <1>3, FileOK DEF Stocks
    <3> QED BY <1>3, <3>1 DEF Remember
  <2> QED BY <2>2, <2>4, <2>5
<1>4. CASE ~(row.vehicle /\ row.stock = tag)
  <2>1. k \notin OfTag(tag)
    BY <1>4 DEF OfTag
  <2>2. OfTag(tag) \cap Done(After[k]) = S
    BY <1>1, <2>1
  <2>3. next[tag] = memory[tag]
    BY <1>4 DEF Remember
  <2> QED BY <1>2, <2>2, <2>3
<1> QED BY <1>3, <1>4

\* A line whose reference is there already is passed over.
LEMMA SkipSeen ==
  ASSUME NEW P, NEW k \in Lines, Seen(P, k), P[File[k].ref] # <<>>,
         NEW memory, Remembers(P, memory, k)
  PROVE  Seen(P, After[k]) /\ Remembers(P, memory, After[k])
<1>1. Done(After[k]) = Done(k) \cup {k}
  BY DoneAfter
<1>2. PICK l \in Done(k) : File[l].ref = File[k].ref
  BY LineTypes DEF Seen
<1>3. l \in Lines /\ Before(l, k)
  BY <1>2, LineTypes DEF Done
<1>4. \A tag : k \notin OfTag(tag)
  BY <1>2, <1>3 DEF OfTag
<1>5. \A tag : OfTag(tag) \cap Done(After[k]) = OfTag(tag) \cap Done(k)
  BY <1>1, <1>4
<1>6. Remembers(P, memory, After[k])
  BY <1>5 DEF Remembers
<1>7. Seen(P, After[k])
  BY <1>1, <1>2 DEF Seen
<1> QED BY <1>6, <1>7

\* The memory gives an expense the last vehicle of its tag.
LEMMA DecideLinks ==
  ASSUME NEW U \in UnitTables, NEW P, NEW k \in Lines, NEW memory, Remembers(P, memory, k),
         NEW byStock \in Found(U, File[k].stock), NEW byVin
  PROVE  /\ Decide(U, memory, File[k], byStock, byVin).row = File[k]
         /\ Linked(P, Decide(U, memory, File[k], byStock, byVin))
<1> DEFINE row == File[k]
           d == Decide(U, memory, row, byStock, byVin)
<1>1. d.row = row
  BY DEF Decide
<1>2. ASSUME ~row.vehicle, row.stock \in Tags PROVE d.unit = LastOf(P, OfTag(row.stock))
  <2>1. byStock = Null /\ row.stock # Null
    <3>1. row.stock \notin Vins /\ row.stock # Null
      BY <1>2, FileOK DEF Stocks
    <3> QED BY <3>1, FoundType DEF Alike
  <2>2. d.unit = memory[row.stock]
    BY <1>2, <2>1 DEF Decide, LinkFor
  <2>3. OfTag(row.stock) \cap Done(k) = OfTag(row.stock)
    BY <1>2, VehiclesDone
  <2> QED BY <1>2, <2>2, <2>3 DEF Remembers
<1> QED BY <1>1, <1>2 DEF Linked

------------------------------------------------------------------------------
(* The steps, while nothing was interrupted *)

\* The one run there is moves on, or stops.
LEMMA SoloMoves ==
  ASSUME NEW R, DOMAIN R = Importers, Solo(R), NEW i \in Importers, R[i] # Stopped,
         NEW run, NEW S, S = [R EXCEPT ![i] = run]
  PROVE  Solo(S) /\ S[i] = run /\ \A j \in Importers \ {i} : S[j] = Stopped
BY DEF Solo

LEMMA AdvanceIs ==
  ASSUME IInv, NEW i \in Importers, Running(i), runs[i].at # End, NEW memory
  PROVE  /\ Advance(i, memory) # Stopped
         /\ Advance(i, memory).at = After[runs[i].at]
         /\ Advance(i, memory).doing = Nothing
         /\ Advance(i, memory).memory = memory
         /\ runs[i].at \in Lines /\ DOMAIN runs = Importers
<1>1. runs[i] \in RunRows /\ DOMAIN runs = Importers
  BY InHand DEF IInv, RunsGood
<1>2. runs[i].at \in Lines
  BY <1>1 DEF RunRows
<1>3. After[runs[i].at] # 0
  BY <1>2, AfterType, LineTypes
<1> DEFINE next == After[runs[i].at]
           run == [runs[i] EXCEPT !.at = next, !.doing = Nothing, !.memory = memory]
<1>4. run = Advance(i, memory)
  BY DEF Advance
<1> HIDE DEF next
<1>5. run.at = next /\ run.doing = Nothing /\ run.memory = memory
  BY <1>1 DEF RunRows
<1>6. Stopped.at = 0
  BY DEF Stopped
<1> HIDE DEF run
<1>7. run # Stopped
  BY <1>3, <1>5, <1>6 DEF next
<1> QED BY <1>1, <1>2, <1>4, <1>5, <1>7 DEF next

LEMMA SmoothSkip ==
  ASSUME IInv, Smooth(purchases, runs), NEW i \in Importers, Skip(i)
  PROVE  Smooth(purchases', runs')
<1> DEFINE run == Advance(i, runs[i].memory)
           k == runs[i].at
<1>1. /\ Running(i) /\ k # End /\ Doing(i) = Nothing /\ purchases' = purchases
      /\ purchases[File[k].ref] # <<>> /\ runs' = [runs EXCEPT ![i] = run]
  BY DEF Skip, AtRow, Imported, Current, Advance
<1>2. /\ run # Stopped /\ run.at = After[k] /\ run.doing = Nothing
      /\ run.memory = runs[i].memory /\ k \in Lines /\ DOMAIN runs = Importers
  BY <1>1, AdvanceIs
<1> HIDE DEF run
<1>3. /\ Solo(runs') /\ runs'[i] = run /\ \A j \in Importers \ {i} : runs'[j] = Stopped
      /\ \A j \in Importers : runs[j] # Stopped => j = i
  BY <1>1, <1>2, SoloMoves DEF Smooth, Running, Solo
<1>4. CASE Complete(purchases, runs)
  <2>1. Complete(purchases, runs')
    BY <1>2, <1>3, <1>4 DEF Complete
  <2> QED BY <1>1, <1>3, <2>1 DEF Smooth
<1>5. CASE OnFirst(purchases, runs)
  <2>1. FirstPass(purchases, runs[i])
    BY <1>3, <1>5 DEF OnFirst
  <2>2. FirstPass(purchases, run)
    BY <1>1, <1>2, <2>1, SkipSeen DEF FirstPass
  <2>3. OnFirst(purchases, runs')
    BY <1>2, <1>3, <2>2 DEF OnFirst
  <2> QED BY <1>1, <1>3, <2>3 DEF Smooth
<1> QED BY <1>1, <1>4, <1>5 DEF Smooth, Untouched, Running

LEMMA SmoothBegin ==
  ASSUME IInv, Smooth(purchases, runs), NEW i \in Importers, BeginRow(i)
  PROVE  Smooth(purchases', runs')
<1> DEFINE k == runs[i].at
<1> PICK byStock \in Found(units, File[k].stock), byVin \in Found(units, File[k].vin) :
      runs' = [runs EXCEPT ![i].doing =
        Decide(units, runs[i].memory, File[k], byStock, byVin)]
  BY DEF BeginRow, Current
<1> DEFINE d == Decide(units, runs[i].memory, File[k], byStock, byVin)
           run == [runs[i] EXCEPT !.doing = d]
<1>1. /\ Running(i) /\ k # End /\ purchases' = purchases
      /\ purchases[File[k].ref] = <<>> /\ runs' = [runs EXCEPT ![i] = run]
  BY DEF BeginRow, AtRow, Imported, Current
<1>2. runs[i] \in RunRows /\ DOMAIN runs = Importers /\ k \in Lines
  BY <1>1, InHand DEF IInv, RunsGood, RunRows
<1> HIDE DEF d
<1>3. run.at = k /\ run.memory = runs[i].memory /\ run.doing = d
  BY <1>2 DEF RunRows
<1>4. run # Stopped
  <2>1. k # 0
    BY <1>2, LineTypes
  <2> HIDE DEF run
  <2> QED BY <1>3, <2>1 DEF Stopped
<1> HIDE DEF run
<1>5. /\ Solo(runs') /\ runs'[i] = run /\ \A j \in Importers : runs[j] # Stopped => j = i
  BY <1>1, <1>2, SoloMoves DEF Smooth, Running, Solo
<1>6. FirstPass(purchases, runs[i])
  BY <1>1, <1>2, <1>5 DEF Smooth, Untouched, Complete, OnFirst, Running
<1>7. d.row = File[k] /\ Linked(purchases, d)
  BY <1>2, <1>6, DecideLinks DEF FirstPass, IInv, UnitsGood, d
<1>8. FirstPass(purchases, run)
  BY <1>3, <1>6, <1>7 DEF FirstPass
<1>9. OnFirst(purchases, runs')
  BY <1>4, <1>5, <1>8 DEF OnFirst
<1> QED BY <1>1, <1>5, <1>9 DEF Smooth

LEMMA SmoothCommit ==
  ASSUME IInv, Smooth(purchases, runs), NEW i \in Importers, CommitRow(i)
  PROVE  Smooth(purchases', runs')
<1> DEFINE k == runs[i].at
           p == Doing(i)
           d == Settled(units, p)
           memory == Remember(runs[i].memory, d.row, d.unit)
           run == Advance(i, memory)
<1>1. /\ Running(i) /\ p # Nothing /\ RefFree(purchases, p.row.ref)
      /\ purchases' = WithPurchase(purchases, d)
      /\ runs' = [runs EXCEPT ![i] = run]
  BY DEF CommitRow, Insertable, IInv, RunsGood
<1>2. /\ runs[i] \in RunRows /\ DOMAIN runs = Importers /\ k # End
      /\ p \in Entries(Keys) /\ PlanOK(units, p)
      /\ runs[i].memory \in [Stocks -> Keys]
  BY <1>1, InHand DEF IInv, RunsGood
<1>3. d.row = p.row /\ (p.created => p.row.vehicle) /\ (~p.created => d = p)
  BY <1>2 DEF Settled, Entries, PlanOK
<1> HIDE DEF d
<1>4. /\ run # Stopped /\ run.at = After[k] /\ run.doing = Nothing
      /\ run.memory = memory /\ k \in Lines
  BY <1>1, <1>2, AdvanceIs
<1> HIDE DEF run
<1>5. /\ Solo(runs') /\ runs'[i] = run /\ \A j \in Importers : runs[j] # Stopped => j = i
  BY <1>1, <1>2, SoloMoves DEF Smooth, Running, Solo
<1>6. FirstPass(purchases, runs[i])
  BY <1>1, <1>5 DEF Smooth, Untouched, Complete, OnFirst, Running, Doing
<1>7. d.row = File[k] /\ Linked(purchases, d)
  <2>1. p.row = File[k] /\ Linked(purchases, p)
    BY <1>1, <1>6 DEF FirstPass, Doing
  <2> QED BY <1>2, <1>3, <2>1 DEF Linked, Entries
<1>8. Entered(purchases, purchases', k, d)
  <2> DEFINE ref == File[k].ref
  <2>1. ref \in References /\ d.row.ref = ref /\ purchases[ref] = <<>>
    BY <1>1, <1>3, <1>4, <1>7, LineTypes DEF RefFree
  <2>2. purchases' = [purchases EXCEPT ![ref] = Append(@, d)]
    BY <1>1, <2>1 DEF WithPurchase
  <2>3. DOMAIN purchases = References
    BY DEF IInv, PurchasesGood, PurchaseTables
  <2> HIDE DEF ref
  <2>4. purchases'[ref] = <<d>> /\ \A r \in References \ {ref} : purchases'[r] = purchases[r]
    BY <2>1, <2>2, <2>3
  <2> QED BY <1>7, <2>1, <2>4 DEF Entered, ref
<1>9. /\ Seen(purchases', After[k]) /\ AllLinked(purchases')
      /\ Remembers(purchases', memory, After[k])
  BY <1>2, <1>4, <1>6, <1>7, <1>8, EnteredSeen, EnteredLinked, EnteredRemembered
     DEF FirstPass, Smooth
<1>10. OnFirst(purchases', runs')
  BY <1>4, <1>5, <1>9 DEF OnFirst, FirstPass
<1> QED BY <1>5, <1>9, <1>10 DEF Smooth

LEMMA SmoothFinish ==
  ASSUME IInv, Smooth(purchases, runs), NEW i \in Importers, Finish(i)
  PROVE  Smooth(purchases', runs')
<1>1. /\ Running(i) /\ runs[i].at = End /\ purchases' = purchases
      /\ runs' = [runs EXCEPT ![i] = Stopped] /\ DOMAIN runs = Importers
  BY DEF Finish, IInv, RunsGood
<1>2. /\ Solo(runs') /\ \A j \in Importers : runs'[j] = Stopped
      /\ \A j \in Importers : runs[j] # Stopped => j = i
  BY <1>1, SoloMoves DEF Smooth, Running, Solo
<1>3. \A k \in Lines : purchases[File[k].ref] # <<>>
  <2>1. CASE Complete(purchases, runs)
    BY <2>1 DEF Complete
  <2>2. CASE OnFirst(purchases, runs)
    <3>1. Seen(purchases, End) /\ Done(End) = Lines
      BY <1>1, <1>2, <2>2 DEF OnFirst, FirstPass, Done
    <3> QED BY <3>1, LineTypes DEF Seen
  <2> QED BY <1>1, <2>1, <2>2 DEF Smooth, Untouched, Running
<1> QED BY <1>1, <1>2, <1>3 DEF Smooth, Complete

LEMMA SmoothStart ==
  ASSUME IInv, Smooth(purchases, runs), NEW i \in Importers, Start(i), ~Interrupted'
  PROVE  Smooth(purchases', runs')
<1> DEFINE run == [at |-> First(Lines), doing |-> Nothing, memory |-> NothingRemembered,
                   before |-> <<purchases, units>>]
<1>1. \A j \in Importers : runs[j] = Stopped
  BY DEF Start, Running, Interrupted
<1>2. /\ runs' = [Undisturbed(runs) EXCEPT ![i] = run] /\ purchases' = purchases
  BY <1>1 DEF Start, Running
<1>3. /\ run # Stopped /\ run.at = First(Lines) /\ run.doing = Nothing
      /\ run.memory = NothingRemembered
  <2>1. run.at # 0
    BY FirstType, LineTypes
  <2> QED BY <2>1 DEF Stopped
<1> HIDE DEF run
<1>4. /\ runs'[i] = run /\ \A j \in Importers \ {i} : runs'[j] = Stopped
  BY <1>1, <1>2 DEF Undisturbed
<1>5. Solo(runs')
  BY <1>4 DEF Solo
<1>6. CASE Complete(purchases, runs)
  BY <1>2, <1>3, <1>4, <1>5, <1>6 DEF Smooth, Complete
<1>7. CASE Untouched(purchases, runs)
  <2>1. Done(run.at) = {}
    BY <1>3, DoneAtFirst
  <2>2. Remembers(purchases, run.memory, run.at)
    BY <1>3, <2>1 DEF Remembers, LastOf, NothingRemembered, Stocks
  <2>3. \A r \in References : purchases[r] = <<>> /\ Range(purchases[r]) = {}
    BY <1>7 DEF Untouched, Range
  <2>4. Seen(purchases, run.at)
    BY <2>1, <2>3 DEF Seen
  <2>5. OnFirst(purchases, runs')
    BY <1>3, <1>4, <2>2, <2>4 DEF OnFirst, FirstPass
  <2> QED BY <1>2, <1>5, <2>5 DEF Smooth
<1> QED BY <1>1, <1>6, <1>7 DEF Smooth, OnFirst

\* A run that others disturb does what it did.
LEMMA UndisturbedSame ==
  ASSUME IInv, NEW i \in Importers
  PROVE  /\ Undisturbed(runs)[i] = Stopped <=> runs[i] = Stopped
         /\ runs[i] # Stopped =>
              /\ Undisturbed(runs)[i].at = runs[i].at
              /\ Undisturbed(runs)[i].doing = runs[i].doing
              /\ Undisturbed(runs)[i].memory = runs[i].memory
<1> DEFINE run == Undisturbed(runs)[i]
<1>1. CASE runs[i] = Stopped
  BY <1>1 DEF Undisturbed
<1>2. CASE runs[i] # Stopped
  <2>1. run = [runs[i] EXCEPT !.before = Null]
    BY <1>2 DEF Undisturbed
  <2>2. runs[i] \in RunRows
    BY <1>2 DEF IInv, RunsGood
  <2>3. run.at = runs[i].at /\ run.doing = runs[i].doing /\ run.memory = runs[i].memory
    BY <2>1, <2>2 DEF RunRows
  <2>4. runs[i].at # 0
    BY <2>2, LineTypes DEF RunRows
  <2> HIDE DEF run
  <2>5. run # Stopped
    BY <2>3, <2>4 DEF Stopped
  <2> QED BY <1>2, <2>3, <2>5 DEF run
<1> QED BY <1>1, <1>2

LEMMA SmoothUndisturbed ==
  ASSUME IInv, Smooth(purchases, runs) PROVE Smooth(purchases, Undisturbed(runs))
<1> DEFINE R == Undisturbed(runs)
<1>1. ASSUME NEW i \in Importers
      PROVE  /\ R[i] = Stopped <=> runs[i] = Stopped
             /\ runs[i] # Stopped => /\ R[i].at = runs[i].at /\ R[i].doing = runs[i].doing
                                     /\ R[i].memory = runs[i].memory
  BY UndisturbedSame
<1> HIDE DEF R
<1>2. Solo(R)
  BY <1>1 DEF Smooth, Solo
<1>3. Untouched(purchases, runs) => Untouched(purchases, R)
  BY <1>1 DEF Untouched
<1>4. Complete(purchases, runs) => Complete(purchases, R)
  BY <1>1 DEF Complete
<1>5. OnFirst(purchases, runs) => OnFirst(purchases, R)
  BY <1>1 DEF OnFirst, FirstPass
<1> QED BY <1>2, <1>3, <1>4, <1>5 DEF Smooth, R

LEMMA StaysSmooth == IInv /\ TInv /\ [Next]_vars => TInv'
<1> SUFFICES ASSUME IInv, TInv, [Next]_vars, ~Interrupted' PROVE Smooth(purchases', runs')
  BY DEF TInv, Smooth, Solo, AllLinked, Untouched, Complete, OnFirst, FirstPass, Seen,
         Remembers, Linked, LastOf
<1>0. ASSUME NEW i \in Importers, Start(i) \/ Row(i) PROVE Interrupted => Interrupted'
  BY <1>0 DEF Start, Row, Skip, Raise, BeginRow, CommitRow, RowFails, Finish, Interrupted
<1>1. ASSUME NEW i \in Importers, CommitFails(i) \/ Crash(i) PROVE FALSE
  BY <1>1 DEF CommitFails, Crash, Interrupted
<1>2. ASSUME NEW i \in Importers, Start(i) PROVE Smooth(purchases', runs')
  BY <1>0, <1>2, SmoothStart DEF TInv
<1>3. ASSUME NEW i \in Importers, Row(i) PROVE Smooth(purchases', runs')
  <2>1. Smooth(purchases, runs)
    BY <1>0, <1>3 DEF TInv
  <2>2. ~Raise(i) /\ ~RowFails(i)
    BY DEF Raise, RowFails, Interrupted
  <2> QED BY <1>3, <2>1, <2>2, SmoothSkip, SmoothBegin, SmoothCommit, SmoothFinish DEF Row
<1>4. ASSUME NEW vin \in OrNull(Vins),
             EnterUnit(vin) \/ \E u \in UnitIds : EditUnit(u, vin)
      PROVE  Smooth(purchases', runs')
  BY <1>4, FormsSave, SmoothUndisturbed DEF SaveUnit, TInv, Interrupted
<1>5. CASE UNCHANGED vars
  BY <1>5 DEF vars, TInv, Interrupted
<1> QED BY <1>1, <1>2, <1>3, <1>4, <1>5 DEF Next

\* As long as no run crashed, failed a row or met another run, the expenses of
\* a stock tag belong to the last vehicle of the file with that tag, wherever
\* the rows stand in the file, and through any number of further runs
\* (stock_to_unit, process_non_vehicle_row).
THEOREM ExpensesFindTheirVehicle == Spec => []TagsLinked
<1>1. Init => TInv
  <2> SUFFICES ASSUME Init PROVE Smooth(purchases, runs)
    BY DEF TInv
  <2>1. /\ \A r \in References : purchases[r] = <<>> /\ Range(purchases[r]) = {}
        /\ \A i \in Importers : runs[i] = Stopped
    BY DEF Init, Range
  <2> QED BY <2>1 DEF Smooth, Solo, AllLinked, Untouched
<1>2. TInv => TagsLinked
  <2> SUFFICES ASSUME TInv, ~Interrupted, NEW r \in References,
                      NEW d \in Range(purchases[r]), ~d.row.vehicle, d.row.stock \in Tags
               PROVE  d.unit = UnitOfTag(d.row.stock)
    BY DEF TagsLinked
  <2>1. d.unit = LastOf(purchases, OfTag(d.row.stock))
    BY DEF TInv, Smooth, AllLinked, Linked
  <2> QED BY <2>1 DEF LastOf, UnitOfTag
<1> QED BY <1>1, <1>2, StaysSmooth, Invariance, PTL DEF Spec

------------------------------------------------------------------------------
(* One unit for one VIN *)

\* What a purchase, or what a run has in hand, says of a vehicle is so of its
\* unit, unless the form gave that another VIN.
Filed(U, T, d) ==
  d.row.vehicle /\ d.row.vin # Null /\ ~Muddled(d.row)
    => d.unit \in T \/ (d.unit \in Known(U) /\ Alike(U[d.unit], d.row.vin))

Busy(run) == run # Stopped /\ run.doing # Nothing

\* A run that goes to a unit knows it for the row's; one that is to insert a
\* unit found none.
RunFiled(U, T, run) == Busy(run) /\ ~run.doing.created => Filed(U, T, run.doing)

RunFresh(U, T, run) ==
  Busy(run) /\ run.doing.created
    => \A u \in Known(U) \ T : ~Alike(U[u], run.doing.row.vin)

Singly(U, T) == \A u, v \in Known(U) \ T : Alike(U[u], U[v]) => u = v

VInv ==
  /\ \A r \in Clear : \A d \in Range(purchases[r]) : Filed(units, typed, d)
  /\ \A i \in Importers : RunFiled(units, typed, runs[i])
  /\ \/ "overlap" \in mishaps
     \/ /\ Solo(runs) /\ Singly(units, typed)
        /\ \A i \in Importers : RunFresh(units, typed, runs[i])

\* Two states of a run that are the same to the look-ups.
SameWork(run, other) ==
  /\ run = Stopped <=> other = Stopped
  /\ run # Stopped => run.doing = other.doing

LEMMA SameWorkFiled ==
  ASSUME NEW U, NEW T, NEW run, NEW other, SameWork(run, other)
  PROVE  /\ RunFiled(U, T, run) => RunFiled(U, T, other)
         /\ RunFresh(U, T, run) => RunFresh(U, T, other)
BY DEF SameWork, RunFiled, RunFresh, Busy

LEMMA FiledGrows ==
  ASSUME NEW U, NEW V, NEW T, NEW S, Known(U) \subseteq Known(V), T \subseteq S,
         \A u \in Known(U) \ S : V[u] = U[u], NEW d, Filed(U, T, d)
  PROVE  Filed(V, S, d)
BY DEF Filed

\* A step that only moves one run.
LEMMA VinRunMoves ==
  ASSUME VInv, UNCHANGED <<purchases, units, typed>>, mishaps \subseteq mishaps',
         NEW i \in Importers, Running(i),
         \A j \in Importers \ {i} : SameWork(runs[j], runs'[j]),
         RunFiled(units, typed, runs'[i]), RunFresh(units, typed, runs'[i])
  PROVE  VInv'
<1>1. \A j \in Importers : RunFiled(units, typed, runs'[j])
  BY SameWorkFiled DEF VInv
<1>2. CASE "overlap" \in mishaps
  BY <1>1, <1>2 DEF VInv
<1>3. CASE "overlap" \notin mishaps
  <2>1. \A j \in Importers : RunFresh(units, typed, runs'[j])
    BY <1>3, SameWorkFiled DEF VInv
  <2>2. Solo(runs')
    BY <1>3 DEF VInv, Solo, SameWork, Running
  <2> QED BY <1>1, <1>3, <2>1, <2>2 DEF VInv
<1> QED BY <1>2, <1>3

\* A run that has passed a line has nothing in hand.
LEMMA IdleRun ==
  ASSUME NEW run, run = Stopped \/ run.doing = Nothing, NEW U, NEW T
  PROVE  RunFiled(U, T, run) /\ RunFresh(U, T, run)
BY DEF RunFiled, RunFresh, Busy

LEMMA UndisturbedWork ==
  ASSUME IInv PROVE \A i \in Importers : SameWork(runs[i], Undisturbed(runs)[i])
BY UndisturbedSame DEF SameWork

LEMMA SameWorkSelf == \A run : SameWork(run, run)
BY DEF SameWork

LEMMA VinPass ==
  ASSUME IInv, VInv, NEW i \in Importers, Skip(i) \/ Raise(i) \/ RowFails(i)
  PROVE  VInv'
<1>1. /\ Running(i) /\ runs[i].at # End /\ DOMAIN runs = Importers
      /\ UNCHANGED <<purchases, units, typed>> /\ mishaps \subseteq mishaps'
      /\ runs' = [runs EXCEPT ![i] = Advance(i, @.memory)]
  BY InHand DEF Skip, Raise, RowFails, AtRow, IInv, RunsGood
<1>2. runs'[i] = Advance(i, runs[i].memory) /\ \A j \in Importers \ {i} : runs'[j] = runs[j]
  BY <1>1
<1>3. runs'[i].doing = Nothing
  BY <1>1, <1>2, AdvanceIs
<1>4. RunFiled(units, typed, runs'[i]) /\ RunFresh(units, typed, runs'[i])
  BY <1>3, IdleRun
<1>5. \A j \in Importers \ {i} : SameWork(runs[j], runs'[j])
  BY <1>2, SameWorkSelf
<1> QED BY <1>1, <1>4, <1>5, VinRunMoves

LEMMA VinStop ==
  ASSUME IInv, VInv, NEW i \in Importers, Finish(i) \/ Crash(i) PROVE VInv'
<1>1. /\ Running(i) /\ DOMAIN runs = Importers
      /\ UNCHANGED <<purchases, units, typed>> /\ mishaps \subseteq mishaps'
      /\ runs' = [runs EXCEPT ![i] = Stopped]
  BY DEF Finish, Crash, IInv, RunsGood
<1>2. runs'[i] = Stopped /\ \A j \in Importers \ {i} : runs'[j] = runs[j]
  BY <1>1
<1>3. RunFiled(units, typed, runs'[i]) /\ RunFresh(units, typed, runs'[i])
  BY <1>2, IdleRun
<1>4. \A j \in Importers \ {i} : SameWork(runs[j], runs'[j])
  BY <1>2, SameWorkSelf
<1> QED BY <1>1, <1>3, <1>4, VinRunMoves

LEMMA VinStart ==
  ASSUME IInv, VInv, NEW i \in Importers, Start(i) PROVE VInv'
<1>1. /\ runs[i] = Stopped /\ DOMAIN runs = Importers
      /\ UNCHANGED <<purchases, units, typed>> /\ mishaps \subseteq mishaps'
      /\ (\A j \in Importers : runs[j] = Stopped) \/ "overlap" \in mishaps'
  BY DEF Start, IInv, RunsGood, Running
<1> DEFINE run == [at |-> First(Lines), doing |-> Nothing, memory |-> NothingRemembered,
                   before |-> IF \A j \in Importers : ~Running(j)
                              THEN <<purchases, units>> ELSE Null]
<1>2. run.doing = Nothing /\ runs' = [Undisturbed(runs) EXCEPT ![i] = run]
  BY DEF Start
<1> HIDE DEF run
<1>3. /\ runs'[i].doing = Nothing
      /\ \A j \in Importers \ {i} : SameWork(runs[j], runs'[j])
  <2>1. /\ runs'[i] = run
        /\ \A j \in Importers \ {i} : runs'[j] = Undisturbed(runs)[j]
    BY <1>2 DEF Undisturbed
  <2> QED BY <1>2, <2>1, UndisturbedWork
<1>4. RunFiled(units, typed, runs'[i]) /\ RunFresh(units, typed, runs'[i])
  BY <1>3, IdleRun
<1>5. \A j \in Importers : RunFiled(units, typed, runs'[j])
  BY <1>3, <1>4, SameWorkFiled DEF VInv
<1>6. ASSUME "overlap" \notin mishaps'
      PROVE  Solo(runs') /\ \A j \in Importers : RunFresh(units, typed, runs'[j])
  <2>1. \A j \in Importers \ {i} : runs'[j] = Stopped
    BY <1>1, <1>3, <1>6 DEF SameWork
  <2> QED BY <1>4, <2>1, IdleRun DEF Solo
<1>7. "overlap" \notin mishaps' => Singly(units, typed)
  BY <1>1 DEF VInv
<1> QED BY <1>1, <1>5, <1>6, <1>7 DEF VInv

LEMMA VinCommitFails ==
  ASSUME IInv, VInv, NEW i \in Importers, CommitFails(i) PROVE VInv'
<1> DEFINE d == Doing(i)
           memory == Remember(Undisturbed(runs)[i].memory, d.row,
                              IF d.created THEN Gone ELSE d.unit)
           run == [Advance(i, memory) EXCEPT !.before = Null]
<1>1. /\ Running(i) /\ runs[i].at # End /\ DOMAIN runs = Importers
      /\ UNCHANGED <<purchases, units, typed>> /\ mishaps \subseteq mishaps'
  BY InHand DEF CommitFails, IInv, RunsGood
<1>2. runs' = [Undisturbed(runs) EXCEPT ![i] = run]
  BY <1>1 DEF CommitFails, Undisturbed
<1> HIDE DEF memory
<1>3. run.doing = Advance(i, memory).doing
  BY DEF Advance
<1>4. run.doing = Nothing
  BY <1>1, <1>3, AdvanceIs
<1> HIDE DEF run
<1>5. /\ runs'[i] = run /\ \A j \in Importers \ {i} : SameWork(runs[j], runs'[j])
  <2>1. /\ runs'[i] = run
        /\ \A j \in Importers \ {i} : runs'[j] = Undisturbed(runs)[j]
    BY <1>2 DEF Undisturbed
  <2> QED BY <2>1, UndisturbedWork
<1>6. RunFiled(units, typed, runs'[i]) /\ RunFresh(units, typed, runs'[i])
  BY <1>4, <1>5, IdleRun
<1> QED BY <1>1, <1>5, <1>6, VinRunMoves

\* What a row finds is right.
LEMMA DecideFiled ==
  ASSUME NEW U \in UnitTables, NEW memory, NEW row \in Rows, NEW T,
         NEW byStock \in Found(U, row.stock), NEW byVin \in Found(U, row.vin),
         NEW d, d = Decide(U, memory, row, byStock, byVin)
  PROVE  /\ ~d.created => Filed(U, T, d)
         /\ d.created => \A u \in Known(U) : ~Alike(U[u], d.row.vin)
<1>1. d.row = row
  BY DEF Decide
<1>2. ASSUME d.created PROVE \A u \in Known(U) : ~Alike(U[u], row.vin)
  <2>1. Resolve(byStock, byVin) = Null
    BY <1>2 DEF Decide
  <2>2. byVin = Null
    BY <2>1 DEF Resolve
  <2> QED BY <2>2, FoundType
<1>3. ASSUME ~d.created, row.vehicle, row.vin # Null, ~Muddled(row)
      PROVE  d.unit \in Known(U) /\ Alike(U[d.unit], row.vin)
  <2>1. row.stock \notin Vins
    BY <1>3 DEF Muddled
  <2>2. byStock = Null
    BY <2>1, FoundType DEF Alike
  <2>3. d.unit = Resolve(byStock, byVin) /\ Resolve(byStock, byVin) # Null
    BY <1>3 DEF Decide
  <2>4. byVin # Null /\ d.unit = byVin
    BY <2>2, <2>3 DEF Resolve
  <2> QED BY <2>4, FoundType
<1> QED BY <1>1, <1>2, <1>3 DEF Filed

LEMMA VinBegin ==
  ASSUME IInv, VInv, NEW i \in Importers, BeginRow(i) PROVE VInv'
<1> PICK byStock \in Found(units, Current(i).stock),
         byVin \in Found(units, Current(i).vin) :
           runs' = [runs EXCEPT ![i].doing =
             Decide(units, runs[i].memory, Current(i), byStock, byVin)]
  BY DEF BeginRow
<1> DEFINE d == Decide(units, runs[i].memory, Current(i), byStock, byVin)
<1>1. /\ Running(i) /\ runs[i] \in RunRows /\ DOMAIN runs = Importers
      /\ Current(i) \in Rows /\ units \in UnitTables
      /\ UNCHANGED <<purchases, units, typed>> /\ mishaps \subseteq mishaps'
  BY InHand DEF BeginRow, AtRow, IInv, RunsGood, UnitsGood
<1>2. /\ ~d.created => Filed(units, typed, d)
      /\ d.created => \A u \in Known(units) : ~Alike(units[u], d.row.vin)
  BY <1>1, DecideFiled
<1> HIDE DEF d
<1>3. runs' = [runs EXCEPT ![i] = [runs[i] EXCEPT !.doing = d]]
  BY DEF d
<1>4. runs'[i].doing = d /\ \A j \in Importers \ {i} : runs'[j] = runs[j]
  BY <1>1, <1>3 DEF RunRows
<1>5. RunFiled(units, typed, runs'[i]) /\ RunFresh(units, typed, runs'[i])
  BY <1>2, <1>4 DEF RunFiled, RunFresh
<1>6. \A j \in Importers \ {i} : SameWork(runs[j], runs'[j])
  BY <1>4, SameWorkSelf
<1> QED BY <1>1, <1>5, <1>6, VinRunMoves

LEMMA VinCommit ==
  ASSUME IInv, VInv, NEW i \in Importers, CommitRow(i) PROVE VInv'
<1> DEFINE p == Doing(i)
           d == Settled(units, p)
           U == WithUnit(units, d)
           run == Advance(i, Remember(runs[i].memory, d.row, d.unit))
<1>1. /\ Running(i) /\ runs[i].at # End /\ DOMAIN runs = Importers
      /\ p \in Entries(Keys) /\ Busy(runs[i]) /\ p = runs[i].doing
      /\ purchases' = WithPurchase(purchases, d) /\ units' = U /\ typed' = typed
      /\ mishaps' = mishaps /\ runs' = [runs EXCEPT ![i] = run]
      /\ RefFree(purchases, p.row.ref) /\ typed \subseteq Known(units)
      /\ p.row \in Rows /\ p.created \in BOOLEAN
      /\ purchases \in PurchaseTables /\ UnitsGood(units)
  BY InHand DEF CommitRow, Insertable, IInv, RunsGood, PurchasesGood, Entries, Busy,
                Running, Doing
<1>2. /\ d.row = p.row /\ d.created = p.created /\ (~p.created => d = p)
      /\ p.created => d.unit = NewUnit(units)
  BY <1>1 DEF Settled, Entries
<1>3. p.row.ref \in References /\ p.row.vin \in OrNull(Vins)
  BY <1>1, LineTypes DEF FileRow
<1> HIDE DEF d, p
<1>4. /\ runs'[i].doing = Nothing /\ \A j \in Importers \ {i} : runs'[j] = runs[j]
  BY <1>1, AdvanceIs
<1> HIDE DEF run
<1>5. /\ Known(units) \subseteq Known(U) /\ \A u \in Known(units) : U[u] = units[u]
      /\ ~d.created => U = units
      /\ d.created => /\ Known(U) = Known(units) \cup {d.unit} /\ d.unit \notin Known(units)
                      /\ U[d.unit] = d.row.vin
  <2>1. CASE d.created
    <3> DEFINE vin == d.row.vin  new == d.unit
    <3>1. VinFree(units, vin) /\ new \in UnitIds /\ new \notin Known(units)
          /\ vin \in OrNull(Vins)
      BY <1>1, <1>2, <1>3, <2>1, NewUnitType DEF CommitRow, Insertable, p
    <3>2. U = [units EXCEPT ![new] = vin]
      BY <2>1 DEF WithUnit
    <3> HIDE DEF U, vin, new
    <3>3. UnitsGood(units)
      BY <1>1
    <3>4. Known(U) = Known(units) \cup {new}
      BY <3>1, <3>2, <3>3, UnitSaved
    <3>5. U[new] = vin /\ \A v \in UnitIds \ {new} : U[v] = units[v]
      BY <3>1, <3>2, <3>3 DEF UnitsGood, UnitTables
    <3> QED BY <2>1, <3>1, <3>4, <3>5, KnownType DEF vin, new
  <2>2. CASE ~d.created
    BY <2>2 DEF WithUnit
  <2> QED BY <2>1, <2>2
<1> HIDE DEF U
<1>6. Filed(U, typed, d)
  <2>1. CASE d.created
    <3>1. d.row.vin # Null => Alike(d.row.vin, d.row.vin)
      BY <1>2, <1>3 DEF Alike, OrNull
    <3> QED BY <1>5, <2>1, <3>1 DEF Filed
  <2>2. CASE ~d.created
    BY <1>1, <1>2, <1>5, <2>2 DEF VInv, RunFiled
  <2> QED BY <2>1, <2>2
<1>7. ASSUME NEW r \in Clear, NEW e \in Range(purchases'[r]) PROVE Filed(U, typed, e)
  <2>0. r \in References
    BY DEF Clear
  <2>1. CASE r = p.row.ref
    <3>1. purchases[r] = <<>> /\ DOMAIN purchases = References
      BY <1>1, <2>1 DEF RefFree, PurchaseTables
    <3>2. purchases'[r] = <<d>>
      BY <1>1, <1>2, <2>0, <2>1, <3>1 DEF WithPurchase
    <3> QED BY <1>6, <1>7, <3>2 DEF Range
  <2>2. CASE r # p.row.ref
    <3>1. purchases'[r] = purchases[r]
      BY <1>1, <1>2, <2>0, <2>2 DEF WithPurchase, PurchaseTables
    <3>2. Filed(units, typed, e)
      BY <1>7, <3>1 DEF VInv
    <3> QED BY <1>5, <3>2, FiledGrows
  <2> QED BY <2>1, <2>2
<1>8. ASSUME NEW j \in Importers PROVE RunFiled(U, typed, runs'[j])
  <2>1. CASE j = i
    BY <1>4, <2>1, IdleRun
  <2>2. CASE j # i
    <3>1. RunFiled(units, typed, runs'[j])
      BY <1>4, <2>2 DEF VInv
    <3> QED BY <1>5, <3>1, FiledGrows DEF RunFiled
  <2> QED BY <2>1, <2>2
<1>9. ASSUME "overlap" \notin mishaps
      PROVE  /\ Solo(runs') /\ Singly(U, typed)
             /\ \A j \in Importers : RunFresh(U, typed, runs'[j])
  <2>1. /\ Solo(runs) /\ Singly(units, typed) /\ RunFresh(units, typed, runs[i])
    BY <1>9 DEF VInv
  <2>2. \A j \in Importers \ {i} : runs[j] = Stopped
    BY <1>1, <2>1 DEF Solo, Running
  <2>3. Solo(runs') /\ \A j \in Importers : RunFresh(U, typed, runs'[j])
    BY <1>4, <2>2, IdleRun DEF Solo
  <2>4. CASE d.created
    <3>1. \A u \in Known(units) \ typed : ~Alike(units[u], d.row.vin)
      BY <1>1, <1>2, <2>1, <2>4 DEF RunFresh
    <3>2. \A u \in Known(units) \ typed : ~Alike(U[u], U[d.unit]) /\ ~Alike(U[d.unit], U[u])
      BY <1>5, <2>4, <3>1 DEF Alike
    <3>3. \A u, v \in Known(units) \ typed : Alike(U[u], U[v]) => u = v
      BY <1>5, <2>1 DEF Singly
    <3> QED BY <1>5, <2>3, <2>4, <3>2, <3>3 DEF Singly
  <2>5. CASE ~d.created
    BY <1>5, <2>1, <2>3, <2>5
  <2> QED BY <2>4, <2>5
<1> QED BY <1>1, <1>7, <1>8, <1>9 DEF VInv

LEMMA VinSave ==
  ASSUME IInv, VInv, NEW u \in UnitIds, NEW vin \in OrNull(Vins),
         VinFree(units, vin), SaveUnit(u, vin)
  PROVE  VInv'
<1> DEFINE U == [units EXCEPT ![u] = vin]
           T == typed \cup {u}
<1>1. /\ units' = U /\ runs' = Undisturbed(runs) /\ purchases' = purchases
      /\ typed' = T /\ mishaps' = mishaps
  BY DEF SaveUnit
<1>2. /\ Known(U) = Known(units) \cup {u}
      /\ \A v \in UnitIds \ {u} : U[v] = units[v]
  BY UnitSaved DEF IInv
<1> HIDE DEF U
<1>3. /\ Known(units) \subseteq Known(U) /\ typed \subseteq T
      /\ Known(U) \ T \subseteq Known(units) \ typed
      /\ \A v \in Known(units) \ T : U[v] = units[v]
  BY <1>2, KnownType
<1> HIDE DEF T
<1>4. \A j \in Importers : SameWork(runs[j], runs'[j])
  BY <1>1, UndisturbedWork
<1>5. \A r \in Clear : \A d \in Range(purchases[r]) : Filed(U, T, d)
  BY <1>3, FiledGrows DEF VInv
<1>6. ASSUME NEW j \in Importers PROVE RunFiled(U, T, runs'[j])
  <2>1. RunFiled(units, typed, runs'[j])
    BY <1>4, SameWorkFiled DEF VInv
  <2> QED BY <1>3, <2>1, FiledGrows DEF RunFiled
<1>7. ASSUME "overlap" \notin mishaps
      PROVE  /\ Solo(runs') /\ Singly(U, T)
             /\ \A j \in Importers : RunFresh(U, T, runs'[j])
  <2>1. /\ Solo(runs) /\ Singly(units, typed)
        /\ \A j \in Importers : RunFresh(units, typed, runs'[j])
    BY <1>4, <1>7, SameWorkFiled DEF VInv
  <2>2. Solo(runs')
    BY <1>4, <2>1 DEF Solo, SameWork
  <2>3. \A v \in Known(U) \ T : v \in Known(units) \ typed /\ U[v] = units[v]
    BY <1>3
  <2>4. Singly(U, T)
    BY <2>1, <2>3 DEF Singly
  <2>5. \A j \in Importers : RunFresh(U, T, runs'[j])
    BY <2>1, <2>3 DEF RunFresh
  <2> QED BY <2>2, <2>4, <2>5
<1> QED BY <1>1, <1>5, <1>6, <1>7 DEF VInv

LEMMA StaysFiled == IInv /\ VInv /\ [Next]_vars => VInv'
<1> SUFFICES ASSUME IInv, VInv, [Next]_vars PROVE VInv'
  OBVIOUS
<1>1. ASSUME NEW i \in Importers, Start(i) \/ CommitFails(i) \/ Crash(i) PROVE VInv'
  BY <1>1, VinStart, VinCommitFails, VinStop
<1>2. ASSUME NEW i \in Importers, Row(i) PROVE VInv'
  BY <1>2, VinPass, VinBegin, VinCommit, VinStop DEF Row
<1>3. ASSUME NEW vin \in OrNull(Vins),
             EnterUnit(vin) \/ \E u \in UnitIds : EditUnit(u, vin)
      PROVE  VInv'
  BY <1>3, FormsSave, VinSave
<1>4. CASE UNCHANGED vars
  BY <1>4 DEF vars, VInv
<1> QED BY <1>1, <1>2, <1>3, <1>4 DEF Next

\* For every file, any number of runs that overlap and are interrupted, and
\* any saves of the unit form meanwhile, two vehicles of one VIN, however it is
\* spelled, share a unit, unless the form gave one of their units its VIN or
\* overlapping runs entered two spellings (resolve_vehicle_unit, the unique
\* units.vin_serial).
THEOREM OneUnitPerVin == Spec => []SameVinSameUnit
<1>1. Init => VInv
  <2> SUFFICES ASSUME Init PROVE VInv
    OBVIOUS
  <2>1. /\ \A r \in References : Range(purchases[r]) = {}
        /\ \A i \in Importers : runs[i] = Stopped
    BY DEF Init, Range
  <2>2. \A r \in Clear : Range(purchases[r]) = {}
    BY <2>1 DEF Clear
  <2>3. Known(units) = {}
    BY DEF Init, Known
  <2> QED BY <2>1, <2>2, <2>3, IdleRun DEF VInv, Solo, Singly
<1>2. IInv /\ VInv => SameVinSameUnit
  <2> SUFFICES ASSUME IInv, VInv, NEW r \in Clear, NEW q \in Clear,
                      NEW d \in Range(purchases[r]), NEW e \in Range(purchases[q]),
                      d.row.vehicle, e.row.vehicle,
                      d.row.vin # Null, e.row.vin # Null,
                      Lower[d.row.vin] = Lower[e.row.vin],
                      d.unit # e.unit, d.unit \notin typed, e.unit \notin typed
               PROVE  "overlap" \in mishaps /\ units[d.unit] # units[e.unit]
    BY DEF SameVinSameUnit
  <2>1. /\ EntryOK(units, r, d) /\ EntryOK(units, q, e)
        /\ d.row \in Rows /\ e.row \in Rows
    BY PurchaseOK DEF Clear, Entries
  <2>2. ~Muddled(d.row) /\ ~Muddled(e.row)
    BY <2>1 DEF EntryOK, Clear
  <2>3. /\ d.unit \in Known(units) \ typed /\ Alike(units[d.unit], d.row.vin)
        /\ e.unit \in Known(units) \ typed /\ Alike(units[e.unit], e.row.vin)
    BY <2>2 DEF VInv, Filed
  <2>4. Alike(units[d.unit], units[e.unit])
    BY <2>3 DEF Alike
  <2>5. "overlap" \in mishaps
    BY <2>3, <2>4 DEF VInv, Singly
  <2>6. units[d.unit] # Null
    BY <2>3, FileOK DEF Alike, Stocks
  <2>7. units[d.unit] # units[e.unit]
    BY <2>3, <2>6 DEF IInv, UnitsGood
  <2> QED BY <2>5, <2>7
<1> QED BY <1>1, <1>2, StaysFiled, Invariance, PTL DEF Spec

------------------------------------------------------------------------------
(* The dry run *)

LEMMA LastExists ==
  ASSUME NEW S, S \subseteq Lines, S # {} PROVE \E k \in S : \A j \in S \ {k} : Before(j, k)
<1> DEFINE V == {k \in S : ~File[k].vehicle}
<1>1. CASE V # {}
  <2>1. Max(V) \in V /\ \A j \in V : Max(V) >= j
    BY <1>1, MaxOfLines
  <2>2. PICK k \in V : \A j \in V : k >= j
    BY <2>1
  <2>3. ASSUME NEW j \in S \ {k} PROVE Before(j, k)
    <3>1. j \in Nat /\ k \in Nat /\ ~File[k].vehicle
      BY <2>2, LineTypes
    <3>2. CASE File[j].vehicle
      BY <2>2, <3>1, <3>2, LineTypes DEF Before
    <3>3. CASE ~File[j].vehicle
      BY <2>2, <3>1, <3>3, LineTypes DEF Before
    <3> QED BY <3>2, <3>3
  <2> QED BY <2>2, <2>3
<1>2. CASE V = {}
  <2>1. PICK k \in S : \A j \in S : k >= j
    BY MaxOfLines
  <2>2. \A j \in S : j \in Nat /\ File[j].vehicle
    BY <1>2, LineTypes
  <2>3. \A j \in S \ {k} : Before(j, k)
    BY <2>1, <2>2, LineTypes DEF Before
  <2> QED BY <2>3
<1> QED BY <1>1, <1>2

LEMMA LastOfDone ==
  /\ \A k \in Lines \cup {End} : Done(k) # {} =>
       /\ LastLine(Done(k)) \in Lines /\ LastLine(Done(k)) \in Done(k)
  /\ \A k \in Lines : LastLine(Done(After[k])) = k
<1>1. ASSUME NEW k \in Lines \cup {End}, Done(k) # {}
      PROVE  LastLine(Done(k)) \in Lines /\ LastLine(Done(k)) \in Done(k)
  <2>1. Done(k) \subseteq Lines
    BY DEF Done
  <2> QED BY <1>1, <2>1, LastExists DEF LastLine
<1>2. ASSUME NEW k \in Lines PROVE LastLine(Done(After[k])) = k
  <2>1. Done(After[k]) = Done(k) \cup {k}
    BY DoneAfter
  <2>2. \A j \in Done(k) : j \in Lines /\ Before(j, k)
    BY LineTypes DEF Done
  <2>3. \A j \in Done(k) : ~Before(k, j)
    BY <2>2, BeforeOrders
  <2> QED BY <2>1, <2>2, <2>3 DEF LastLine
<1> QED BY <1>1, <1>2

\* The place of a line in the order of the run.
Place(k) == IF k = End THEN 2 * End ELSE IF File[k].vehicle THEN k ELSE End + k

LEMMA Places ==
  /\ \A k \in Lines \cup {End} : Place(k) \in Nat /\ Place(k) <= 2 * End
  /\ \A k \in Lines \cup {End} : \A j \in Done(k) : Place(j) < Place(k)
<1>1. \A k \in Lines : k \in Nat /\ k < End /\ k # End
  BY FileOK DEF Lines, End
<1>2. End \in Nat
  BY LineTypes
<1>3. ASSUME NEW k \in Lines \cup {End} PROVE Place(k) \in Nat /\ Place(k) <= 2 * End
  BY <1>1, <1>2 DEF Place
<1>4. ASSUME NEW k \in Lines, NEW j \in Done(k) PROVE Place(j) < Place(k)
  <2>1. j \in Lines /\ Before(j, k)
    BY <1>1 DEF Done
  <2>2. CASE File[j].vehicle /\ File[k].vehicle
    <3>1. j < k
      BY <2>1, <2>2, LineTypes DEF Before
    <3> QED BY <1>1, <2>1, <2>2, <3>1 DEF Place
  <2>3. CASE File[j].vehicle /\ ~File[k].vehicle
    BY <1>1, <1>2, <2>1, <2>3 DEF Place
  <2>4. CASE ~File[j].vehicle /\ File[k].vehicle
    <3>1. ~Before(j, k)
      BY <2>1, <2>4, LineTypes DEF Before
    <3> QED BY <2>1, <3>1
  <2>5. CASE ~File[j].vehicle /\ ~File[k].vehicle
    <3>1. j < k
      BY <2>1, <2>5, LineTypes DEF Before
    <3> QED BY <1>1, <1>2, <2>1, <2>5, <3>1 DEF Place
  <2> QED BY <2>2, <2>3, <2>4, <2>5
<1>5. ASSUME NEW j \in Done(End) PROVE Place(j) < Place(End)
  <2>1. j \in Lines
    BY DEF Done
  <2> QED BY <1>1, <1>2, <2>1 DEF Place
<1> QED BY <1>3, <1>4, <1>5

Begun(P, U) == [purchases |-> P, units |-> U, memory |-> NothingRemembered]

\* What the recursive function of DryRun is, and what it is up to a place.
Foresees(f, P, U) ==
  f = [k \in Lines \cup {End} |->
         IF Done(k) = {} THEN Begun(P, U)
         ELSE DryRow(f[LastLine(Done(k))], File[LastLine(Done(k))])]
Until(m) == {k \in Lines \cup {End} : Place(k) < m}
ForeseesUntil(f, P, U, m) ==
  f = [k \in Until(m) |->
         IF Done(k) = {} THEN Begun(P, U)
         ELSE DryRow(f[LastLine(Done(k))], File[LastLine(Done(k))])]

Dry(P, U) == CHOOSE f : Foresees(f, P, U)

LEMMA DryRunIs == ASSUME NEW P, NEW U PROVE DryRun(P, U) = Dry(P, U)[End].purchases
BY DEF DryRun, Dry, Foresees, Begun

LEMMA OnePlaceMore ==
  ASSUME NEW P, NEW U, NEW m \in Nat, NEW g, ForeseesUntil(g, P, U, m)
  PROVE  \E h : ForeseesUntil(h, P, U, m + 1)
<1> DEFINE Made(f, k) == IF Done(k) = {} THEN Begun(P, U)
                         ELSE DryRow(f[LastLine(Done(k))], File[LastLine(Done(k))])
           h == [k \in Until(m + 1) |-> Made(g, k)]
<1>1. \A k \in Until(m) : g[k] = Made(g, k)
  BY DEF ForeseesUntil
<1>2. Until(m) \subseteq Until(m + 1)
  BY Places DEF Until
<1>3. \A k \in Until(m) : h[k] = g[k]
  <2> HIDE DEF Made
  <2> QED BY <1>1, <1>2
<1>4. ASSUME NEW k \in Until(m + 1), Done(k) # {}
      PROVE  h[LastLine(Done(k))] = g[LastLine(Done(k))]
  <2>1. LastLine(Done(k)) \in Lines /\ Place(LastLine(Done(k))) < Place(k)
        /\ Place(LastLine(Done(k))) \in Nat /\ Place(k) \in Nat /\ Place(k) < m + 1
    BY <1>4, LastOfDone, Places DEF Until
  <2>2. LastLine(Done(k)) \in Until(m)
    BY <2>1 DEF Until
  <2> HIDE DEF h
  <2> QED BY <1>3, <2>2
<1>5. \A k \in Until(m + 1) : h[k] = Made(h, k)
  <2> SUFFICES ASSUME NEW k \in Until(m + 1) PROVE h[k] = Made(h, k)
    OBVIOUS
  <2>1. h[k] = Made(g, k)
    <3> HIDE DEF Made
    <3> QED OBVIOUS
  <2> HIDE DEF h
  <2> QED BY <1>4, <2>1
<1>6. h = [k \in Until(m + 1) |-> Made(h, k)]
  <2>1. h = [k \in Until(m + 1) |-> h[k]]
    OBVIOUS
  <2> HIDE DEF h, Made
  <2> QED BY <1>5, <2>1
<1> HIDE DEF h
<1> QED BY <1>6 DEF ForeseesUntil

LEMMA ForeseesExists == ASSUME NEW P, NEW U PROVE Foresees(Dry(P, U), P, U)
<1> DEFINE Bad == {m \in Nat : ~\E f : ForeseesUntil(f, P, U, m)}
<1>1. Bad = {}
  <2> SUFFICES ASSUME Bad # {} PROVE FALSE
    OBVIOUS
  <2>1. PICK m \in Bad : \A k \in Bad : m <= k
    <3>1. Bad \subseteq Nat
      OBVIOUS
    <3> HIDE DEF Bad
    <3> QED BY <3>1, LeastNat
  <2>2. m # 0
    <3>1. Until(0) = {}
      BY Places DEF Until
    <3>2. ForeseesUntil([k \in {} |-> Null], P, U, 0)
      BY <3>1 DEF ForeseesUntil
    <3> QED BY <2>1, <3>2
  <2>3. m - 1 \in Nat /\ m - 1 \notin Bad /\ m = (m - 1) + 1
    BY <2>1, <2>2
  <2>4. \E f : ForeseesUntil(f, P, U, m - 1)
    BY <2>3
  <2>5. \E f : ForeseesUntil(f, P, U, (m - 1) + 1)
    BY <2>3, <2>4, OnePlaceMore
  <2> QED BY <2>1, <2>3, <2>5
<1>2. 2 * End + 1 \in Nat /\ Until(2 * End + 1) = Lines \cup {End}
  <2>1. End \in Nat
    BY LineTypes
  <2>2. \A k \in Lines \cup {End} : Place(k) < 2 * End + 1
    <3>1. \A x \in Nat : x <= 2 * End => x < 2 * End + 1
      BY <2>1
    <3> QED BY <3>1, Places
  <2>3. Until(2 * End + 1) = Lines \cup {End}
    <3> HIDE <2>1
    <3> QED BY <2>2 DEF Until
  <2> QED BY <2>1, <2>3
<1>3. PICK f : ForeseesUntil(f, P, U, 2 * End + 1)
  BY <1>1, <1>2
<1>4. Foresees(f, P, U)
  BY <1>2, <1>3 DEF Foresees, ForeseesUntil
<1> QED BY <1>4 DEF Dry

\* The dry run, line by line.
LEMMA DryLines ==
  ASSUME NEW P, NEW U
  PROVE  /\ Dry(P, U)[First(Lines)] = Begun(P, U)
         /\ \A k \in Lines : Dry(P, U)[After[k]] = DryRow(Dry(P, U)[k], File[k])
<1> DEFINE f == Dry(P, U)
<1>1. \A k \in Lines \cup {End} :
        f[k] = IF Done(k) = {} THEN Begun(P, U)
               ELSE DryRow(f[LastLine(Done(k))], File[LastLine(Done(k))])
  BY ForeseesExists DEF Foresees
<1> HIDE DEF f
<1>2. f[First(Lines)] = Begun(P, U)
  BY <1>1, DoneAtFirst, FirstType
<1>3. ASSUME NEW k \in Lines PROVE f[After[k]] = DryRow(f[k], File[k])
  <2>1. Done(After[k]) # {} /\ LastLine(Done(After[k])) = k /\ After[k] \in Lines \cup {End}
    BY DoneAfter, LastOfDone, AfterType
  <2> QED BY <1>1, <2>1
<1> QED BY <1>2, <1>3 DEF f

\* What the dry run decides for a row.
DryPlan(U, memory, row) ==
  Decide(U, memory, row, Pick(U, row.stock), Pick(U, row.vin))

\* A run that nothing has disturbed runs alone, and has made of the tables and
\* of its memory what the dry run would have up to its line; no two units have
\* one VIN, so that a look-up has one answer.
Follows(P, U, run) ==
  /\ Dry(run.before[1], run.before[2])[run.at]
       = [purchases |-> P, units |-> U, memory |-> run.memory]
  /\ OneEach(U)
  /\ run.doing # Nothing =>
       /\ run.at # End /\ run.doing = DryPlan(U, run.memory, File[run.at])
       /\ ~Imported(P, File[run.at])
       /\ ~Disagree(File[run.at], Pick(U, File[run.at].stock), Pick(U, File[run.at].vin))
Sure(run) == run # Stopped /\ run.before # Null /\ OneEach(run.before[2])
Foreseen(P, U, R) ==
  /\ \A i \in Importers : R[i] # Stopped /\ R[i].before # Null =>
       \A j \in Importers \ {i} : R[j] = Stopped
  /\ \A i \in Importers : Sure(R[i]) => Follows(P, U, R[i])

\* A look-up among units of which no two have one VIN has one answer.
LEMMA OneFound ==
  ASSUME NEW U \in UnitTables, OneEach(U), NEW vin, NEW u \in Found(U, vin)
  PROVE  u = Pick(U, vin)
<1>1. ASSUME NEW x \in Found(U, vin), NEW y \in Found(U, vin) PROVE x = y
  <2>1. CASE Having(U, vin) = {}
    BY <1>1, <2>1 DEF Found
  <2>2. CASE Having(U, vin) # {}
    <3>1. x \in Known(U) /\ y \in Known(U) /\ Alike(U[x], vin) /\ Alike(U[y], vin)
      BY <1>1, <2>2 DEF Found, Having
    <3>2. Alike(U[x], U[y])
      BY <3>1 DEF Alike
    <3> QED BY <3>1, <3>2 DEF OneEach
  <2> QED BY <2>1, <2>2
<1> QED BY <1>1 DEF Pick

LEMMA PickFound == ASSUME NEW U, NEW vin PROVE Pick(U, vin) \in Found(U, vin)
<1>1. \E u \in Found(U, vin) : TRUE
  BY DEF Found
<1> QED BY <1>1 DEF Pick

\* One run moves: if it is undisturbed and follows the dry run, all is well.
LEMMA OnlyOneFollows ==
  ASSUME NEW P, NEW U, NEW Q, NEW V, NEW R, DOMAIN R = Importers, Foreseen(P, U, R),
         NEW i \in Importers, R[i] # Stopped, NEW run,
         run # Stopped /\ run.before # Null => R[i].before # Null,
         Sure(run) => Follows(Q, V, run)
  PROVE  Foreseen(Q, V, [R EXCEPT ![i] = run])
<1> DEFINE S == [R EXCEPT ![i] = run]
<1>1. S[i] = run /\ \A j \in Importers \ {i} : S[j] = R[j]
  OBVIOUS
<1> HIDE DEF S
<1>2. ASSUME NEW j \in Importers, S[j] # Stopped, S[j].before # Null
      PROVE  j = i /\ \A k \in Importers \ {j} : S[k] = Stopped
  BY <1>1, <1>2 DEF Foreseen
<1>3. ASSUME NEW j \in Importers, Sure(S[j]) PROVE Follows(Q, V, S[j])
  BY <1>1, <1>2, <1>3 DEF Sure
<1> QED BY <1>2, <1>3 DEF Foreseen, S

\* Nothing is undisturbed.
LEMMA NoneUndisturbed ==
  ASSUME IInv, NEW i \in Importers
  PROVE  /\ Undisturbed(runs)[i] # Stopped => Undisturbed(runs)[i].before = Null
         /\ runs[i] = Stopped => Undisturbed(runs)[i] = Stopped
         /\ DOMAIN Undisturbed(runs) = Importers
<1>1. CASE runs[i] = Stopped
  BY <1>1 DEF Undisturbed
<1>2. CASE runs[i] # Stopped
  <2>1. runs[i] \in RunRows /\ Undisturbed(runs)[i] = [runs[i] EXCEPT !.before = Null]
    BY <1>2 DEF IInv, RunsGood, Undisturbed
  <2>2. DOMAIN Undisturbed(runs) = Importers
    BY DEF Undisturbed
  <2> QED BY <1>2, <2>1, <2>2 DEF RunRows
<1> QED BY <1>1, <1>2

LEMMA DisturbedForeseen ==
  ASSUME IInv, NEW P, NEW U PROVE Foreseen(P, U, Undisturbed(runs))
BY NoneUndisturbed DEF Foreseen, Sure

\* One run goes on, or starts, and the others are disturbed.
LEMMA DisturbedFollows ==
  ASSUME IInv, NEW P, NEW U, NEW i \in Importers, NEW run,
         run # Stopped /\ run.before # Null =>
            \A j \in Importers \ {i} : runs[j] = Stopped,
         Sure(run) => Follows(P, U, run)
  PROVE  Foreseen(P, U, [Undisturbed(runs) EXCEPT ![i] = run])
<1> DEFINE R == Undisturbed(runs)
           S == [R EXCEPT ![i] = run]
<1>1. \A j \in Importers : /\ R[j] # Stopped => R[j].before = Null
                           /\ runs[j] = Stopped => R[j] = Stopped
  BY NoneUndisturbed
<1>2. DOMAIN R = Importers
  BY DEF Undisturbed
<1> HIDE DEF R
<1>3. S[i] = run /\ \A j \in Importers \ {i} : S[j] = R[j]
  BY <1>2
<1> HIDE DEF S
<1>4. Foreseen(P, U, S)
  BY <1>1, <1>3 DEF Foreseen, Sure
<1> QED BY <1>4 DEF S, R

LEMMA AdvanceBefore ==
  ASSUME IInv, NEW i \in Importers, Running(i), NEW memory
  PROVE  Advance(i, memory).before = runs[i].before
<1>1. runs[i] \in RunRows
  BY InHand
<1> QED BY <1>1 DEF Advance, RunRows

\* A line that the dry run passes over.
LEMMA PassFollows ==
  ASSUME IInv, NEW i \in Importers, Running(i), runs[i].at # End,
         runs[i].before # Null, Follows(purchases, units, runs[i]),
         LET row == File[runs[i].at] IN
           \/ Imported(purchases, row)
           \/ Disagree(row, Pick(units, row.stock), Pick(units, row.vin))
           \/ ~Insertable(purchases, units, DryPlan(units, runs[i].memory, row))
  PROVE  Follows(purchases, units, Advance(i, runs[i].memory))
<1> DEFINE k == runs[i].at
           memory == runs[i].memory
           run == Advance(i, memory)
           seen == [purchases |-> purchases, units |-> units, memory |-> memory]
           f == Dry(runs[i].before[1], runs[i].before[2])
<1>1. /\ run.at = After[k] /\ run.doing = Nothing /\ run.memory = memory
      /\ run.before = runs[i].before /\ k \in Lines
  BY AdvanceIs, AdvanceBefore
<1>2. f[After[k]] = DryRow(f[k], File[k]) /\ f[k] = seen
  BY <1>1, DryLines DEF Follows
<1>3. DryRow(seen, File[k]) = seen
  BY DEF DryRow, Stays, DryDecide, DryPlan
<1> HIDE DEF run, f, seen
<1>4. f[run.at] = seen
  BY <1>1, <1>2, <1>3
<1> QED BY <1>1, <1>4 DEF Follows, f, seen, run

LEMMA ForeseenPass ==
  ASSUME IInv, Foreseen(purchases, units, runs), NEW i \in Importers,
         Skip(i) \/ Raise(i) \/ RowFails(i)
  PROVE  Foreseen(purchases', units', runs')
<1> DEFINE run == Advance(i, runs[i].memory)
           k == runs[i].at
<1>1. /\ Running(i) /\ k # End /\ purchases' = purchases /\ units' = units
      /\ runs' = [runs EXCEPT ![i] = run] /\ DOMAIN runs = Importers
  BY InHand DEF Skip, Raise, RowFails, AtRow, IInv, RunsGood, Advance
<1>2. run.before = runs[i].before
  BY <1>1, AdvanceBefore
<1>3. ASSUME Sure(run) PROVE Follows(purchases, units, run)
  <2>1. Follows(purchases, units, runs[i]) /\ runs[i].before # Null
    BY <1>1, <1>2, <1>3 DEF Foreseen, Running, Sure
  <2>2. CASE Skip(i)
    BY <1>1, <2>1, <2>2, PassFollows DEF Skip, Current
  <2>3. CASE Raise(i)
    <3>1. PICK byStock \in Found(units, File[k].stock), byVin \in Found(units, File[k].vin) :
            Disagree(File[k], byStock, byVin)
      BY <2>3 DEF Raise, Current
    <3>2. byStock = Pick(units, File[k].stock) /\ byVin = Pick(units, File[k].vin)
      BY <2>1, OneFound DEF Follows, IInv, UnitsGood
    <3> QED BY <1>1, <2>1, <3>1, <3>2, PassFollows
  <2>4. CASE RowFails(i)
    <3>1. ~Insertable(purchases, units, DryPlan(units, runs[i].memory, File[k]))
      BY <2>1, <2>4 DEF RowFails, Follows, Doing
    <3> QED BY <1>1, <2>1, <3>1, PassFollows
  <2> QED BY <2>2, <2>3, <2>4
<1> HIDE DEF run
<1>4. Foreseen(purchases, units, [runs EXCEPT ![i] = run])
  BY <1>1, <1>2, <1>3, OnlyOneFollows DEF Running
<1> QED BY <1>1, <1>4

LEMMA ForeseenBegin ==
  ASSUME IInv, Foreseen(purchases, units, runs), NEW i \in Importers, BeginRow(i)
  PROVE  Foreseen(purchases', units', runs')
<1> DEFINE k == runs[i].at
           row == File[k]
<1> PICK byStock \in Found(units, row.stock), byVin \in Found(units, row.vin) :
      /\ ~Disagree(row, byStock, byVin)
      /\ runs' = [runs EXCEPT ![i].doing =
           Decide(units, runs[i].memory, row, byStock, byVin)]
  BY DEF BeginRow, Current
<1> DEFINE d == Decide(units, runs[i].memory, row, byStock, byVin)
           run == [runs[i] EXCEPT !.doing = d]
<1>1. /\ Running(i) /\ k # End /\ purchases' = purchases /\ units' = units
      /\ ~Imported(purchases, row)
      /\ runs' = [runs EXCEPT ![i] = run] /\ DOMAIN runs = Importers
  BY DEF BeginRow, AtRow, Current, IInv, RunsGood
<1>2. runs[i] \in RunRows
  BY <1>1, InHand
<1> HIDE DEF d
<1>3. /\ run.at = k /\ run.memory = runs[i].memory /\ run.doing = d
      /\ run.before = runs[i].before
  BY <1>2 DEF RunRows
<1> HIDE DEF run
<1>4. ASSUME Sure(run) PROVE Follows(purchases, units, run)
  <2>1. Follows(purchases, units, runs[i])
    BY <1>1, <1>3, <1>4 DEF Foreseen, Running, Sure
  <2>2. byStock = Pick(units, row.stock) /\ byVin = Pick(units, row.vin)
    BY <2>1, OneFound DEF Follows, IInv, UnitsGood
  <2> QED BY <1>1, <1>3, <2>1, <2>2 DEF Follows, DryPlan, d
<1>5. Foreseen(purchases, units, [runs EXCEPT ![i] = run])
  BY <1>1, <1>3, <1>4, OnlyOneFollows DEF Running
<1> QED BY <1>1, <1>5

LEMMA DecidedIs ==
  ASSUME NEW U, NEW memory, NEW row
  PROVE  LET d == DryPlan(U, memory, row) IN
         /\ d.row = row
         /\ d.created => d.unit = NewUnit(U) /\ Pick(U, row.vin) = Null
BY DEF Decide, DryPlan, Resolve

\* The unit of a vehicle nothing was found for is the only one of its VIN.
LEMMA OneMoreEach ==
  ASSUME NEW U \in UnitTables, OneEach(U), NEW vin \in OrNull(Vins), Pick(U, vin) = Null,
         NEW u \in UnitIds, u \notin Known(U), NEW V, V = [U EXCEPT ![u] = vin]
  PROVE  OneEach(V)
<1>1. V[u] = vin /\ \A v \in Known(V) \ {u} : v \in Known(U) /\ V[v] = U[v]
  BY DEF UnitTables, Known
<1>2. \A v \in Known(U) : ~Alike(U[v], vin)
  BY PickFound, FoundType
<1>3. \A v, w : Alike(v, w) => Alike(w, v)
  BY DEF Alike
<1> QED BY <1>1, <1>2, <1>3 DEF OneEach

LEMMA ForeseenCommit ==
  ASSUME IInv, Foreseen(purchases, units, runs), NEW i \in Importers, CommitRow(i)
  PROVE  Foreseen(purchases', units', runs')
<1> DEFINE k == runs[i].at
           p == Doing(i)
           d == Settled(units, p)
           memory == Remember(runs[i].memory, d.row, d.unit)
           run == Advance(i, memory)
           P == WithPurchase(purchases, d)
           U == WithUnit(units, d)
<1>1. /\ Running(i) /\ p # Nothing /\ Insertable(purchases, units, p)
      /\ purchases' = P /\ units' = U /\ (p.created => Known(units) # UnitIds)
      /\ runs' = [runs EXCEPT ![i] = run] /\ DOMAIN runs = Importers
  BY DEF CommitRow, IInv, RunsGood
<1>2. k # End
  BY <1>1, InHand
<1>3. /\ run.at = After[k] /\ run.doing = Nothing /\ run.memory = memory
      /\ run.before = runs[i].before /\ k \in Lines
  BY <1>1, <1>2, AdvanceIs, AdvanceBefore
<1>4. ASSUME Sure(run) PROVE Follows(P, U, run)
  <2> DEFINE seen == [purchases |-> purchases, units |-> units, memory |-> runs[i].memory]
             f == Dry(runs[i].before[1], runs[i].before[2])
  <2>1. Follows(purchases, units, runs[i])
    BY <1>1, <1>3, <1>4 DEF Foreseen, Running, Sure
  <2>2. /\ p = DryPlan(units, runs[i].memory, File[k]) /\ OneEach(units)
        /\ ~Imported(purchases, File[k]) /\ f[k] = seen
        /\ ~Disagree(File[k], Pick(units, File[k].stock), Pick(units, File[k].vin))
    BY <1>1, <2>1 DEF Follows, Doing
  <2>3. /\ p.row = File[k]
        /\ p.created => p.unit = NewUnit(units) /\ Pick(units, File[k].vin) = Null
    BY <2>2, DecidedIs
  <2>4. d = p
    <3>1. p \in Entries(Keys)
      BY <1>1, InHand
    <3>2. p.created => [p EXCEPT !.unit = NewUnit(units)] = p
      BY <2>3, <3>1 DEF Entries
    <3> QED BY <3>2 DEF Settled
  <2>5. DryRow(seen, File[k]) = [purchases |-> P, units |-> U, memory |-> memory]
    BY <1>1, <2>2, <2>3, <2>4 DEF DryRow, Stays, DryDecide, DryPlan
  <2>6. f[After[k]] = DryRow(f[k], File[k])
    BY <1>3, DryLines
  <2>7. OneEach(U)
    <3>1. CASE p.created
      <4> DEFINE new == NewUnit(units)  vin == File[k].vin
      <4>1. new \in UnitIds /\ new \notin Known(units)
        BY <1>1, <3>1, NewUnitType
      <4>2. vin \in OrNull(Vins) /\ Pick(units, vin) = Null
        BY <1>3, <2>3, <3>1, LineTypes DEF FileRow
      <4>3. U = [units EXCEPT ![new] = vin] /\ units \in UnitTables
        BY <2>3, <2>4, <3>1 DEF WithUnit, IInv, UnitsGood
      <4> HIDE DEF new, vin, U
      <4> QED BY <2>2, <4>1, <4>2, <4>3, OneMoreEach
    <3>2. CASE ~p.created
      BY <2>2, <2>4, <3>2 DEF WithUnit
    <3> QED BY <3>1, <3>2
  <2> HIDE DEF seen, f, run, memory, P, U
  <2>8. f[run.at] = [purchases |-> P, units |-> U, memory |-> memory]
    BY <1>3, <2>2, <2>5, <2>6
  <2> QED BY <1>3, <2>7, <2>8 DEF Follows, f
<1> HIDE DEF run, P, U
<1>5. Foreseen(P, U, [runs EXCEPT ![i] = run])
  BY <1>1, <1>3, <1>4, OnlyOneFollows DEF Running
<1> QED BY <1>1, <1>5

LEMMA ForeseenStart ==
  ASSUME IInv, NEW i \in Importers, Start(i)
  PROVE  Foreseen(purchases', units', runs')
<1> DEFINE alone == \A j \in Importers : ~Running(j)
           before == IF alone THEN <<purchases, units>> ELSE Null
           run == [at |-> First(Lines), doing |-> Nothing,
                   memory |-> NothingRemembered, before |-> before]
<1>1. /\ runs' = [Undisturbed(runs) EXCEPT ![i] = run]
      /\ purchases' = purchases /\ units' = units
  BY DEF Start
<1>2. ASSUME run.before # Null
      PROVE  /\ \A j \in Importers \ {i} : runs[j] = Stopped
             /\ Sure(run) => Follows(purchases, units, run)
  <2>1. alone /\ before = <<purchases, units>>
    BY <1>2
  <2>2. \A j \in Importers : runs[j] = Stopped
    BY <2>1 DEF Running
  <2>3. Dry(purchases, units)[First(Lines)] = Begun(purchases, units)
    BY DryLines
  <2>4. /\ run.at = First(Lines) /\ run.memory = NothingRemembered /\ run.doing = Nothing
        /\ run.before[1] = purchases /\ run.before[2] = units
    BY <2>1
  <2> HIDE DEF run
  <2> QED BY <2>2, <2>3, <2>4 DEF Follows, Begun, Sure
<1> HIDE DEF run
<1>3. Sure(run) => run.before # Null
  BY DEF Sure
<1> QED BY <1>1, <1>2, <1>3, DisturbedFollows

LEMMA StaysForeseen ==
  IInv /\ Foreseen(purchases, units, runs) /\ [Next]_vars => Foreseen(purchases', units', runs')
<1> SUFFICES ASSUME IInv, Foreseen(purchases, units, runs), [Next]_vars
             PROVE  Foreseen(purchases', units', runs')
  OBVIOUS
<1>1. ASSUME NEW i \in Importers, Finish(i) \/ Crash(i)
      PROVE  Foreseen(purchases', units', runs')
  <2>1. /\ runs[i] # Stopped /\ purchases' = purchases /\ units' = units
        /\ runs' = [runs EXCEPT ![i] = Stopped] /\ DOMAIN runs = Importers
    BY <1>1 DEF Finish, Crash, Running, IInv, RunsGood
  <2>2. Foreseen(purchases, units, [runs EXCEPT ![i] = Stopped])
    BY <2>1, OnlyOneFollows DEF Sure
  <2> QED BY <2>1, <2>2
<1>2. ASSUME NEW i \in Importers, CommitFails(i) PROVE Foreseen(purchases', units', runs')
  <2> DEFINE d == Doing(i)
             unit == IF d.created THEN Gone ELSE d.unit
             memory == Remember(Undisturbed(runs)[i].memory, d.row, unit)
             run == [Advance(i, memory) EXCEPT !.before = Null]
  <2>1. /\ runs' = [Undisturbed(runs) EXCEPT ![i] = run] /\ Running(i)
        /\ purchases' = purchases /\ units' = units
    BY <1>2 DEF CommitFails, Undisturbed
  <2>2. run.before = Null
    <3>1. runs[i] \in RunRows
      BY <2>1, InHand
    <3> HIDE DEF memory
    <3> QED BY <3>1 DEF Advance, RunRows
  <2> HIDE DEF run
  <2> QED BY <2>1, <2>2, DisturbedFollows DEF Sure
<1>3. ASSUME NEW i \in Importers, Row(i) PROVE Foreseen(purchases', units', runs')
  BY <1>1, <1>3, ForeseenPass, ForeseenBegin, ForeseenCommit DEF Row
<1>4. ASSUME NEW vin \in OrNull(Vins),
             EnterUnit(vin) \/ \E u \in UnitIds : EditUnit(u, vin)
      PROVE  Foreseen(purchases', units', runs')
  BY <1>4, FormsSave, DisturbedForeseen DEF SaveUnit
<1>5. CASE UNCHANGED vars
  BY <1>5 DEF vars
<1> QED BY <1>1, <1>2, <1>3, <1>4, <1>5, ForeseenStart DEF Next

\* A run nothing disturbs enters exactly the purchases, with the same units,
\* that a dry run at its start would have, whatever earlier runs left, unless
\* two units had one VIN then (run_import).
THEOREM RunsDoAsForetold == Spec => []DryRunForetells
<1> DEFINE Inv == Foreseen(purchases, units, runs)
<1>1. Init => Inv
  BY DEF Init, Foreseen, Sure
<1>2. IInv /\ Inv /\ [Next]_vars => Inv'
  BY StaysForeseen
<1>3. Inv => DryRunForetells
  <2> SUFFICES ASSUME Inv, NEW i \in Importers, Running(i), runs[i].at = End,
                      runs[i].before # Null, OneEach(runs[i].before[2])
               PROVE  purchases = DryRun(runs[i].before[1], runs[i].before[2])
    BY DEF DryRunForetells
  <2>1. Follows(purchases, units, runs[i])
    BY DEF Foreseen, Running, Sure
  <2> QED BY <2>1, DryRunIs DEF Follows
<1> HIDE DEF Inv
<1> QED BY <1>1, <1>2, <1>3, Invariance, PTL DEF Spec
=============================================================================
