----------------------------- MODULE Enrichment -----------------------------
(***************************************************************************)
(* The script that describes historical vehicles from the notes of their   *)
(* purchases.  It fills the fields that are empty.  It loads every unit,   *)
(* decides, and commits much later, with the unit form in use meanwhile.   *)
(* A unit may have several historical purchases: the query has no order,   *)
(* so each run may take another one.  A dry run only reports.              *)
(***************************************************************************)
EXTENDS Sessions, Naturals, SequencesExt

CONSTANTS
  Units,
  Purchases,     \* the historical purchases of vehicles
  UnitOf,        \* the unit of each of them
  NoteBooks,     \* what their notes may be: per purchase, a sequence of tokens
  MakeOf,        \* per token, the make it stands for, or Null
  Runs,          \* per token, the runs of digits in it: a number is one itself
  Colors, Years, Numbers, Codes, Words,   \* kinds of tokens
  Series,       \* numbers of two to four digits
  Saved,         \* the descriptions submitted with the unit form
  MaxSaves       \* bound: saves of the form

Fields == {"year", "make", "model"}

ASSUME EnrichmentOK ==
  /\ UnitOf \in [Purchases -> Units]
  /\ Years \subseteq Series /\ Series \subseteq Numbers
  /\ Runs \in [DOMAIN MakeOf -> SUBSET Numbers]
  /\ \A n \in NoteBooks : n \in [Purchases -> Seq(DOMAIN MakeOf)]
  /\ \A row \in Saved : row = [f \in Fields |-> row[f]]
  /\ Null \notin Saved
  /\ MaxSaves \in Nat

VARIABLES
  notes,       \* purchases.description, which nothing here changes
  described,   \* year, make and model of each unit
  run,         \* what a run has loaded and proposes, or Idle
  typed,       \* ghost: what the form last saved, per unit; Null before
  raced,       \* ghost: units saved between a loading and its commit
  saves        \* saves so far

vars == <<notes, described, run, typed, raced, saves>>

Idle  == [loaded |-> Null]
Blank == [f \in Fields |-> Null]

------------------------------------------------------------------------------
(* Reading notes *)

\* The runs of digits of the whole text, which no token divides.
Digits(n) == UNION {Runs[t] : t \in Range(n)}

\* Fault: a number out of range is a year too.
NumberAsYear(n) ==
  LET candidates == Digits(n) IN
  IF Cardinality(candidates) = 1 THEN CHOOSE y \in candidates : TRUE ELSE Null

\* find_year: the one year among them, if there is just one.
FindYear(n) ==
  LET candidates == Digits(n) \cap Years IN
  IF Cardinality(candidates) = 1 THEN CHOOSE y \in candidates : TRUE ELSE Null

IsMake(n, i) == i \in DOMAIN n /\ MakeOf[n[i]] # Null

\* The index of the first make, or 0.
MakeAt(n) ==
  IF \E i \in DOMAIN n : IsMake(n, i)
  THEN CHOOSE i \in DOMAIN n : IsMake(n, i) /\ \A j \in 1..(i - 1) : ~IsMake(n, j)
  ELSE 0

\* Fault: only colors are passed over.
SkipsColors(n, make, j) == n[j] \in Colors

Skips(n, make, j) == MakeOf[n[j]] = make \/ n[j] \in Colors

\* The loop that passes over them, from j on.
Follower(n, make, from) ==
  LET next[j \in 1..(Len(n) + 1)] ==
        IF j <= Len(n) /\ Skips(n, make, j) THEN next[j + 1] ELSE j
  IN  next[from]

\* A model is the tokens it is spelled with.
ModelFrom(n, j) ==
  IF j > Len(n) THEN Null ELSE
  CASE n[j] \in Numbers -> <<n[j]>>
    [] n[j] \in Codes   -> IF j < Len(n) /\ n[j + 1] \in Series
                           THEN <<n[j], n[j + 1]>> ELSE <<n[j]>>
    [] n[j] \in Words   -> <<n[j]>>
    [] OTHER            -> Null

\* find_make_and_model, with find_year
Proposal(n) ==
  LET i == MakeAt(n) IN
  [year  |-> FindYear(n),
   make  |-> IF i = 0 THEN Null ELSE MakeOf[n[i]],
   model |-> IF i = 0 THEN Null ELSE ModelFrom(n, Follower(n, MakeOf[n[i]], i + 1))]

------------------------------------------------------------------------------
(* The script and the form *)

Init ==
  /\ notes \in NoteBooks
  /\ described = [u \in Units |-> Blank]
  /\ run = Idle
  /\ typed = [u \in Units |-> Null] /\ raced = {} /\ saves = 0

PurchasesOf(u) == {p \in Purchases : UnitOf[p] = u}

\* historical_vehicle_units and build_proposal: the first purchase of a unit
\* that the query happens to return.
Load ==
  /\ run = Idle
  /\ \E first \in [Units -> Purchases] :
       /\ \A u \in Units : first[u] \in PurchasesOf(u)
       /\ run' = [loaded |-> described, first |-> first]
  /\ UNCHANGED <<notes, described, typed, raced, saves>>

\* Fault: a field is filled whatever it holds.
FillAny(loaded, proposed, inDb) == IF proposed # Null THEN proposed ELSE inDb

\* apply_proposal, and the columns the session then writes.
Fill(loaded, proposed, inDb) ==
  IF loaded = Null /\ proposed # Null THEN proposed ELSE inDb

Commit ==
  /\ run # Idle
  /\ described' = [u \in Units |-> [f \in Fields |->
       Fill(run.loaded[u][f], Proposal(notes[run.first[u]])[f], described[u][f])]]
  /\ run' = Idle
  /\ UNCHANGED <<notes, typed, raced, saves>>

\* Fault: each field is committed by itself.
InterruptBetween ==
  /\ run # Idle /\ run' = Idle
  /\ described' = [u \in Units |-> [described[u] EXCEPT !.year =
       Fill(run.loaded[u].year, Proposal(notes[run.first[u]]).year, @)]]
  /\ UNCHANGED <<notes, typed, raced, saves>>

\* It is interrupted: nothing was committed.
Interrupt ==
  /\ run # Idle /\ run' = Idle
  /\ UNCHANGED <<notes, described, typed, raced, saves>>

\* update_unit
SaveUnit(u, row) ==
  /\ saves < MaxSaves /\ saves' = saves + 1
  /\ described' = [described EXCEPT ![u] = row]
  /\ typed' = [typed EXCEPT ![u] = row]
  /\ raced' = IF run = Idle THEN raced ELSE raced \cup {u}
  /\ UNCHANGED <<notes, run>>

Next ==
  \/ Load \/ Commit \/ Interrupt
  \/ \E u \in Units, row \in Saved : SaveUnit(u, row)

Spec == Init /\ [][Next]_vars

------------------------------------------------------------------------------
Typed(f) == {row[f] : row \in Saved}

Descriptions ==
  [year: OrNull(Years) \cup Typed("year"),
   make: OrNull(Range(MakeOf)) \cup Typed("make"),
   model: {Null} \cup [1..1 -> DOMAIN MakeOf] \cup [1..2 -> DOMAIN MakeOf]
            \cup Typed("model")]

\* The type invariant: unless typed, only a year becomes a year, only a make a
\* make, and a model is one or two tokens (Unit.year, make, model).
TypeOK ==
  /\ notes \in NoteBooks
  /\ described \in [Units -> Descriptions]
  /\ run # Idle => run \in [loaded: [Units -> Descriptions],
                            first: [Units -> Purchases]]
  /\ typed \in [Units -> OrNull(Saved)] /\ raced \subseteq Units
  /\ saves \in 0..MaxSaves

\* What somebody typed into the form stays, through any number of runs, unless
\* it was saved between the loading and the commit of one ("Never overwrites a
\* field that already has a non-null value", enrich_historical_units.py:23).
TypedStays ==
  \A u \in Units \ raced : \A f \in Fields :
    (typed[u] # Null /\ typed[u][f] # Null) => described[u][f] = typed[u][f]

\* What a run filled in comes from notes of a historical purchase of that very
\* unit, field by field; a unit with one such purchase and no save has no
\* fields of two stories (build_proposal, historical_vehicle_units).
FromItsNotes ==
  \A u \in Units :
    LET stories == {Proposal(notes[p]) : p \in PurchasesOf(u)} IN
    typed[u] = Null =>
      /\ \A f \in Fields :
           described[u][f] # Null => \E s \in stories : described[u][f] = s[f]
      /\ \A p \in Purchases :
           PurchasesOf(u) = {p} => described[u] \in {Proposal(notes[p]), Blank}

\* The model read from notes begins with the first token after the make that
\* is neither a color nor the make again, nothing between is lost, and only a
\* number is added to it ("never guesses between multiple candidates",
\* enrich_historical_units.py:26).
ModelFollowsMake ==
  \A p \in Purchases :
    LET n == notes[p]
        model == Proposal(n).model
        Passed(k) == n[k] \in Colors \/ MakeOf[n[k]] = Proposal(n).make
    IN  model # Null =>
          \E i, j \in DOMAIN n :
            /\ IsMake(n, i) /\ i < j /\ ~Passed(j)
            /\ \A k \in 1..(i - 1) : MakeOf[n[k]] = Null
            /\ \A k \in i..(j - 1) : Passed(k)
            /\ model = <<n[j]>> \/ model = SubSeq(n, j, j + 1)
            /\ Len(model) = 2 => n[j + 1] \in Numbers
=============================================================================
