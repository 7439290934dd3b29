---------------------------- MODULE Backup_proofs ----------------------------
(***************************************************************************)
(* Proofs about Backup, for any number of documents, calendar and bounds.  *)
(***************************************************************************)
EXTENDS Backup, FiniteSetTheorems, TLAPS

------------------------------------------------------------------------------
(* The steps of a run, and days *)

\* Where a run is when it is at a command.
LEMMA StepsOfARun ==
  /\ Len(Order) = 6
  /\ \A i \in 1..6 : /\ Order[i] = "count"   <=> i = 1
                     /\ Order[i] = "dump"    <=> i = 2
                     /\ Order[i] = "archive" <=> i = 3
                     /\ Order[i] = "recount" <=> i = 4
                     /\ Order[i] = "verify"  <=> i = 5
                     /\ Order[i] = "prune"   <=> i = 6
BY DEF Order

\* A cycle and the window have a day at least; nothing is kept for longer than
\* the window.
LEMMA Lengths ==
  /\ Cycle \in Nat \ {0} /\ Horizon \in Nat \ {0}
  /\ DailyDays < Horizon /\ WeeklyDays < Horizon /\ MonthlyDays < Horizon
<1>1. WeekLength \in Nat /\ MonthLength \in Nat /\ WeekLength >= 1 /\ MonthLength >= 1
  BY RetentionOK
<1>2. Cycle \in Nat /\ Cycle >= 1
  BY <1>1 DEF Cycle
<1> DEFINE limits == {DailyDays, WeeklyDays, MonthlyDays}
<1>3. \E x \in limits : \A y \in limits : x >= y
  BY RetentionOK
<1>4. Max(limits) \in limits /\ \A y \in limits : Max(limits) >= y
  BY <1>3 DEF Max
<1>5. /\ Horizon \in Nat \ {0}
      /\ DailyDays < Horizon /\ WeeklyDays < Horizon /\ MonthlyDays < Horizon
  BY <1>4, RetentionOK DEF Horizon
<1> QED BY <1>2, <1>5

\* Pruning removes only, and not the newest (choose).
LEMMA PruningKeepsNewest ==
  ASSUME NEW days \in SUBSET Int, NEW now \in days, \A d \in days : d <= now,
         NEW late
  PROVE  Choose(days, now, late) \subseteq days /\ now \in Choose(days, now, late)
BY DEF Choose, Newest, Within, OldestOfEach

\* What a document gains, the sets of rows and files gain.
LEMMA Grown ==
  ASSUME NEW d \in Docs, docs \in [Docs -> SUBSET {"file", "row"}],
         docs[d] \subseteq docs'[d], docs' = [docs EXCEPT ![d] = docs'[d]]
  PROVE  Rows \subseteq Rows' /\ Files \subseteq Files'
BY DEF Rows, Files

\* No backup is newer than today.
NoneAhead == \A d \in backups \cup made : d <= today

TInv == TypeOK /\ NoneAhead

LEMMA InitTInv == Init => TInv
<1> SUFFICES ASSUME Init PROVE TInv
  OBVIOUS
<1>1. today \in Cycle..(2 * Cycle - 1)
  BY Lengths DEF Init
<1>2. docs \in [Docs -> SUBSET {"file", "row"}]
  BY DEF Init
<1>3. revision \in 0..MaxMigrations /\ trouble \in 0..MaxTrouble
  BY BackupOK DEF Init
<1>4. run = Idle /\ ~At("prune") /\ copyDue = FALSE
  BY DEF Init, At
<1>5. /\ {due, copyDue, refused} \subseteq BOOLEAN
      /\ backups = {} /\ made = {} /\ cloud = {} /\ flawed = {}
  BY DEF Init
<1> QED BY <1>1, <1>2, <1>3, <1>4, <1>5 DEF TInv, TypeOK, NoneAhead

\* What an upload adds next.
LEMMA UploadAdds ==
  ASSUME docs \in [Docs -> SUBSET {"file", "row"}], NEW d \in Docs, UploadStep(d)
  PROVE  /\ docs[d] = {} => docs'[d] = {"file"}
         /\ docs[d] = {"file"} => docs'[d] = {"file", "row"}
         /\ docs[d] = {"row"} => docs'[d] = {"row"}
         /\ docs[d] # {"file", "row"}
         /\ docs' = [docs EXCEPT ![d] = docs'[d]]
         /\ docs[d] \subseteq docs'[d] /\ docs'[d] \subseteq {"file", "row"}
<1>1. UploadOrder[1] = "file" /\ UploadOrder[2] = "row"
  BY DEF UploadOrder
<1>2. docs'[d] = docs[d] \cup {UploadOrder[Cardinality(docs[d]) + 1]}
  BY DEF UploadStep
<1>3. docs[d] \in {{}, {"file"}, {"row"}, {"file", "row"}}
  <2>1. docs[d] \subseteq {"file", "row"}
    OBVIOUS
  <2> QED BY <2>1
<1>4. Cardinality({}) = 0 /\ Cardinality({"file"}) = 1 /\ Cardinality({"row"}) = 1
  BY FS_EmptySet, FS_Singleton
<1>5. docs[d] # {"file", "row"} /\ docs' = [docs EXCEPT ![d] = docs'[d]]
  BY DEF UploadStep
<1>6. CASE docs[d] = {}
  BY <1>1, <1>2, <1>4, <1>5, <1>6
<1>7. CASE docs[d] = {"file"}
  BY <1>1, <1>2, <1>4, <1>5, <1>7
<1>8. CASE docs[d] = {"row"}
  BY <1>1, <1>2, <1>4, <1>5, <1>8
<1> QED BY <1>3, <1>5, <1>6, <1>7, <1>8

\* A run that is not idle has the fields of one.
LEMMA RunHasFields ==
  ASSUME TypeOK, run # Idle
  PROVE  /\ run \in RunRecord /\ run.at \in 1..6
         /\ run.dump \subseteq Rows /\ run.files \subseteq Files
BY StepsOfARun DEF TypeOK, RunRecord

\* At which position the run is at each command.
LEMMA AtStep ==
  ASSUME TypeOK
  PROVE  /\ At("count")   <=> run # Idle /\ run.at = 1
         /\ At("dump")    <=> run # Idle /\ run.at = 2
         /\ At("archive") <=> run # Idle /\ run.at = 3
         /\ At("recount") <=> run # Idle /\ run.at = 4
         /\ At("verify")  <=> run # Idle /\ run.at = 5
         /\ At("prune")   <=> run # Idle /\ run.at = 6
<1>1. CASE run = Idle
  BY <1>1 DEF At
<1>2. CASE run # Idle
  <2>1. run.at \in 1..6
    BY <1>2, RunHasFields
  <2> HIDE DEF Order
  <2> QED BY <1>2, <2>1, StepsOfARun DEF At
<1> QED BY <1>1, <1>2

LEMMA RowsAreFinite ==
  Cardinality(Rows) \in Nat /\ \A S \in SUBSET Docs : IsFiniteSet(S) /\ Cardinality(S) \in Nat
<1>1. \A S \in SUBSET Docs : IsFiniteSet(S) /\ Cardinality(S) \in Nat
  BY BackupOK, FS_Subset, FS_CardinalityType
<1> QED BY <1>1 DEF Rows

\* What the reading commands of a run write down.
LEMMA Readings ==
  ASSUME TypeOK
  PROVE  /\ CountRows =>
              /\ run # Idle /\ run.at = 1 /\ run' \in RunRecord /\ run'.at = 2
              /\ run'.before = Cardinality(Rows)
              /\ run'.dump = run.dump /\ run'.files = run.files
         /\ Dump =>
              /\ run # Idle /\ run.at = 2 /\ run' \in RunRecord /\ run'.at = 3
              /\ run'.before = run.before
              /\ run'.dump = Rows /\ run'.files = run.files
         /\ Archive =>
              /\ run # Idle /\ run.at = 3 /\ run' \in RunRecord /\ run'.at = 4
              /\ run'.before = run.before
              /\ run'.dump = run.dump /\ run'.files = Files
         /\ Recount =>
              /\ run # Idle /\ run.at = 4 /\ run' \in RunRecord /\ run'.at = 5
              /\ run'.before = run.before /\ run'.after = Cardinality(Rows)
              /\ run'.dump = run.dump /\ run'.files = run.files
<1>1. /\ \A r \in RunRecord, n \in Nat : /\ [r EXCEPT !.before = n] \in RunRecord
                                          /\ [r EXCEPT !.after = n] \in RunRecord
      /\ \A r \in RunRecord, S \in SUBSET Docs : /\ [r EXCEPT !.dump = S] \in RunRecord
                                                /\ [r EXCEPT !.files = S] \in RunRecord
      /\ \A r \in RunRecord, n \in 0..MaxMigrations :
           /\ [r EXCEPT !.dumpedAt = n] \in RunRecord
           /\ [r EXCEPT !.revision = n] \in RunRecord
      /\ \A r \in RunRecord : r.at \in 1..5 => [r EXCEPT !.at = @ + 1] \in RunRecord
  BY StepsOfARun DEF RunRecord
<1>2. /\ Cardinality(Rows) \in Nat /\ Rows \in SUBSET Docs /\ Files \in SUBSET Docs
      /\ revision \in 0..MaxMigrations
  BY RowsAreFinite DEF Rows, Files, TypeOK
<1>3. ASSUME CountRows
      PROVE  /\ run # Idle /\ run.at = 1 /\ run' \in RunRecord /\ run'.at = 2
             /\ run'.before = Cardinality(Rows)
             /\ run'.dump = run.dump /\ run'.files = run.files
  <2> DEFINE r == [run EXCEPT !.before = Cardinality(Rows)]
  <2>1. run # Idle /\ run.at = 1 /\ run \in RunRecord /\ run' = [r EXCEPT !.at = @ + 1]
    BY <1>3, AtStep, RunHasFields DEF CountRows, Wrote
  <2>2. /\ r \in RunRecord /\ r.at = 1 /\ r.before = Cardinality(Rows)
        /\ r.dump = run.dump /\ r.files = run.files
    BY <1>1, <1>2, <2>1 DEF RunRecord
  <2> HIDE DEF r
  <2>3. run' \in RunRecord
    BY <1>1, <2>1, <2>2
  <2> QED BY <2>1, <2>2, <2>3 DEF RunRecord
<1>4. ASSUME Dump
      PROVE  /\ run # Idle /\ run.at = 2 /\ run' \in RunRecord /\ run'.at = 3
             /\ run'.before = run.before
             /\ run'.dump = Rows /\ run'.files = run.files
  <2> DEFINE q == [run EXCEPT !.dump = Rows]
             r == [q EXCEPT !.dumpedAt = revision]
  <2>1. run # Idle /\ run.at = 2 /\ run \in RunRecord
    BY <1>4, AtStep, RunHasFields DEF Dump
  <2>2. q \in RunRecord /\ q.at = 2 /\ q.before = run.before /\ q.dump = Rows /\ q.files = run.files
    BY <1>1, <1>2, <2>1 DEF RunRecord
  <2>3. run' = [r EXCEPT !.at = @ + 1]
    BY <1>4 DEF Dump, Wrote
  <2> HIDE DEF q
  <2>4. r \in RunRecord /\ r.at = 2 /\ r.before = run.before /\ r.dump = Rows /\ r.files = run.files
    BY <1>1, <1>2, <2>2 DEF RunRecord
  <2> HIDE DEF r
  <2>5. run' \in RunRecord
    BY <1>1, <2>3, <2>4
  <2> QED BY <2>1, <2>3, <2>4, <2>5 DEF RunRecord
<1>5. ASSUME Archive
      PROVE  /\ run # Idle /\ run.at = 3 /\ run' \in RunRecord /\ run'.at = 4
             /\ run'.before = run.before
             /\ run'.dump = run.dump /\ run'.files = Files
  <2> DEFINE r == [run EXCEPT !.files = Files]
  <2>1. run # Idle /\ run.at = 3 /\ run \in RunRecord /\ run' = [r EXCEPT !.at = @ + 1]
    BY <1>5, AtStep, RunHasFields DEF Archive, Wrote
  <2>2. /\ r \in RunRecord /\ r.at = 3 /\ r.before = run.before
        /\ r.dump = run.dump /\ r.files = Files
    BY <1>1, <1>2, <2>1 DEF RunRecord
  <2> HIDE DEF r
  <2>3. run' \in RunRecord
    BY <1>1, <2>1, <2>2
  <2> QED BY <2>1, <2>2, <2>3 DEF RunRecord
<1>6. ASSUME Recount
      PROVE  /\ run # Idle /\ run.at = 4 /\ run' \in RunRecord /\ run'.at = 5
             /\ run'.before = run.before /\ run'.after = Cardinality(Rows)
             /\ run'.dump = run.dump /\ run'.files = run.files
  <2> DEFINE q == [run EXCEPT !.after = Cardinality(Rows)]
             r == [q EXCEPT !.revision = revision]
  <2>1. run # Idle /\ run.at = 4 /\ run \in RunRecord
    BY <1>6, AtStep, RunHasFields DEF Recount
  <2>2. /\ q \in RunRecord /\ q.at = 4 /\ q.before = run.before
        /\ q.after = Cardinality(Rows) /\ q.dump = run.dump /\ q.files = run.files
    BY <1>1, <1>2, <2>1 DEF RunRecord
  <2>3. run' = [r EXCEPT !.at = @ + 1]
    BY <1>6 DEF Recount, Wrote
  <2> HIDE DEF q
  <2>4. /\ r \in RunRecord /\ r.at = 4 /\ r.before = run.before
        /\ r.after = Cardinality(Rows) /\ r.dump = run.dump /\ r.files = run.files
    BY <1>1, <1>2, <2>2 DEF RunRecord
  <2> HIDE DEF r
  <2>5. run' \in RunRecord
    BY <1>1, <2>3, <2>4
  <2> QED BY <2>1, <2>3, <2>4, <2>5 DEF RunRecord
<1> QED BY <1>3, <1>4, <1>5, <1>6

\* A command of a run that only reads keeps the types.
LEMMA ReadingKeepsTypes ==
  ASSUME TInv, InBackup, run' \in RunRecord, run'.at # 6,
         run'.dump \subseteq Rows, run'.files \subseteq Files
  PROVE  TInv'
<1>1. Rows' = Rows /\ Files' = Files
  BY DEF InBackup, Rows, Files
<1>2. /\ revision' \in 0..MaxMigrations /\ trouble' \in 0..MaxTrouble
      /\ docs' \in [Docs -> SUBSET {"file", "row"}]
  BY DEF InBackup, TInv, TypeOK
<1>3. run' \in RunRecord /\ run'.dump \subseteq Rows' /\ run'.files \subseteq Files'
  BY <1>1
<1>4. /\ today' \in Cycle..(2 * Cycle - 1) /\ {due', copyDue', refused'} \subseteq BOOLEAN
      /\ backups' \cup made' \subseteq Days /\ cloud' \subseteq backups' /\ flawed' \subseteq made'
      /\ NoneAhead'
  BY DEF InBackup, TInv, TypeOK, timeVars, shelf, NoneAhead
<1>5. ~At("prune")'
  <2>1. run'.at \in 1..6
    BY StepsOfARun DEF RunRecord
  <2> HIDE DEF Order
  <2> QED BY <2>1, StepsOfARun DEF At
<1>6. copyDue' => today' \in backups'
  BY DEF InBackup, TInv, TypeOK, timeVars, shelf
<1> QED BY <1>2, <1>3, <1>4, <1>5, <1>6 DEF TInv, TypeOK

\* Renumbering keeps days in the window, in their order.
LEMMA RenumberedDays ==
  ASSUME TypeOK, NEW back \in {0, Cycle}, today + 1 - back \in Cycle..(2 * Cycle - 1),
         NEW days \in SUBSET Days, \A d \in days : d <= today
  PROVE  /\ Renumbered(days, back) \subseteq Days
         /\ \A d \in Renumbered(days, back) : d <= today + 1 - back
<1> DEFINE floor == today + 1 - back - Horizon
           new(d) == IF d - back < floor THEN floor ELSE d - back
<1>1. today \in Int /\ back \in Int /\ Cycle \in Nat /\ Horizon \in Nat \ {0}
  BY Lengths DEF TypeOK
<1> HIDE DEF Cycle, Horizon
<1>2. ASSUME NEW d \in days PROVE new(d) \in Days /\ new(d) <= today + 1 - back
  <2>1. d \in Int /\ d <= today
    BY <1>1 DEF Days
  <2>2. CASE d - back < floor
    <3>1. floor \in (Cycle - Horizon)..(2 * Cycle) /\ floor <= today + 1 - back
      BY <1>1
    <3> QED BY <2>2, <3>1 DEF Days
  <2>3. CASE ~(d - back < floor)
    <3>1. d - back \in (Cycle - Horizon)..(2 * Cycle) /\ d - back <= today + 1 - back
      BY <1>1, <2>1, <2>3
    <3> QED BY <2>3, <3>1 DEF Days
  <2> QED BY <2>2, <2>3
<1> QED BY <1>2 DEF Renumbered

LEMMA NextTInv == TInv /\ [Next]_vars => TInv'
<1> SUFFICES ASSUME TInv, [Next]_vars PROVE TInv'
  OBVIOUS
<1> USE DEF timeVars, shelf
<1>0. TypeOK
  BY DEF TInv
<1>1. CASE UNCHANGED vars
  <2>1. At("prune")' = At("prune")
    BY <1>1 DEF vars, At
  <2> QED BY <1>1, <2>1 DEF TInv, TypeOK, NoneAhead, vars, Rows, Files
<1>2. ASSUME NEW d \in Docs, UploadStep(d) PROVE TInv'
  <2>1. /\ UNCHANGED <<revision, run, timeVars, copyDue, shelf, refused, trouble>>
        /\ docs' \in [Docs -> SUBSET {"file", "row"}]
    BY <1>0, <1>2, UploadAdds DEF UploadStep, TypeOK
  <2>2. Rows \subseteq Rows' /\ Files \subseteq Files'
    BY <1>0, <1>2, UploadAdds, Grown DEF TypeOK
  <2>3. At("prune")' = At("prune")
    BY <2>1 DEF At
  <2> QED BY <1>0, <2>1, <2>2, <2>3 DEF TInv, TypeOK, NoneAhead
<1>3. ASSUME Migrate PROVE TInv'
  <2>1. /\ UNCHANGED <<docs, run, timeVars, copyDue, shelf, refused, trouble>>
        /\ revision' \in 0..MaxMigrations
    BY <1>0, <1>3, BackupOK DEF Migrate, TypeOK
  <2>2. At("prune")' = At("prune") /\ Rows' = Rows /\ Files' = Files
    BY <2>1 DEF At, Rows, Files
  <2> QED BY <1>0, <2>1, <2>2 DEF TInv, TypeOK, NoneAhead
<1>4. ASSUME Midnight PROVE TInv'
  <2> DEFINE back == IF today + 1 = 2 * Cycle THEN Cycle ELSE 0
  <2>1. /\ back \in {0, Cycle} /\ today + 1 - back \in Cycle..(2 * Cycle - 1)
    BY <1>0, Lengths DEF TypeOK
  <2>2. /\ run' = Idle /\ copyDue' = FALSE /\ due' = TRUE
        /\ UNCHANGED <<docs, revision, refused>> /\ today' = today + 1 - back
        /\ backups' = Renumbered(backups, back) /\ made' = Renumbered(made, back)
        /\ cloud' \subseteq backups' /\ flawed' = Renumbered(flawed, back)
    BY <1>0, <1>4 DEF Midnight, TypeOK
  <2>3. trouble' \in 0..MaxTrouble
    BY <1>0, <1>4, BackupOK DEF Midnight, Trouble, TypeOK
  <2> HIDE DEF back
  <2>4. backups' \cup made' \subseteq Days /\ NoneAhead'
    <3>1. /\ backups \in SUBSET Days /\ made \in SUBSET Days
          /\ \A d \in backups : d <= today
          /\ \A d \in made : d <= today
      BY DEF TInv, TypeOK, NoneAhead
    <3>2. backups' \subseteq Days /\ \A d \in backups' : d <= today'
      BY <1>0, <2>1, <2>2, <3>1, RenumberedDays
    <3>3. made' \subseteq Days /\ \A d \in made' : d <= today'
      BY <1>0, <2>1, <2>2, <3>1, RenumberedDays
    <3> QED BY <3>2, <3>3 DEF NoneAhead
  <2>5. flawed' \subseteq made'
    <3>1. flawed \subseteq made
      BY <1>0 DEF TypeOK
    <3> QED BY <2>2, <3>1 DEF Renumbered
  <2>6. ~At("prune")'
    BY <2>2 DEF At
  <2>7. docs' \in [Docs -> SUBSET {"file", "row"}] /\ revision' \in 0..MaxMigrations
    BY <1>0, <2>2 DEF TypeOK
  <2>8. today' \in Cycle..(2 * Cycle - 1) /\ {due', copyDue', refused'} \subseteq BOOLEAN
    BY <1>0, <2>1, <2>2 DEF TypeOK
  <2> QED BY <2>2, <2>3, <2>4, <2>5, <2>6, <2>7, <2>8 DEF TInv, TypeOK
<1>5. ASSUME Start PROVE TInv'
  <2>1. /\ run' = [at |-> 1, before |-> 0, after |-> 0, dump |-> {}, dumpedAt |-> 0,
                   files |-> {}, revision |-> 0]
        /\ due' = FALSE
        /\ UNCHANGED <<docs, revision, today, copyDue, shelf, refused, trouble>>
    BY <1>5 DEF Start
  <2>2. run' \in RunRecord /\ run'.at = 1 /\ run'.dump = {} /\ run'.files = {}
    BY <2>1, StepsOfARun, BackupOK DEF RunRecord
  <2>3. ~At("prune")'
    <3> HIDE DEF Order
    <3> QED BY <2>2, StepsOfARun DEF At
  <2>4. Rows' = Rows /\ Files' = Files
    BY <2>1 DEF Rows, Files
  <2> QED BY <1>0, <2>1, <2>2, <2>3, <2>4 DEF TInv, TypeOK, NoneAhead
<1>6. ASSUME CountRows \/ Dump \/ Archive \/ Recount PROVE TInv'
  <2>1. InBackup
    BY <1>6 DEF CountRows, Dump, Archive, Recount
  <2>2. run # Idle
    BY <1>0, <1>6, Readings
  <2>3. /\ run' \in RunRecord /\ run'.at # 6
        /\ run'.dump \subseteq Rows /\ run'.files \subseteq Files
    BY <1>0, <1>6, <2>2, Readings, RunHasFields
  <2> QED BY <2>1, <2>3, ReadingKeepsTypes
<1>7. ASSUME Publish PROVE TInv'
  <2>1. /\ run # Idle /\ run.at = 5 /\ run \in RunRecord
        /\ run.dump \subseteq Rows /\ run.files \subseteq Files
    BY <1>0, <1>7, AtStep, RunHasFields DEF Publish
  <2>2. run' = [run EXCEPT !.at = @ + 1]
    BY <1>7 DEF Publish, Wrote
  <2>3. run' \in RunRecord /\ run'.dump = run.dump /\ run'.files = run.files
    BY <2>1, <2>2, StepsOfARun DEF RunRecord
  <2>4. /\ backups' = backups \cup {today} /\ made' = made \cup {today}
        /\ flawed' \subseteq flawed \cup {today}
        /\ UNCHANGED <<docs, revision, timeVars, copyDue, cloud, refused, trouble>>
    BY <1>7 DEF Publish
  <2>5. today \in Days /\ today <= today /\ today \in Int
    BY <1>0, Lengths DEF TypeOK, Days
  <2>6. Rows' = Rows /\ Files' = Files
    BY <2>4 DEF Rows, Files
  <2> QED BY <1>0, <2>1, <2>3, <2>4, <2>5, <2>6 DEF TInv, TypeOK, NoneAhead
<1>8. ASSUME Refuse PROVE TInv'
  <2>1. /\ run' = Idle /\ refused' \in BOOLEAN
        /\ UNCHANGED <<docs, revision, timeVars, copyDue, shelf, trouble>>
    BY <1>0, <1>8 DEF Refuse, TypeOK
  <2>2. ~At("prune")'
    BY <2>1 DEF At
  <2> QED BY <1>0, <2>1, <2>2 DEF TInv, TypeOK, NoneAhead
<1>9. ASSUME Prune PROVE TInv'
  <2>1. PICK late \in BOOLEAN : backups' = Choose(backups, today, late)
    BY <1>9 DEF Prune
  <2>2. /\ run' = Idle /\ copyDue' = TRUE /\ cloud' \subseteq backups'
        /\ UNCHANGED <<docs, revision, timeVars, made, flawed, refused, trouble>>
    BY <1>9 DEF Prune, OnSuccess
  <2>3. /\ today \in backups /\ backups \subseteq Int
        /\ \A d \in backups : d <= today
    BY <1>9, Lengths DEF Prune, TInv, TypeOK, NoneAhead, Days
  <2>4. backups' \subseteq backups /\ today \in backups'
    BY <2>1, <2>3, PruningKeepsNewest
  <2>5. ~At("prune")'
    BY <2>2 DEF At
  <2> QED BY <1>0, <2>2, <2>4, <2>5 DEF TInv, TypeOK, NoneAhead
<1>10. ASSUME Stop PROVE TInv'
  <2>1. /\ run' = Idle /\ trouble' \in 0..MaxTrouble
        /\ UNCHANGED <<docs, revision, timeVars, copyDue, shelf, refused>>
    BY <1>0, <1>10, BackupOK DEF Stop, Trouble, TypeOK
  <2>2. ~At("prune")'
    BY <2>1 DEF At
  <2> QED BY <1>0, <2>1, <2>2 DEF TInv, TypeOK, NoneAhead
<1>11. ASSUME Send \/ SendFails PROVE TInv'
  <2>1. /\ copyDue' = FALSE /\ cloud' \subseteq backups /\ trouble' \in 0..MaxTrouble
        /\ UNCHANGED <<docs, revision, run, timeVars, backups, made, flawed, refused>>
    BY <1>0, <1>11, BackupOK DEF Send, SendFails, Trouble, Newest, TypeOK
  <2>2. At("prune")' = At("prune") /\ Rows' = Rows /\ Files' = Files
    BY <2>1 DEF At, Rows, Files
  <2> QED BY <1>0, <2>1, <2>2 DEF TInv, TypeOK, NoneAhead
<1> QED BY <1>1, <1>2, <1>3, <1>4, <1>5, <1>6, <1>7, <1>8, <1>9, <1>10, <1>11
       DEF Next, RunStep

\* What a run has read is still there, and what is pruned or sent off the
\* server has been published before, in every reachable state (rto-backup.sh).
THEOREM BackupTyped == Spec => []TypeOK
<1>1. TInv => TypeOK
  BY DEF TInv
<1> QED BY <1>1, InitTInv, NextTInv, PTL DEF Spec

------------------------------------------------------------------------------
(* Whole backups *)

\* A document has its whole file before it has its row; of those whose file was
\* never here there is only the row.
FileBeforeRow ==
  \A d \in Docs : /\ d \in Missing => docs[d] = {"row"}
                  /\ d \notin Missing /\ "row" \in docs[d] => "file" \in docs[d]

\* What the run counted bounds what it dumped, and what it dumped is archived.
RunInStep ==
  run # Idle =>
    /\ run.at = 2 => run.before <= Cardinality(Rows)
    /\ run.at > 2 => run.before <= Cardinality(run.dump)
    /\ run.at > 3 => run.dump \subseteq run.files \cup Missing
    /\ run.at > 4 => Cardinality(run.dump) <= run.after

Unspoilt == flawed = {} /\ refused = FALSE

BInv == TInv /\ FileBeforeRow /\ RunInStep /\ Unspoilt

LEMMA InitBInv == Init => BInv
<1> SUFFICES ASSUME Init PROVE BInv
  OBVIOUS
<1>1. TInv
  BY InitTInv
<1>2. FileBeforeRow
  BY BackupOK DEF Init, FileBeforeRow
<1>3. RunInStep /\ Unspoilt
  BY DEF Init, RunInStep, Unspoilt
<1> QED BY <1>1, <1>2, <1>3 DEF BInv

\* More documents have rows as time goes by.
LEMMA MoreRows ==
  ASSUME Rows \subseteq Rows'
  PROVE  Cardinality(Rows) <= Cardinality(Rows')
<1>1. Rows' \in SUBSET Docs /\ IsFiniteSet(Rows')
  BY BackupOK, FS_Subset DEF Rows
<1> QED BY <1>1, FS_Subset

\* Of what was dumped, only documents without any file can be missing from the
\* archive, so the verification finds nothing lacking.
LEMMA NothingLacks ==
  ASSUME FileBeforeRow, run.dump \subseteq run.files \cup Missing
  PROVE  Lacking = {}
<1>1. Missing \cap Files = {}
  BY DEF FileBeforeRow, Files
<1> QED BY <1>1 DEF Lacking

\* A verification fails only if the revision of the dump was left behind.
LEMMA VerifiedUnlessMigrated ==
  ASSUME BInv, At("verify"), run.revision = run.dumpedAt
  PROVE  Verified
<1>1. run # Idle /\ run.at = 5 /\ run \in RunRecord /\ run.dump \subseteq Docs
  BY AtStep, RunHasFields DEF BInv, TInv, Rows
<1>2. /\ run.before <= Cardinality(run.dump) /\ Cardinality(run.dump) <= run.after
      /\ run.dump \subseteq run.files \cup Missing
  BY <1>1 DEF BInv, RunInStep
<1>3. Cardinality(run.dump) \in Nat /\ run.before \in Nat /\ run.after \in Nat
  BY <1>1, RowsAreFinite DEF RunRecord
<1>4. Lacking = {}
  BY <1>2, NothingLacks DEF BInv
<1> QED BY <1>2, <1>3, <1>4 DEF Verified

LEMMA NextBInv == BInv /\ [Next]_vars => BInv'
<1> SUFFICES ASSUME BInv, [Next]_vars PROVE BInv'
  OBVIOUS
<1> USE DEF timeVars, shelf
<1>0. TInv' /\ TInv /\ TypeOK
  BY NextTInv DEF BInv, TInv
<1> SUFFICES FileBeforeRow' /\ RunInStep' /\ Unspoilt'
  BY <1>0 DEF BInv
<1>1. ASSUME UNCHANGED <<docs, run, refused>>, flawed' = {}
      PROVE  FileBeforeRow' /\ RunInStep' /\ Unspoilt'
  BY <1>1 DEF BInv, FileBeforeRow, RunInStep, Unspoilt, Rows
<1>2. ASSUME UNCHANGED <<docs, flawed, refused>>, run' = Idle
      PROVE  FileBeforeRow' /\ RunInStep' /\ Unspoilt'
  BY <1>2 DEF BInv, FileBeforeRow, RunInStep, Unspoilt
<1>3. ASSUME UNCHANGED <<docs, flawed, refused>>, RunInStep'
      PROVE  FileBeforeRow' /\ RunInStep' /\ Unspoilt'
  BY <1>3 DEF BInv, FileBeforeRow, Unspoilt
<1>4. CASE UNCHANGED vars
  BY <1>1, <1>4 DEF vars, BInv, Unspoilt
<1>5. ASSUME NEW d \in Docs, UploadStep(d)
      PROVE  FileBeforeRow' /\ RunInStep' /\ Unspoilt'
  <2>1. /\ UNCHANGED <<run, flawed, refused>> /\ d \notin Missing
        /\ docs \in [Docs -> SUBSET {"file", "row"}]
    BY <1>0, <1>5 DEF UploadStep, TypeOK
  <2>2. /\ docs[d] = {} => docs'[d] = {"file"}
        /\ docs[d] = {"file"} => docs'[d] = {"file", "row"}
        /\ docs[d] # {"file", "row"}
        /\ docs' = [docs EXCEPT ![d] = docs'[d]]
    BY <1>5, <2>1, UploadAdds
  <2>3. docs[d] = {} \/ docs[d] = {"file"}
    <3>1. docs[d] \subseteq {"file", "row"} /\ ("row" \in docs[d] => "file" \in docs[d])
      BY <2>1 DEF BInv, FileBeforeRow
    <3> QED BY <2>2, <3>1
  <2>4. FileBeforeRow'
    BY <2>1, <2>2, <2>3 DEF BInv, FileBeforeRow
  <2>5. RunInStep'
    <3>1. Rows \subseteq Rows'
      BY <1>5, <2>1, UploadAdds, Grown
    <3>2. Cardinality(Rows) <= Cardinality(Rows') /\ Cardinality(Rows) \in Nat
          /\ Cardinality(Rows') \in Nat
      <4>1. Rows' \in SUBSET Docs
        BY DEF Rows
      <4> QED BY <3>1, <4>1, MoreRows, RowsAreFinite
    <3>3. run # Idle => run.before \in Nat
      BY <1>0, RunHasFields DEF RunRecord
    <3> QED BY <2>1, <3>2, <3>3 DEF BInv, RunInStep
  <2> QED BY <2>1, <2>4, <2>5 DEF BInv, Unspoilt
<1>6. ASSUME Migrate PROVE FileBeforeRow' /\ RunInStep' /\ Unspoilt'
  BY <1>1, <1>6 DEF Migrate, BInv, Unspoilt
<1>7. ASSUME Midnight PROVE FileBeforeRow' /\ RunInStep' /\ Unspoilt'
  <2>1. flawed' = {}
    BY <1>7 DEF Midnight, BInv, Unspoilt, Renumbered
  <2> QED BY <1>1, <1>7, <2>1 DEF Midnight
<1>8. ASSUME Start PROVE FileBeforeRow' /\ RunInStep' /\ Unspoilt'
  <2>1. UNCHANGED <<docs, flawed, refused>> /\ run'.at = 1
    BY <1>8 DEF Start
  <2>2. RunInStep'
    BY <2>1 DEF RunInStep
  <2> QED BY <1>3, <2>1, <2>2
<1>9. ASSUME CountRows PROVE FileBeforeRow' /\ RunInStep' /\ Unspoilt'
  <2>1. run'.at = 2 /\ run'.before = Cardinality(Rows) /\ UNCHANGED <<docs, flawed, refused>>
    BY <1>0, <1>9, Readings DEF CountRows, InBackup
  <2>2. Cardinality(Rows') = Cardinality(Rows) /\ Cardinality(Rows) \in Nat
    BY <2>1, RowsAreFinite DEF Rows
  <2>3. RunInStep'
    BY <2>1, <2>2 DEF RunInStep
  <2> QED BY <1>3, <2>1, <2>3
<1>10. ASSUME Dump PROVE FileBeforeRow' /\ RunInStep' /\ Unspoilt'
  <2>1. /\ run # Idle /\ run.at = 2 /\ run'.at = 3 /\ run'.before = run.before
        /\ run'.dump = Rows /\ UNCHANGED <<docs, flawed, refused>>
    BY <1>0, <1>10, Readings DEF Dump, InBackup
  <2>2. run.before <= Cardinality(Rows)
    BY <2>1 DEF BInv, RunInStep
  <2>3. RunInStep'
    BY <2>1, <2>2 DEF RunInStep
  <2> QED BY <1>3, <2>1, <2>3
<1>11. ASSUME Archive PROVE FileBeforeRow' /\ RunInStep' /\ Unspoilt'
  <2>1. /\ run # Idle /\ run.at = 3 /\ run'.at = 4 /\ run'.before = run.before
        /\ run'.dump = run.dump /\ run'.files = Files /\ UNCHANGED <<docs, flawed, refused>>
    BY <1>0, <1>11, Readings DEF Archive, InBackup
  <2>2. run.before <= Cardinality(run.dump) /\ run.dump \subseteq Rows
    BY <1>0, <2>1, RunHasFields DEF BInv, RunInStep
  <2>3. Rows \subseteq Files \cup Missing
    BY DEF BInv, FileBeforeRow, Rows, Files
  <2>4. RunInStep'
    BY <2>1, <2>2, <2>3 DEF RunInStep
  <2> QED BY <1>3, <2>1, <2>4
<1>12. ASSUME Recount PROVE FileBeforeRow' /\ RunInStep' /\ Unspoilt'
  <2>1. /\ run # Idle /\ run.at = 4 /\ run'.at = 5 /\ run'.before = run.before
        /\ run'.after = Cardinality(Rows) /\ run'.dump = run.dump /\ run'.files = run.files
        /\ UNCHANGED <<docs, flawed, refused>>
    BY <1>0, <1>12, Readings DEF Recount, InBackup
  <2>2. /\ run.before <= Cardinality(run.dump) /\ run.dump \subseteq Rows
        /\ run.dump \subseteq run.files \cup Missing
    BY <1>0, <2>1, RunHasFields DEF BInv, RunInStep
  <2>3. Cardinality(run.dump) <= Cardinality(Rows)
    BY <2>2, BackupOK, FS_Subset DEF Rows
  <2>4. RunInStep'
    BY <2>1, <2>2, <2>3 DEF RunInStep
  <2> QED BY <1>3, <2>1, <2>4
<1>13. ASSUME Publish PROVE FileBeforeRow' /\ RunInStep' /\ Unspoilt'
  <2>1. run # Idle /\ run.at = 5 /\ run \in RunRecord
    BY <1>0, <1>13, AtStep, RunHasFields DEF Publish
  <2>2. run' = [run EXCEPT !.at = @ + 1] /\ UNCHANGED <<docs, refused>>
    BY <1>13 DEF Publish, Wrote
  <2>3. /\ run'.at = 6 /\ run'.before = run.before /\ run'.after = run.after
        /\ run'.dump = run.dump /\ run'.files = run.files
    BY <2>1, <2>2 DEF RunRecord
  <2>4. /\ run.before <= Cardinality(run.dump) /\ Cardinality(run.dump) <= run.after
        /\ run.dump \subseteq run.files \cup Missing
    BY <2>1 DEF BInv, RunInStep
  <2>5. RunInStep'
    BY <2>3, <2>4 DEF RunInStep
  <2>6. flawed' = flawed
    BY <1>13, <2>4 DEF Publish
  <2> QED BY <1>3, <2>2, <2>5, <2>6
<1>14. ASSUME Refuse PROVE FileBeforeRow' /\ RunInStep' /\ Unspoilt'
  <2>1. run.revision # run.dumpedAt
    BY <1>14, VerifiedUnlessMigrated DEF Refuse
  <2>2. UNCHANGED <<docs, flawed, refused>> /\ run' = Idle
    BY <1>14, <2>1 DEF Refuse, BInv, Unspoilt
  <2> QED BY <1>2, <2>2
<1>15. ASSUME Prune \/ Stop PROVE FileBeforeRow' /\ RunInStep' /\ Unspoilt'
  BY <1>2, <1>15 DEF Prune, Stop
<1>16. ASSUME Send \/ SendFails PROVE FileBeforeRow' /\ RunInStep' /\ Unspoilt'
  BY <1>1, <1>16 DEF Send, SendFails, BInv, Unspoilt
<1> QED BY <1>4, <1>5, <1>6, <1>7, <1>8, <1>9, <1>10, <1>11, <1>12, <1>13, <1>14, <1>15,
           <1>16 DEF Next, RunStep

\* No backup is published that has the row of a document without its whole file,
\* except for files that were never on this server, whatever uploads and
\* migrations run beside it (rto-backup.sh:16).
THEOREM BackupsAreWhole == Spec => []EveryRowHasItsFile
<1>1. BInv => EveryRowHasItsFile
  BY DEF BInv, Unspoilt, EveryRowHasItsFile
<1> QED BY <1>1, InitBInv, NextBInv, PTL DEF Spec

\* The verification refuses a backup only if the database was migrated under it
\* (rto-backup-verify.sh:33-56).
THEOREM UploadsDoNotSpoil == Spec => []RefusesOnlyMigrations
<1>1. BInv => RefusesOnlyMigrations
  BY DEF BInv, Unspoilt, RefusesOnlyMigrations
<1> QED BY <1>1, InitBInv, NextBInv, PTL DEF Spec

------------------------------------------------------------------------------
(* What pruning keeps *)

\* No backup is there that was not made, and if one was made, one is there.
Shelved == backups \subseteq made /\ (made # {} => backups # {})

KInv == TInv /\ Shelved /\ KeepsWhatIsOwed

LEMMA Scaled ==
  ASSUME NEW a \in Int, NEW b \in Int, NEW n \in Nat, a <= b
  PROVE  a * n <= b * n
OBVIOUS

\* The period of a day, and where it begins.
LEMMA PeriodOf ==
  ASSUME NEW d \in Int, NEW n \in Nat \ {0}
  PROVE  LET q == Period(d, n) IN
         q \in Int /\ q * n \in Int /\ q * n <= d /\ d < q * n + n
<1>1. d \div n \in Int /\ (d \div n) * n <= d /\ d < (d \div n) * n + n
  OBVIOUS
<1>2. (d \div n) * n \in Int
  BY <1>1
<1> QED BY <1>1, <1>2 DEF Period

LEMMA OnePeriod ==
  ASSUME NEW d \in Int, NEW n \in Nat \ {0}, NEW q \in Int,
         q * n <= d, d < q * n + n
  PROVE  Period(d, n) = q
<1>1. PICK p \in Int : p = Period(d, n) /\ p * n <= d /\ d < p * n + n
  BY PeriodOf
<1>2. p * n \in Int /\ q * n \in Int
  BY <1>1
<1>3. ASSUME p < q PROVE FALSE
  <2>1. (p + 1) * n <= q * n
    BY <1>1, <1>3, Scaled
  <2>2. (p + 1) * n = p * n + n
    BY <1>1
  <2> QED BY <1>1, <1>2, <2>1, <2>2
<1>4. ASSUME q < p PROVE FALSE
  <2>1. (q + 1) * n <= p * n
    BY <1>1, <1>4, Scaled
  <2>2. (q + 1) * n = q * n + n
    BY <1>1
  <2> QED BY <1>1, <1>2, <2>1, <2>2
<1> QED BY <1>1, <1>3, <1>4

\* Whole periods back, a day is in the period as many before, as far from its
\* beginning.
LEMMA PeriodBack ==
  ASSUME NEW d \in Int, NEW n \in Nat \ {0}, NEW k \in Nat
  PROVE  /\ Period(d - k * n, n) = Period(d, n) - k
         /\ Period(d - k * n, n) * n = Period(d, n) * n - k * n
<1>1. PICK q \in Int : q = Period(d, n) /\ q * n <= d /\ d < q * n + n
  BY PeriodOf
<1>2. (q - k) * n = q * n - k * n /\ q * n \in Int /\ k * n \in Int
  BY <1>1
<1>3. Period(d - k * n, n) = q - k
  <2>1. d - k * n \in Int /\ q - k \in Int
    BY <1>1, <1>2
  <2>2. (q - k) * n <= d - k * n /\ d - k * n < (q - k) * n + n
    BY <1>1, <1>2
  <2> QED BY <2>1, <2>2, OnePeriod
<1> QED BY <1>1, <1>2, <1>3

\* A cycle is whole weeks and whole months.
LEMMA WholePeriods ==
  ASSUME NEW back \in {0, Cycle}, NEW n \in {WeekLength, MonthLength}
  PROVE  n \in Nat \ {0} /\ \E k \in Nat : back = k * n
<1>1. WeekLength \in Nat \ {0} /\ MonthLength \in Nat \ {0}
  BY RetentionOK
<1>2. CASE back = 0
  <2>1. 0 = 0 * n
    BY <1>1
  <2> QED BY <1>1, <1>2, <2>1
<1>3. CASE back = Cycle
  <2>1. Cycle = MonthLength * WeekLength /\ Cycle = WeekLength * MonthLength
    BY <1>1 DEF Cycle
  <2> QED BY <1>1, <1>3, <2>1
<1> QED BY <1>2, <1>3

\* The days as they are numbered from midnight on.
Floor(now) == now - Horizon
NewDay(d, now, back) == IF d - back < Floor(now) THEN Floor(now) ELSE d - back

LEMMA NewDays ==
  ASSUME NEW days \in SUBSET Int, NEW back \in Int, NEW now,
         today \in Int, now = today + 1 - back
  PROVE  \A x : x \in Renumbered(days, back) <=>
                 \E d \in days : x = NewDay(d, now, back)
<1>1. ASSUME NEW d \in days
      PROVE  NewDay(d, now, back) = IF d - back < today + 1 - back - Horizon
                                    THEN today + 1 - back - Horizon ELSE d - back
  <2>1. Floor(now) = today + 1 - back - Horizon
    BY Lengths DEF Floor
  <2> QED BY <2>1 DEF NewDay
<1> HIDE DEF NewDay
<1> QED BY <1>1 DEF Renumbered
\* What midnight asks for was owed the day before, and has its new number.
LEMMA FirstsBefore ==
  ASSUME NEW days \in SUBSET Int, NEW back \in {0, Cycle}, NEW now,
         today \in Int, now = today + 1 - back,
         NEW limit \in Nat, limit < Horizon, NEW n \in {WeekLength, MonthLength},
         NEW x \in Firsts(Renumbered(days, back), now, limit, n)
  PROVE  \E d \in Firsts(days, today, limit, n) : x = NewDay(d, now, back)
<1> DEFINE new(d) == NewDay(d, now, back)
<1>1. PICK k \in Nat : back = k * n /\ back \in Int /\ n \in Nat \ {0}
  BY WholePeriods, Lengths
<1>2. /\ Floor(now) \in Int /\ now \in Int
      /\ Floor(now) = now - Horizon /\ Horizon \in Nat
  BY <1>1, Lengths DEF Floor
<1>3. PICK d \in days : x = new(d)
  BY <1>1, NewDays DEF Firsts
<1>4. x \in Int
  BY <1>1, <1>2, <1>3 DEF NewDay
<1>5. PICK q \in Int : /\ q = Period(x, n) /\ q * n \in Int
                       /\ q * n <= x /\ x < q * n + n
  BY <1>1, <1>4, PeriodOf
<1>6. now - q * n < limit
  BY <1>5 DEF Firsts
<1>7. Floor(now) < q * n
  BY <1>2, <1>5, <1>6
<1>8. x = d - back
  BY <1>1, <1>2, <1>3, <1>5, <1>7 DEF NewDay
<1>9. /\ Period(d, n) \in Int /\ Period(d, n) * n \in Int
      /\ q = Period(d, n) - k /\ q * n = Period(d, n) * n - back
  <2>1. Period(d, n) \in Int /\ Period(d, n) * n \in Int
    BY <1>1, PeriodOf
  <2>2. x = d - k * n
    BY <1>1, <1>8
  <2>3. /\ Period(d - k * n, n) = Period(d, n) - k
        /\ Period(d - k * n, n) * n = Period(d, n) * n - k * n
    BY <1>1, PeriodBack
  <2> QED BY <1>1, <1>5, <2>1, <2>2, <2>3
<1>10. today - Period(d, n) * n < limit
  BY <1>1, <1>5, <1>6, <1>9
<1>11. ASSUME NEW e \in days, Period(e, n) = Period(d, n) PROVE d <= e
  <2>1. Period(d, n) * n <= e
    BY <1>1, <1>11, PeriodOf
  <2>2. Floor(now) < e - back
    BY <1>1, <1>2, <1>5, <1>7, <1>9, <2>1
  <2>3. new(e) = e - back
    <3>1. e - back \in Int
      BY <1>1
    <3>2. ~(e - back < Floor(now))
      BY <1>2, <2>2, <3>1
    <3> QED BY <3>2 DEF NewDay
  <2>4. Period(e - back, n) = q
    <3>1. Period(e - k * n, n) = Period(e, n) - k
      BY <1>1, PeriodBack
    <3> QED BY <1>1, <1>9, <1>11, <3>1
  <2>5. e - back \in Renumbered(days, back)
    BY <1>1, <2>3, NewDays
  <2>6. x <= e - back
    BY <1>5, <2>4, <2>5 DEF Firsts
  <2> QED BY <1>1, <1>8, <2>6
<1>12. d \in Firsts(days, today, limit, n)
  BY <1>10, <1>11 DEF Firsts
<1> QED BY <1>3, <1>12

LEMMA DailyBefore ==
  ASSUME NEW days \in SUBSET Int, NEW back \in Int, NEW now,
         today \in Int, now = today + 1 - back,
         NEW x \in Renumbered(days, back), now - x < DailyDays
  PROVE  \E d \in days : today - d < DailyDays /\ x = NewDay(d, now, back)
<1>1. PICK d \in days : x = NewDay(d, now, back)
  BY NewDays
<1>2. Horizon \in Nat /\ DailyDays \in Nat /\ DailyDays < Horizon
  BY Lengths, RetentionOK
<1>3. x = d - back
  BY <1>1, <1>2 DEF NewDay, Floor
<1>4. today - d < DailyDays
  BY <1>2, <1>3
<1> QED BY <1>1, <1>4

\* The newest backup is the newest made, under its new number.
LEMMA NewestBefore ==
  ASSUME NEW days \in SUBSET Int, NEW kept \in SUBSET days, kept # {},
         Newest(days) \subseteq kept,
         NEW back \in Int, NEW now, today \in Int, now = today + 1 - back,
         NEW x \in Newest(Renumbered(days, back))
  PROVE  \E d \in kept : x = NewDay(d, now, back)
<1> DEFINE new(d) == NewDay(d, now, back)
<1>1. PICK d \in days : x = new(d)
  BY NewDays DEF Newest
<1>2. \A e \in days : new(e) <= x
  <2>1. \A e \in days : new(e) \in Renumbered(days, back)
    BY NewDays
  <2> HIDE DEF new
  <2> QED BY <2>1 DEF Newest
<1>3. Floor(now) \in Int /\ \A e \in days : e \in Int
  BY Lengths DEF Floor
<1>4. CASE x = Floor(now)
  <2>1. PICK e \in kept : TRUE
    OBVIOUS
  <2>2. new(e) <= x
    BY <1>2
  <2>3. new(e) = x
    BY <1>3, <1>4, <2>2 DEF NewDay
  <2> QED BY <2>1, <2>3
<1>5. CASE x # Floor(now)
  <2>1. x = d - back /\ Floor(now) < x
    BY <1>1, <1>3, <1>5 DEF NewDay
  <2>2. \A e \in days : e <= d
    BY <1>2, <1>3, <2>1 DEF NewDay
  <2>3. d \in kept
    BY <2>2 DEF Newest
  <2> QED BY <1>1, <2>3
<1> QED BY <1>4, <1>5

\* Renumbering the days, a day later, nothing new is owed.
LEMMA OwedAtMidnight ==
  ASSUME NEW days \in SUBSET Int, NEW kept \in SUBSET days,
         days # {} => kept # {}, Owed(days, today) \subseteq kept,
         NEW back \in {0, Cycle}, NEW now, today \in Int, now = today + 1 - back
  PROVE  Owed(Renumbered(days, back), now) \subseteq Renumbered(kept, back)
<1> SUFFICES ASSUME NEW x \in Owed(Renumbered(days, back), now)
             PROVE  \E d \in kept : x = NewDay(d, now, back)
  BY NewDays, Lengths
<1>1. back \in Int
  BY Lengths
<1>2. CASE x \in Newest(Renumbered(days, back))
  <2>1. kept # {} /\ Newest(days) \subseteq kept
    BY <1>2 DEF Newest, Renumbered, Owed
  <2> QED BY <1>1, <1>2, <2>1, NewestBefore
<1>3. CASE x \in Within(Renumbered(days, back), now, DailyDays, TRUE)
  <2>1. x \in Renumbered(days, back) /\ now - x < DailyDays
    BY <1>3 DEF Within
  <2>2. PICK d \in days : today - d < DailyDays /\ x = NewDay(d, now, back)
    BY <1>1, <2>1, DailyBefore
  <2>3. d \in kept
    BY <2>2 DEF Within, Owed
  <2> QED BY <2>2, <2>3
<1>4. CASE x \in Firsts(Renumbered(days, back), now, WeeklyDays, WeekLength)
  <2>1. \E d \in Firsts(days, today, WeeklyDays, WeekLength) : x = NewDay(d, now, back)
    BY <1>4, FirstsBefore, Lengths, RetentionOK
  <2>2. Firsts(days, today, WeeklyDays, WeekLength) \subseteq kept
    BY DEF Owed
  <2> QED BY <2>1, <2>2
<1>5. CASE x \in Firsts(Renumbered(days, back), now, MonthlyDays, MonthLength)
  <2>1. \E d \in Firsts(days, today, MonthlyDays, MonthLength) : x = NewDay(d, now, back)
    BY <1>5, FirstsBefore, Lengths, RetentionOK
  <2>2. Firsts(days, today, MonthlyDays, MonthLength) \subseteq kept
    BY DEF Owed
  <2> QED BY <2>1, <2>2
<1> QED BY <1>2, <1>3, <1>4, <1>5 DEF Owed

\* Pruning keeps what is owed, on either side of each limit.
LEMMA OwedAfterPruning ==
  ASSUME NEW days \in SUBSET Int, NEW kept \in SUBSET days, today \in Int,
         Owed(days, today) \subseteq kept, NEW late \in BOOLEAN
  PROVE  Owed(days, today) \subseteq Choose(kept, today, late)
<1>1. Newest(days) \subseteq Choose(kept, today, late)
  BY DEF Newest, Owed, Choose
<1>2. Within(days, today, DailyDays, TRUE) \subseteq Choose(kept, today, late)
  BY RetentionOK DEF Within, Owed, Choose
<1>3. ASSUME NEW limit \in Nat, NEW n \in Nat \ {0},
             Firsts(days, today, limit, n) \subseteq kept
      PROVE  Firsts(days, today, limit, n)
               \subseteq OldestOfEach(Within(kept, today, limit, late), n)
  <2> SUFFICES ASSUME NEW d \in Firsts(days, today, limit, n)
               PROVE  d \in OldestOfEach(Within(kept, today, limit, late), n)
    OBVIOUS
  <2>1. d \in kept /\ d \in Int
    BY <1>3 DEF Firsts
  <2>2. today - d < limit
    BY <2>1, PeriodOf DEF Firsts
  <2>3. \A e \in kept : Period(e, n) = Period(d, n) => d <= e
    BY DEF Firsts
  <2> QED BY <2>1, <2>2, <2>3 DEF OldestOfEach, Within
<1>4. Firsts(days, today, WeeklyDays, WeekLength) \subseteq Choose(kept, today, late)
  BY <1>3, RetentionOK DEF Owed, Choose
<1>5. Firsts(days, today, MonthlyDays, MonthLength) \subseteq Choose(kept, today, late)
  BY <1>3, RetentionOK DEF Owed, Choose
<1> QED BY <1>1, <1>2, <1>4, <1>5 DEF Owed

\* A backup made today is kept, and takes nothing's place but the newest's.
LEMMA OwedAfterPublishing ==
  ASSUME NEW days \in SUBSET Int, NEW kept \in SUBSET days, today \in Int,
         \A d \in days : d <= today, Owed(days, today) \subseteq kept
  PROVE  Owed(days \cup {today}, today) \subseteq kept \cup {today}
<1> DEFINE more == days \cup {today}
<1>1. Newest(more) \subseteq {today}
  <2> SUFFICES ASSUME NEW d \in Newest(more) PROVE d = today
    OBVIOUS
  <2>1. d \in more /\ today <= d
    BY DEF Newest
  <2>2. d \in Int /\ d <= today
    BY <2>1
  <2> QED BY <2>1, <2>2
<1>2. Within(more, today, DailyDays, TRUE) \subseteq kept \cup {today}
  BY DEF Within, Owed
<1>3. ASSUME NEW limit, NEW n
      PROVE  Firsts(more, today, limit, n) \subseteq Firsts(days, today, limit, n) \cup {today}
  BY DEF Firsts
<1>4. /\ Firsts(days, today, WeeklyDays, WeekLength) \subseteq kept
      /\ Firsts(days, today, MonthlyDays, MonthLength) \subseteq kept
  BY DEF Owed
<1> QED BY <1>1, <1>2, <1>3, <1>4 DEF Owed

LEMMA InitKInv == Init => KInv
BY InitTInv DEF Init, KInv, Shelved, KeepsWhatIsOwed, Owed, Newest, Within, Firsts

LEMMA NextKInv == KInv /\ [Next]_vars => KInv'
<1> SUFFICES ASSUME KInv, [Next]_vars PROVE Shelved' /\ KeepsWhatIsOwed'
  BY NextTInv DEF KInv
<1> USE DEF timeVars, shelf
<1>1. /\ TypeOK /\ today \in Int /\ made \in SUBSET Int /\ backups \in SUBSET made
      /\ made # {} => backups # {}
      /\ \A d \in made : d <= today
      /\ Owed(made, today) \subseteq backups
  <2>1. /\ TypeOK /\ backups \in SUBSET made
        /\ made # {} => backups # {}
        /\ \A d \in made : d <= today
        /\ Owed(made, today) \subseteq backups
    BY DEF KInv, TInv, NoneAhead, Shelved, KeepsWhatIsOwed
  <2>2. today \in Int
    <3>1. today \in Cycle..(2 * Cycle - 1) /\ Cycle \in Int
      BY <2>1, Lengths DEF TypeOK
    <3> QED BY <3>1
  <2>3. Days \subseteq Int
    BY Lengths DEF Days
  <2>4. made \in SUBSET Int
    <3>1. made \subseteq Days
      BY <2>1 DEF TypeOK
    <3> QED BY <2>3, <3>1
  <2> QED BY <2>1, <2>2, <2>4
<1>2. ASSUME UNCHANGED <<today, backups, made>> PROVE Shelved' /\ KeepsWhatIsOwed'
  BY <1>2 DEF KInv, Shelved, KeepsWhatIsOwed
<1>3. CASE Publish
  <2>1. /\ today' = today /\ backups' = backups \cup {today}
        /\ made' = made \cup {today}
    BY <1>3 DEF Publish
  <2>2. Owed(made \cup {today}, today) \subseteq backups \cup {today}
    BY <1>1, OwedAfterPublishing
  <2> QED BY <1>1, <2>1, <2>2 DEF Shelved, KeepsWhatIsOwed
<1>4. CASE Prune
  <2>1. PICK late \in BOOLEAN : backups' = Choose(backups, today, late)
    BY <1>4 DEF Prune
  <2>2. today' = today /\ made' = made /\ today \in backups
    BY <1>1, <1>4 DEF Prune, TypeOK
  <2>3. Owed(made, today) \subseteq backups'
    BY <1>1, <2>1, OwedAfterPruning
  <2>4. backups' \subseteq backups /\ today \in backups'
    BY <1>1, <2>1, <2>2, PruningKeepsNewest
  <2> QED BY <1>1, <2>2, <2>3, <2>4 DEF Shelved, KeepsWhatIsOwed
<1>5. CASE Midnight
  <2> DEFINE back == IF today + 1 = 2 * Cycle THEN Cycle ELSE 0
  <2>1. /\ back \in {0, Cycle} /\ today' = today + 1 - back
        /\ backups' = Renumbered(backups, back) /\ made' = Renumbered(made, back)
    BY <1>5 DEF Midnight
  <2> HIDE DEF back
  <2>2. Owed(made', today') \subseteq backups'
    BY <1>1, <2>1, OwedAtMidnight
  <2>3. backups' \subseteq made' /\ (made' # {} => backups' # {})
    BY <1>1, <2>1 DEF Renumbered
  <2> QED BY <2>2, <2>3 DEF Shelved, KeepsWhatIsOwed
<1>6. ASSUME NEW d \in Docs, UploadStep(d) PROVE UNCHANGED <<today, backups, made>>
  BY <1>6 DEF UploadStep
<1>7. CASE Migrate \/ Start \/ Stop \/ Refuse
  BY <1>2, <1>7 DEF Migrate, Start, Stop, Refuse
<1>8. CASE CountRows \/ Dump \/ Archive \/ Recount
  BY <1>2, <1>8 DEF CountRows, Dump, Archive, Recount, InBackup
<1>9. CASE Send \/ SendFails
  BY <1>2, <1>9 DEF Send, SendFails
<1>10. CASE UNCHANGED vars
  BY <1>2, <1>10 DEF vars
<1> QED BY <1>2, <1>3, <1>4, <1>5, <1>6, <1>7, <1>8, <1>9, <1>10 DEF Next, RunStep

\* The newest backup, all of the last days and the oldest that was made of each
\* week and month in the window are there, whichever nights had no run, however
\* often the others pruned, on whatever calendar (choose).
THEOREM OwedBackupsStay == Spec => []KeepsWhatIsOwed
<1>1. KInv => KeepsWhatIsOwed
  BY DEF KInv
<1> QED BY <1>1, InitKInv, NextKInv, PTL DEF Spec
=============================================================================
