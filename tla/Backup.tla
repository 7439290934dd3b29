------------------------------- MODULE Backup -------------------------------
(***************************************************************************)
(* The nightly backup, beside the uploads and migrations it runs with: the *)
(* database is dumped, the receipts are archived, the copy is restored and *)
(* compared, published, old copies are pruned, and the newest is sent off  *)
(* the server.  Each command of rto-backup.sh is a step.  A run may stop   *)
(* anywhere; what it leaves under .partial_* no other command reads.       *)
(***************************************************************************)
EXTENDS Retention, SequencesExt

CONSTANTS
  Docs,           \* documents uploaded
  Missing,        \* documents whose file was never on this server
  MaxMigrations,  \* bound: migrations of the database
  MaxTrouble      \* bound: runs that fail or crash, uploads off the server
                  \* that fail, nights the machine is off

ASSUME BackupOK ==
  /\ IsFiniteSet(Docs) /\ Missing \subseteq Docs
  /\ MaxMigrations \in Nat /\ MaxTrouble \in Nat

VARIABLES
  docs,       \* of each document, whether its whole file and its row exist
  revision,   \* alembic_version of the database
  run,        \* the backup that runs, under the lock, or Idle
  due,        \* the timer owes tonight's run
  copyDue,    \* rto-backup-offsite.service is to run
  today,      \* the day, from the start of a calendar that repeats
  backups,    \* the days of the rto_* directories
  cloud,      \* the days of those that have a copy off the server
  made,       \* ghost: the days of all backups published in the window
  flawed,     \* ghost: days whose backup lacks a file it should have
  refused,    \* ghost: a verification failed without a migration
  trouble     \* troubles so far

timeVars == <<today, due>>
shelf == <<backups, cloud, made, flawed>>
vars == <<docs, revision, run, timeVars, copyDue, shelf, refused, trouble>>

Files == {d \in Docs : "file" \in docs[d]}
Rows  == {d \in Docs : "row" \in docs[d]}

------------------------------------------------------------------------------
(* Uploads and migrations *)

\* Fault: the row is committed before the file is complete.
RowFirst == <<"row", "file">>

\* save_uploaded_file writes the file, the handler commits the row.
UploadOrder == <<"file", "row">>

UploadStep(d) ==
  /\ d \notin Missing /\ docs[d] # {"file", "row"}
  /\ docs' = [docs EXCEPT ![d] = @ \cup {UploadOrder[Cardinality(@) + 1]}]
  /\ UNCHANGED <<revision, run, timeVars, copyDue, shelf, refused, trouble>>

Migrate ==
  /\ revision < MaxMigrations /\ revision' = revision + 1
  /\ UNCHANGED <<docs, run, timeVars, copyDue, shelf, refused, trouble>>

------------------------------------------------------------------------------
(* A run *)

Idle == [at |-> 0]

\* Fault: the receipts are archived before the database is dumped.
ArchiveFirst == <<"count", "archive", "dump", "recount", "verify", "prune">>

\* Fault: pruning comes before publishing.
PruneFirst == <<"count", "dump", "archive", "recount", "prune", "verify">>

\* Fault: both counts are taken before the dump.
RecountEarly == <<"count", "recount", "dump", "archive", "verify", "prune">>

Order == <<"count", "dump", "archive", "recount", "verify", "prune">>

At(step) == run # Idle /\ Order[run.at] = step

\* The step is done and wrote a field of the backup.
Wrote(r) == run' = [r EXCEPT !.at = @ + 1]

InBackup == UNCHANGED <<docs, revision, timeVars, copyDue, shelf, refused, trouble>>

\* The timer, or the operator after a failure: one published a day bounds the
\* model.
Start ==
  /\ run = Idle /\ today \notin made
  /\ due' = FALSE
  /\ run' = [at |-> 1, before |-> 0, after |-> 0, dump |-> {}, dumpedAt |-> 0,
             files |-> {}, revision |-> 0]
  /\ UNCHANGED <<docs, revision, today, copyDue, shelf, refused, trouble>>

CountRows == At("count") /\ Wrote([run EXCEPT !.before = Cardinality(Rows)]) /\ InBackup

Dump ==
  /\ At("dump") /\ Wrote([run EXCEPT !.dump = Rows, !.dumpedAt = revision])
  /\ InBackup

Archive == At("archive") /\ Wrote([run EXCEPT !.files = Files]) /\ InBackup

Recount ==
  /\ At("recount")
  /\ Wrote([run EXCEPT !.after = Cardinality(Rows), !.revision = revision])
  /\ InBackup

\* rto-backup-verify.sh on the restored copy.
Lacking == (run.dump \cap Files) \ run.files
Verified ==
  /\ run.revision = run.dumpedAt
  /\ Cardinality(run.dump) \in run.before..run.after
  /\ Lacking = {}

Publish ==
  /\ At("verify") /\ Verified
  /\ backups' = backups \cup {today} /\ made' = made \cup {today}
  /\ flawed' = IF run.dump \subseteq run.files \cup Missing THEN flawed
               ELSE flawed \cup {today}
  /\ Wrote(run)
  /\ UNCHANGED <<docs, revision, timeVars, copyDue, cloud, refused, trouble>>

Refuse ==
  /\ At("verify") /\ ~Verified
  /\ run' = Idle
  /\ refused' = (refused \/ run.revision = run.dumpedAt)
  /\ UNCHANGED <<docs, revision, timeVars, copyDue, shelf, trouble>>

\* Fault: the last command of a run does not start the next service.
SuccessIgnored == copyDue

\* OnSuccess=rto-backup-offsite.service
OnSuccess == TRUE

\* The last command: then the service has succeeded and starts the next one.
Prune ==
  /\ At("prune")
  /\ \E late \in BOOLEAN : backups' = Choose(backups, today, late)
  /\ cloud' = cloud \cap backups'
  /\ run' = Idle /\ copyDue' = OnSuccess
  /\ UNCHANGED <<docs, revision, timeVars, made, flawed, refused, trouble>>

Trouble == trouble < MaxTrouble /\ trouble' = trouble + 1

\* A command fails, the time-out strikes or the machine goes down.
Stop ==
  /\ run # Idle /\ Trouble
  /\ run' = Idle
  /\ UNCHANGED <<docs, revision, timeVars, copyDue, shelf, refused>>

------------------------------------------------------------------------------
(* Off the server *)

\* Fault: any earlier copy counts as this one.
AnyCopy(day) == cloud # {}

InCloud(day) == day \in cloud

Send ==
  /\ copyDue
  /\ \E day \in Newest(backups) :
       cloud' = IF InCloud(day) THEN cloud ELSE cloud \cup {day}
  /\ copyDue' = FALSE
  /\ UNCHANGED <<docs, revision, run, timeVars, backups, made, flawed, refused,
                 trouble>>

SendFails ==
  /\ copyDue /\ Trouble
  /\ copyDue' = FALSE
  /\ UNCHANGED <<docs, revision, run, timeVars, shelf, refused>>

------------------------------------------------------------------------------
(* Days *)

Cycle == WeekLength * MonthLength
Horizon == Max({DailyDays, WeeklyDays, MonthlyDays}) + 1

\* A cycle later the calendar looks the same: days are renumbered, and those
\* out of the window, which only the newest backup can be, are not told apart.
Renumbered(days, back) ==
  {IF d - back < today + 1 - back - Horizon THEN today + 1 - back - Horizon
   ELSE d - back : d \in days}

\* The services end within half an hour each; a night without a run is a night
\* the machine was off, and the timer makes up for it (Persistent).
Midnight ==
  /\ run = Idle /\ ~copyDue
  /\ IF due THEN Trouble ELSE UNCHANGED trouble
  /\ LET back == IF today + 1 = 2 * Cycle THEN Cycle ELSE 0
         now  == today + 1 - back
     IN  /\ today' = now
         /\ backups' = Renumbered(backups, back)
         /\ made' = Renumbered(made, back)
         /\ cloud' = Renumbered(cloud, back) \cap backups'
         /\ flawed' = Renumbered(flawed, back)
  /\ due' = TRUE
  /\ UNCHANGED <<docs, revision, run, copyDue, refused>>

------------------------------------------------------------------------------
Init ==
  /\ docs = [d \in Docs |-> IF d \in Missing THEN {"row"} ELSE {}]
  /\ revision = 0 /\ run = Idle
  /\ today = Cycle /\ due = TRUE /\ copyDue = FALSE
  /\ backups = {} /\ cloud = {} /\ made = {} /\ flawed = {}
  /\ refused = FALSE /\ trouble = 0

RunStep ==
  CountRows \/ Dump \/ Archive \/ Recount \/ Publish \/ Refuse \/ Prune

Next ==
  \/ \E d \in Docs : UploadStep(d)
  \/ Migrate \/ Midnight
  \/ Start \/ RunStep \/ Stop
  \/ Send \/ SendFails

\* systemd starts the timer's run and what follows a success, a run that is not
\* stopped goes on, and days pass.
Fairness == /\ WF_vars(due /\ Start) /\ WF_vars(RunStep)
            /\ WF_vars(Send) /\ WF_vars(Midnight)

Spec == Init /\ [][Next]_vars /\ Fairness

------------------------------------------------------------------------------
RunRecord == [at: 1..Len(Order), before: Nat, after: Nat,
              dump: SUBSET Docs, files: SUBSET Docs,
              dumpedAt: 0..MaxMigrations, revision: 0..MaxMigrations]

Days == (Cycle - Horizon)..(2 * Cycle)

\* The type invariant: what a run has read is still there, and what is pruned
\* or sent off the server has been published before (rto-backup.sh).
TypeOK ==
  /\ docs \in [Docs -> SUBSET {"file", "row"}]
  /\ revision \in 0..MaxMigrations /\ trouble \in 0..MaxTrouble
  /\ run # Idle =>
       run \in RunRecord /\ run.dump \subseteq Rows /\ run.files \subseteq Files
  /\ today \in Cycle..(2 * Cycle - 1) /\ {due, copyDue, refused} \subseteq BOOLEAN
  /\ backups \cup made \subseteq Days /\ cloud \subseteq backups
  /\ flawed \subseteq made
  /\ (At("prune") \/ copyDue) => today \in backups

\* No backup is published that has the row of a document without the whole
\* file, except for the files that were never on this server, whatever uploads
\* and migrations run beside it ("a row without its file, cannot happen",
\* rto-backup.sh:16).
EveryRowHasItsFile == flawed = {}

\* The verification refuses a backup only if the database was migrated under
\* it: uploads during the run are no reason (rto-backup-verify.sh:33-56).
RefusesOnlyMigrations == ~refused

\* Whatever a run left unpruned, however often the others pruned, and whichever
\* nights had no run: the newest backup, all of the last days and the oldest
\* that was ever made of each week and month in the window are there
\* (rto-backup-prune.py:4).
KeepsWhatIsOwed == Owed(made, today) \subseteq backups

Settled == run = Idle /\ ~due /\ ~copyDue

\* Once the failures end, no night settles without a backup of that day and its
\* copy off the server, and nights keep settling (rto-backup.timer, OnSuccess
\* of rto-backup.service).  A night that failed is not made up for.
CopiedEveryNight ==
  /\ <>[](Settled => today \in cloud)
  /\ []<>Settled
=============================================================================
