------------------------------ MODULE Retention ------------------------------
(***************************************************************************)
(* Which backups rto-backup-prune.py keeps.  Days are counted from a past  *)
(* one on which a week and a month began; a backup is known by its day.    *)
(***************************************************************************)
EXTENDS Integers, FiniteSets

CONSTANTS
  DailyDays, WeeklyDays, MonthlyDays,   \* how long each kind is kept
  WeekLength, MonthLength               \* the calendar

ASSUME RetentionOK ==
  /\ {DailyDays, WeeklyDays, MonthlyDays} \subseteq Nat
  /\ {WeekLength, MonthLength} \subseteq Nat \ {0}

\* The week or the month a day falls in.
Period(day, length) == day \div length

Newest(days) == {d \in days : \A e \in days : e <= d}

\* Fault: the newest of each period, not the oldest.
NewestOfEach(days, length) ==
  {d \in days : \A e \in days : Period(e, length) = Period(d, length) => e <= d}

\* setdefault, oldest first
OldestOfEach(days, length) ==
  {d \in days : \A e \in days : Period(e, length) = Period(d, length) => d <= e}

\* age <= limit.  The clock moved on since the backup was stamped, and by an
\* hour more or less when the clocks changed: at the limit, late decides.
Within(days, today, limit, late) ==
  {d \in days : today - d < limit \/ (today - d = limit /\ ~late)}

\* choose
Choose(days, today, late) ==
  Newest(days)
    \cup Within(days, today, DailyDays, late)
    \cup OldestOfEach(Within(days, today, WeeklyDays, late), WeekLength)
    \cup OldestOfEach(Within(days, today, MonthlyDays, late), MonthLength)

------------------------------------------------------------------------------
\* What the help text promises of the backups made, whatever pruning left of
\* them in between: the newest, all of the last days, and the oldest of each
\* week and month that lies within the window.
Firsts(made, today, limit, length) ==
  {d \in made : /\ today - Period(d, length) * length < limit
                /\ \A e \in made : Period(e, length) = Period(d, length) => d <= e}

Owed(made, today) ==
  Newest(made)
    \cup Within(made, today, DailyDays, TRUE)
    \cup Firsts(made, today, WeeklyDays, WeekLength)
    \cup Firsts(made, today, MonthlyDays, MonthLength)
=============================================================================
