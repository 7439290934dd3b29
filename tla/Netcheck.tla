------------------------------ MODULE Netcheck ------------------------------
(***************************************************************************)
(* The outage logger: once a tick it probes, appends a sample and then the *)
(* events it draws from it, in files that survive it.  What it remembers   *)
(* in between does not: systemd restarts it after a stop, a crash or a     *)
(* reboot with nothing remembered.  The report is computed from the        *)
(* samples alone.  A sample has the host's time, which can repeat and can  *)
(* be set back, so the events here name samples by their number: the code  *)
(* keeps the time of that sample.  A tick is about 30 seconds.             *)
(***************************************************************************)
EXTENDS Sessions, Integers, SequencesExt

CONSTANTS
  Checks,     \* what is probed
  Gap,        \* ticks without a sample that count as "not observed"
  MaxTicks,   \* bound: the latest time
  MaxSamples, \* bound: samples
  MaxEnds     \* bound: stops, crashes and reboots

ASSUME NetcheckOK ==
  /\ IsFiniteSet(Checks) /\ {Gap, MaxTicks, MaxSamples, MaxEnds} \subseteq Nat
  /\ Null \notin 1..MaxSamples \cup [ts: Nat, boot: Nat, bad: SUBSET Checks, session: Nat]
  /\ Null \notin [start: Nat, samples: Nat, peak: Nat, lastFail: Nat, failed: [Checks -> Nat]]

VARIABLES
  clock,       \* the host's time
  boot,        \* boots of the host so far
  logger,      \* what the process remembers, or Down
  samples,     \* samples.jsonl
  recoveries,  \* the recover events of events.jsonl
  endings,     \* its outage_end events
  ends         \* stops, crashes and reboots so far

files == <<samples, recoveries, endings>>
vars == <<clock, boot, logger, files, ends>>

Down == [at |-> "down"]

\* run starts: since = {}, outage = None.
Fresh(session) ==
  [at |-> "sleep", since |-> [c \in Checks |-> Null], outage |-> Null,
   session |-> session]

Latest == Len(samples)

Init ==
  /\ clock = 0 /\ boot = 0 /\ ends = 0
  /\ logger = Fresh(0)
  /\ samples = <<>> /\ recoveries = {} /\ endings = {}

------------------------------------------------------------------------------
(* The logger *)

\* take_sample, and its line in samples.jsonl.  The session is a ghost.
TakeSample(bad) ==
  /\ logger.at = "sleep" /\ Len(samples) < MaxSamples
  /\ samples' = Append(samples, [ts |-> clock, boot |-> boot, bad |-> bad,
                                 session |-> logger.session])
  /\ logger' = [logger EXCEPT !.at = "checks"]
  /\ UNCHANGED <<clock, boot, recoveries, endings, ends>>

\* Fault: a check that recovers is not forgotten.
SinceFirst(since, c, bad, n) ==
  IF c \in bad /\ since[c] = Null THEN n ELSE since[c]

Since(since, c, bad, n) ==
  IF c \notin bad THEN Null ELSE IF since[c] = Null THEN n ELSE since[c]

\* The fail and recover events of the sample just taken.
LogChecks ==
  /\ logger.at = "checks"
  /\ LET bad == samples[Latest].bad
         well == {c \in Checks \ bad : logger.since[c] # Null}
     IN  /\ recoveries' = recoveries \cup
              {[check |-> c, from |-> logger.since[c], to |-> Latest] : c \in well}
         /\ logger' = [logger EXCEPT !.at = "outage",
              !.since = [c \in Checks |-> Since(@, c, bad, Latest)]]
  /\ UNCHANGED <<clock, boot, samples, endings, ends>>

\* Fault: the peak is that of the last failing sample.
LastPeak(outage, bad) ==
  [outage EXCEPT !.checks = @ \cup bad, !.peak = Cardinality(bad)]

\* Fault: only the checks of the outage are kept.
WithoutPeak(outage, bad) == [outage EXCEPT !.checks = @ \cup bad]

Widened(outage, bad) ==
  [outage EXCEPT !.checks = @ \cup bad,
                 !.peak = IF Cardinality(bad) > @ THEN Cardinality(bad) ELSE @]

\* The outage_start and outage_end events, and the next sleep.
LogOutage ==
  /\ logger.at = "outage"
  /\ LET bad == samples[Latest].bad
         outage == IF logger.outage = Null
                   THEN [start |-> Latest, checks |-> {}, peak |-> 0]
                   ELSE logger.outage
     IN  IF bad # {}
         THEN /\ logger' = [logger EXCEPT !.at = "sleep",
                                          !.outage = Widened(outage, bad)]
              /\ UNCHANGED endings
         ELSE /\ logger' = [logger EXCEPT !.at = "sleep", !.outage = Null]
              /\ endings' = IF logger.outage = Null THEN endings
                   ELSE endings \cup {[start |-> outage.start, end |-> Latest,
                          checks |-> outage.checks, peak |-> outage.peak]}
  /\ UNCHANGED <<clock, boot, samples, recoveries, ends>>

\* Time passes; a sample may follow the last one without it, at a restart
\* or after a probe that took longer than the interval.
Tick ==
  /\ clock < MaxTicks /\ clock' = clock + 1
  /\ UNCHANGED <<boot, logger, files, ends>>

\* The host's time is corrected backwards; forwards it is a Tick or several.
SetBack ==
  /\ \E t \in 0..(clock - 1) : clock' = t
  /\ UNCHANGED <<boot, logger, files, ends>>

\* SIGTERM or a crash, at any step, the last one with a reboot or without.
End(newBoot) ==
  /\ logger # Down
  /\ ends < MaxEnds /\ ends' = ends + 1
  /\ logger' = Down /\ boot' = newBoot
  /\ UNCHANGED <<clock, files>>

\* Restart=always
Restart ==
  /\ logger = Down /\ logger' = Fresh(ends)
  /\ UNCHANGED <<clock, boot, files, ends>>

Next ==
  \/ \E bad \in SUBSET Checks : TakeSample(bad)
  \/ LogChecks \/ LogOutage \/ Tick \/ SetBack \/ Restart
  \/ End(boot) \/ End(boot + 1)

Spec == Init /\ [][Next]_vars

------------------------------------------------------------------------------
(* The report *)

\* Between samples a and b nothing was observed.
Unobserved(a, b) == b.ts - a.ts > Gap \/ a.boot # b.boot

Starting(s) == [start |-> s.ts, samples |-> 0, peak |-> 0, lastFail |-> s.ts,
                failed |-> [c \in Checks |-> 0]]

Extended(cur, s) ==
  [cur EXCEPT !.samples = @ + 1, !.lastFail = s.ts,
     !.peak = IF Cardinality(s.bad) > @ THEN Cardinality(s.bad) ELSE @,
     !.failed = [c \in Checks |-> @[c] + IF c \in s.bad THEN 1 ELSE 0]]

Closed(cur, end, how) == [outage |-> cur, end |-> end, by |-> how]

NothingSeen == [outages |-> <<>>, cur |-> Null, prev |-> Null]

Close(seen, end, how) ==
  IF seen.cur = Null THEN seen
  ELSE [seen EXCEPT !.outages = Append(@, Closed(seen.cur, end, how)),
                    !.cur = Null]

\* Fault: an outage goes on over what was not observed.
AcrossGaps(seen, s) == seen

BeforeSample(seen, s) ==
  IF seen.prev # Null /\ Unobserved(seen.prev, s) THEN Close(seen, Null, "gap")
  ELSE seen

AnalyzeSample(seen, s) ==
  LET open == BeforeSample(seen, s)
      cur  == IF open.cur = Null THEN Starting(s) ELSE open.cur
  IN  [IF s.bad # {} THEN [open EXCEPT !.cur = Extended(cur, s)]
       ELSE Close(open, s.ts, "recovered") EXCEPT !.prev = s]

\* analyze; seen[k] is what it holds after k samples.
Analyze(log) ==
  LET seen[k \in 0..Len(log)] ==
        IF k = 0 THEN NothingSeen ELSE AnalyzeSample(seen[k - 1], log[k])
  IN  Close(seen[Len(log)], Null, "ongoing").outages

\* Fault: rows of one time come out in the reverse order.
InsertedBefore(log, s) ==
  InsertAt(log, 1 + Cardinality({k \in DOMAIN log : log[k].ts < s.ts}), s)

\* s comes after the rows that are no later, as sorted leaves it.
Inserted(log, s) ==
  InsertAt(log, 1 + Cardinality({k \in DOMAIN log : log[k].ts <= s.ts}), s)

\* read_jsonl: in the order of their times, equal ones as they were written.
Chronological(log) ==
  LET sorted[k \in 0..Len(log)] ==
        IF k = 0 THEN <<>> ELSE Inserted(sorted[k - 1], log[k])
  IN  sorted[Len(log)]

Report == Analyze(Chronological(samples))

------------------------------------------------------------------------------
(* Properties *)

Numbers == 1..Len(samples)

Memory == [at: {"sleep", "checks", "outage"},
           since: [Checks -> OrNull(Numbers)], session: 0..MaxEnds,
           outage: {Null} \cup [start: Numbers, checks: SUBSET Checks,
                                peak: 1..Cardinality(Checks)]]

\* The type invariant: what the logger remembers and every event it wrote are
\* about samples it took, the end after the start (rto-netcheck.py, run).
TypeOK ==
  /\ clock \in 0..MaxTicks /\ boot \in 0..MaxEnds /\ ends \in 0..MaxEnds
  /\ logger # Down => logger \in Memory
  /\ samples \in Seq([ts: 0..MaxTicks, boot: 0..MaxEnds, bad: SUBSET Checks,
                      session: 0..MaxEnds])
  /\ recoveries \subseteq [check: Checks, from: Numbers, to: Numbers]
  /\ endings \subseteq [start: Numbers, end: Numbers, checks: SUBSET Checks,
                       peak: 1..Cardinality(Checks)]
  /\ \A r \in recoveries : r.from < r.to
  /\ \A e \in endings : e.start < e.end

\* Samples i to j of a log are one stretch of failures, observed throughout.
Stretch(log, i, j) ==
  /\ i <= j
  /\ \A k \in i..j : log[k].bad # {}
  /\ \A k \in i..(j - 1) : ~Unobserved(log[k], log[k + 1])

\* It can be extended neither way.
Maximal(log, i, j) ==
  /\ Stretch(log, i, j)
  /\ i > 1 => log[i - 1].bad = {} \/ Unobserved(log[i - 1], log[i])
  /\ j < Len(log) => log[j + 1].bad = {} \/ Unobserved(log[j], log[j + 1])

Longest(log) ==
  {p \in (DOMAIN log) \X (DOMAIN log) : Maximal(log, p[1], p[2])}

Reported(log, i, j) ==
  LET next == j + 1
      how  == IF j = Len(log) THEN "ongoing"
              ELSE IF Unobserved(log[j], log[next]) THEN "gap"
              ELSE "recovered"
  IN  [outage |-> [start |-> log[i].ts, samples |-> j - i + 1,
                   peak |-> Max({Cardinality(log[k].bad) : k \in i..j}),
                   lastFail |-> log[j].ts,
                   failed |-> [c \in Checks |->
                     Cardinality({k \in i..j : c \in log[k].bad})]],
       end |-> IF how = "recovered" THEN log[next].ts ELSE Null,
       by  |-> how]

\* The report lists exactly the longest stretches of failing samples with
\* nothing unobserved between them, what failed in each and how each ended,
\* after any crashes, reboots, pauses and corrections of the clock (analyze).
ReportsStretches ==
  LET log == Chronological(samples)
  IN  ToSet(Report) = {Reported(log, p[1], p[2]) : p \in Longest(log)}

\* The clock left the samples of this ending where they were among the others.
InPlace(e) ==
  \A k \in e.start..e.end, i \in DOMAIN samples :
    /\ i < k => samples[i].ts <= samples[k].ts
    /\ k < i => samples[k].ts <= samples[i].ts

\* No pause of the logger in it.
Seen(e) ==
  \A k \in (e.start + 1)..e.end : ~Unobserved(samples[k - 1], samples[k])

\* An outage the events close is one the report lists, with the same checks
\* and peak unless the report has it begin before a restart.  After a pause
\* the events count one outage where the report counts more, and where the
\* clock was set back the report has the samples in another order.
OutagesAreReported ==
  LET log == Chronological(samples)
  IN  \A e \in endings :
        InPlace(e) /\ Seen(e) =>
          \E i \in 1..e.start :
            LET o == Reported(log, i, e.end - 1)
                checks == {c \in Checks : o.outage.failed[c] > 0}
            IN  /\ o \in ToSet(Report)
                /\ o.by = "recovered" /\ o.end = samples[e.end].ts
                /\ e.checks \subseteq checks /\ e.peak <= o.outage.peak
                /\ i = e.start => e.checks = checks /\ e.peak = o.outage.peak

\* A check reported as recovered had failed in every sample from the one it
\* counts from, all of one life of the logger, and not in the one before.
RecoveriesAreObserved ==
  \A r \in recoveries :
    /\ \A k \in r.from..r.to :
         /\ r.check \in samples[k].bad <=> k < r.to
         /\ samples[k].session = samples[r.to].session
    /\ r.from > 1 /\ samples[r.from - 1].session = samples[r.to].session
         => r.check \notin samples[r.from - 1].bad

\* The events a life of the logger leaves agree with the samples and with the
\* report drawn from them, wherever it ended: outages and recoveries of single
\* checks (run, analyze).
EventsAgree == OutagesAreReported /\ RecoveriesAreObserved
=============================================================================
