--------------------------- MODULE Netcheck_proofs ---------------------------
(***************************************************************************)
(* Proofs about Netcheck, for any number of checks, samples, pauses, ends  *)
(* of the logger, reboots and corrections of the clock.                    *)
(***************************************************************************)
EXTENDS Netcheck, FiniteSetTheorems, SequenceTheorems, WellFoundedInduction, TLAPS

------------------------------------------------------------------------------
(* The files and what the process remembers *)

SampleRows == [ts: 0..MaxTicks, boot: 0..MaxEnds, bad: SUBSET Checks, session: 0..MaxEnds]

Events == [check: Checks, from: Numbers, to: Numbers]

Outages == [start: Numbers, checks: SUBSET Checks, peak: 1..Cardinality(Checks)]

Endings == [start: Numbers, end: Numbers, checks: SUBSET Checks,
            peak: 1..Cardinality(Checks)]

\* Every sample is of a life of the logger up to the present one.
InOrder ==
  /\ samples \in Seq(SampleRows) /\ Len(samples) <= MaxSamples
  /\ \A i \in Numbers : samples[i].session <= ends

Counters == clock \in 0..MaxTicks /\ ends \in 0..MaxEnds /\ boot \in 0..ends

Alive ==
  /\ logger = Down => \A i \in Numbers : samples[i].session < ends
  /\ logger # Down => logger \in Memory /\ logger.session = ends
  /\ logger.at \in {"checks", "outage"} => samples # <<>> /\ samples[Latest].session = ends

\* How many samples the events of checks, and of outages, are drawn from.
Checked == IF logger.at = "checks" THEN Len(samples) - 1 ELSE Len(samples)
Judged  == IF logger.at = "sleep" THEN Len(samples) ELSE Len(samples) - 1

\* The check c has failed in each of the samples a to m, of one life of the
\* logger, and not in the sample before them.
FailingSince(S, c, a, m, session) ==
  /\ \A k \in a..m : S[k].session = session /\ c \in S[k].bad
  /\ (a > 1 /\ S[a - 1].session = session) => c \notin S[a - 1].bad

\* What since says of a check.
Noted(c) ==
  /\ logger.since[c] = Null =>
       ((Checked > 0 /\ samples[Checked].session = ends) => c \notin samples[Checked].bad)
  /\ logger.since[c] # Null =>
       /\ logger.since[c] \in 1..Checked
       /\ FailingSince(samples, c, logger.since[c], Checked, ends)

\* An outage over the samples a to m.
Failed(S, a, m, checks, peak) ==
  /\ \A k \in a..m : S[k].bad # {}
  /\ \A c \in Checks : c \in checks <=> \E k \in a..m : c \in S[k].bad
  /\ \A k \in a..m : Cardinality(S[k].bad) <= peak
  /\ \E k \in a..m : Cardinality(S[k].bad) = peak

\* What outage says.
Gathered ==
  logger.outage # Null =>
    /\ logger.outage.start \in 1..Judged
    /\ Failed(samples, logger.outage.start, Judged, logger.outage.checks, logger.outage.peak)

\* An outage_end event.
EndingOK(S, e) ==
  /\ e.start < e.end /\ S[e.end].bad = {}
  /\ Failed(S, e.start, e.end - 1, e.checks, e.peak)

\* A recover event.
RecoveryOK(S, r) ==
  /\ r.from < r.to /\ r.check \notin S[r.to].bad
  /\ FailingSince(S, r.check, r.from, r.to - 1, S[r.to].session)

Logged ==
  /\ recoveries \subseteq Events /\ \A r \in recoveries : RecoveryOK(samples, r)
  /\ endings \subseteq Endings /\ \A e \in endings : EndingOK(samples, e)

IInv ==
  /\ InOrder /\ Counters /\ Alive /\ Logged
  /\ logger # Down => Gathered /\ \A c \in Checks : Noted(c)

LEMMA Constants ==
  /\ Gap \in Nat /\ MaxTicks \in Nat /\ MaxEnds \in Nat /\ MaxSamples \in Nat
  /\ \A n \in 1..MaxSamples : n # Null
  /\ \A bad \in SUBSET Checks : IsFiniteSet(bad) /\ Cardinality(bad) \in Nat
       /\ Cardinality(bad) <= Cardinality(Checks) /\ (bad # {} => Cardinality(bad) > 0)
  /\ Cardinality(Checks) \in Nat
<1>1. /\ IsFiniteSet(Checks) /\ Gap \in Nat /\ MaxTicks \in Nat /\ MaxEnds \in Nat
      /\ MaxSamples \in Nat /\ \A n \in 1..MaxSamples : n # Null
  BY NetcheckOK
<1>2. ASSUME NEW bad \in SUBSET Checks
      PROVE  IsFiniteSet(bad) /\ Cardinality(bad) \in Nat
             /\ Cardinality(bad) <= Cardinality(Checks) /\ (bad # {} => Cardinality(bad) > 0)
  <2>1. IsFiniteSet(bad) /\ Cardinality(bad) <= Cardinality(Checks)
    BY <1>1, FS_Subset
  <2>2. Cardinality(bad) \in Nat /\ (Cardinality(bad) = 0 <=> bad = {})
    BY <2>1, FS_CardinalityType, FS_EmptySet
  <2> QED BY <2>1, <2>2
<1>3. Cardinality(Checks) \in Nat
  BY <1>1, FS_CardinalityType
<1> QED BY <1>1, <1>2, <1>3

\* A log of samples: samples.jsonl, or its rows in another order.
Places(L) == 1..Len(L)

LEMMA LogRows ==
  ASSUME NEW L \in Seq(SampleRows)
  PROVE  /\ Len(L) \in Nat /\ DOMAIN L = Places(L) /\ Places(L) \subseteq Nat \ {0}
         /\ \A k \in Places(L) : /\ L[k] \in SampleRows
                                 /\ L[k].ts \in 0..MaxTicks /\ L[k].boot \in 0..MaxEnds
                                 /\ L[k].bad \in SUBSET Checks
                                 /\ L[k].session \in 0..MaxEnds
<1>1. Len(L) \in Nat /\ DOMAIN L = Places(L) /\ \A k \in Places(L) : L[k] \in SampleRows
  BY ElementOfSeq, LenProperties DEF Places
<1> QED BY <1>1 DEF SampleRows, Places

LEMMA Rows ==
  ASSUME InOrder
  PROVE  /\ Len(samples) \in Nat /\ DOMAIN samples = Numbers /\ Numbers \subseteq Nat \ {0}
         /\ \A k \in Numbers : /\ k # Null /\ samples[k] \in SampleRows
                               /\ samples[k].ts \in 0..MaxTicks /\ samples[k].boot \in 0..MaxEnds
                               /\ samples[k].bad \in SUBSET Checks
                               /\ samples[k].session \in 0..MaxEnds
<1>1. samples \in Seq(SampleRows) /\ Len(samples) <= MaxSamples
  BY DEF InOrder
<1>2. /\ Len(samples) \in Nat /\ DOMAIN samples = Numbers /\ Numbers \subseteq Nat \ {0}
      /\ \A k \in Numbers : /\ samples[k] \in SampleRows
                            /\ samples[k].ts \in 0..MaxTicks /\ samples[k].boot \in 0..MaxEnds
                            /\ samples[k].bad \in SUBSET Checks
                            /\ samples[k].session \in 0..MaxEnds
  BY <1>1, LogRows DEF Numbers, Places
<1>3. \A k \in Numbers : k # Null
  BY <1>1, <1>2, Constants DEF Numbers
<1> QED BY <1>2, <1>3

LEMMA Events_TypeOK == IInv => TypeOK
<1> SUFFICES ASSUME IInv PROVE TypeOK
  OBVIOUS
<1>1. boot \in 0..MaxEnds /\ clock \in 0..MaxTicks /\ ends \in 0..MaxEnds
  BY Constants DEF IInv, Counters
<1>2. samples \in Seq([ts: 0..MaxTicks, boot: 0..MaxEnds, bad: SUBSET Checks,
                       session: 0..MaxEnds])
  BY DEF IInv, InOrder, SampleRows
<1>3. recoveries \subseteq [check: Checks, from: Numbers, to: Numbers]
      /\ \A r \in recoveries : r.from < r.to
  BY DEF IInv, Logged, RecoveryOK, Events
<1>4. endings \subseteq [start: Numbers, end: Numbers, checks: SUBSET Checks,
                         peak: 1..Cardinality(Checks)]
      /\ \A e \in endings : e.start < e.end
  BY DEF IInv, Logged, EndingOK, Endings
<1>5. logger # Down => logger \in Memory
  BY DEF IInv, Alive
<1> QED BY <1>1, <1>2, <1>3, <1>4, <1>5 DEF TypeOK

LEMMA InitIInv == Init => IInv
<1> SUFFICES ASSUME Init PROVE IInv
  OBVIOUS
<1>1. logger = Fresh(0) /\ samples = <<>> /\ Numbers = {} /\ Len(samples) = 0
      /\ clock = 0 /\ boot = 0 /\ ends = 0 /\ recoveries = {} /\ endings = {}
  BY DEF Init, Numbers
<1>2. Fresh(0) \in Memory /\ Fresh(0) # Down
  BY Constants DEF Fresh, Memory, Down, OrNull
<1>3. InOrder /\ Counters /\ Alive /\ Logged
  BY <1>1, <1>2, Constants DEF InOrder, Counters, Alive, Logged, Fresh
<1>4. Gathered /\ \A c \in Checks : Noted(c)
  BY <1>1 DEF Gathered, Noted, Fresh, Checked
<1> QED BY <1>3, <1>4 DEF IInv

------------------------------------------------------------------------------
(* The steps *)

LEMMA FailedKept ==
  ASSUME NEW S, NEW T, NEW a, NEW m, NEW checks, NEW peak,
         \A k \in a..m : T[k] = S[k], Failed(S, a, m, checks, peak)
  PROVE  Failed(T, a, m, checks, peak)
BY DEF Failed

LEMMA FailingKept ==
  ASSUME NEW S, NEW T, NEW c, NEW a \in Nat \ {0}, NEW m, NEW session,
         \A k \in a..m : T[k] = S[k], a > 1 => T[a - 1] = S[a - 1],
         FailingSince(S, c, a, m, session)
  PROVE  FailingSince(T, c, a, m, session)
BY DEF FailingSince

\* Samples stay, and so does what was logged of them.
LEMMA LoggedKept ==
  ASSUME IInv, Len(samples') \in Nat, Len(samples) <= Len(samples'),
         \A k \in Numbers : samples'[k] = samples[k]
  PROVE  /\ \A r \in recoveries : r \in Events' /\ RecoveryOK(samples', r)
         /\ \A e \in endings : e \in Endings' /\ EndingOK(samples', e)
<1>1. Len(samples) \in Nat /\ Numbers \subseteq Numbers'
  BY Rows DEF IInv, Numbers
<1>2. ASSUME NEW r \in recoveries PROVE r \in Events' /\ RecoveryOK(samples', r)
  <2>1. r \in Events /\ r.from < r.to /\ r.check \notin samples[r.to].bad
        /\ FailingSince(samples, r.check, r.from, r.to - 1, samples[r.to].session)
    BY DEF IInv, Logged, RecoveryOK
  <2>2. r.from \in Numbers /\ r.to \in Numbers /\ r \in Events'
    BY <1>1, <2>1 DEF Events
  <2>3. (\A k \in r.from..(r.to - 1) : samples'[k] = samples[k])
        /\ (r.from > 1 => samples'[r.from - 1] = samples[r.from - 1]) /\ r.from \in Nat \ {0}
    BY <1>1, <2>1, <2>2 DEF Numbers
  <2>4. samples'[r.to] = samples[r.to]
    BY <2>2
  <2>5. FailingSince(samples', r.check, r.from, r.to - 1, samples[r.to].session)
    BY <2>1, <2>3, FailingKept
  <2> QED BY <2>1, <2>2, <2>4, <2>5 DEF RecoveryOK
<1>3. ASSUME NEW e \in endings PROVE e \in Endings' /\ EndingOK(samples', e)
  <2>1. e \in Endings /\ e.start < e.end /\ samples[e.end].bad = {}
        /\ Failed(samples, e.start, e.end - 1, e.checks, e.peak)
    BY DEF IInv, Logged, EndingOK
  <2>2. e.start \in Numbers /\ e.end \in Numbers /\ e \in Endings'
    BY <1>1, <2>1 DEF Endings
  <2>3. samples'[e.end] = samples[e.end]
        /\ \A k \in e.start..(e.end - 1) : samples'[k] = samples[k]
    BY <1>1, <2>1, <2>2 DEF Numbers
  <2>4. Failed(samples', e.start, e.end - 1, e.checks, e.peak)
    BY <2>1, <2>3, FailedKept
  <2> QED BY <2>1, <2>2, <2>3, <2>4 DEF EndingOK
<1> QED BY <1>2, <1>3

LEMMA TakeIInv == ASSUME IInv, NEW bad \in SUBSET Checks, TakeSample(bad) PROVE IInv'
<1> DEFINE n == Len(samples)
           row == [ts |-> clock, boot |-> boot, bad |-> bad, session |-> logger.session]
<1>1. /\ logger.at = "sleep" /\ samples' = Append(samples, row)
      /\ logger' = [logger EXCEPT !.at = "checks"] /\ n < MaxSamples
      /\ UNCHANGED <<clock, boot, recoveries, endings, ends>>
  BY DEF TakeSample
<1>2. logger # Down /\ logger \in Memory /\ logger.session = ends
  BY <1>1 DEF IInv, Alive, Down
<1>3. row \in SampleRows
  BY <1>2, Constants DEF IInv, Counters, SampleRows
<1>4. /\ samples' \in Seq(SampleRows) /\ n \in Nat /\ Len(samples') = n + 1
      /\ (\A k \in Numbers : samples'[k] = samples[k]) /\ samples'[n + 1] = row
  BY <1>1, <1>3, Rows, AppendProperties DEF IInv, InOrder, Numbers
<1>5. row.session = ends
  BY <1>2
<1> HIDE DEF row
<1>6. Numbers' = 1..(n + 1) /\ Numbers = 1..n /\ Numbers \subseteq Numbers'
  BY <1>4 DEF Numbers
<1>7. InOrder'
  <2>1. Len(samples') <= MaxSamples'
    BY <1>1, <1>4, Constants
  <2>2. ASSUME NEW i \in Numbers' PROVE samples'[i].session <= ends'
    <3>1. CASE i = n + 1
      BY <1>1, <1>4, <1>5, <3>1 DEF IInv, Counters
    <3>2. CASE i \in Numbers
      BY <1>1, <1>4, <3>2 DEF IInv, InOrder
    <3> QED BY <1>4, <1>6, <3>1, <3>2
  <2> QED BY <1>4, <2>1, <2>2 DEF InOrder
<1>8. Counters'
  BY <1>1 DEF IInv, Counters
<1>9. logger' \in Memory' /\ logger' # Down /\ logger'.at = "checks" /\ logger'.session = ends
      /\ logger'.since = logger.since /\ logger'.outage = logger.outage
  BY <1>1, <1>2, <1>6 DEF Memory, Down, OrNull
<1>10. Alive'
  BY <1>1, <1>4, <1>5, <1>9 DEF Alive, Latest
<1>11. Logged'
  <2>1. Len(samples') \in Nat /\ Len(samples) <= Len(samples')
    BY <1>4
  <2>2. /\ \A r \in recoveries : r \in Events' /\ RecoveryOK(samples', r)
        /\ \A e \in endings : e \in Endings' /\ EndingOK(samples', e)
    BY <1>4, <2>1, LoggedKept
  <2> QED BY <1>1, <2>2 DEF Logged
<1>12. Checked' = n /\ Checked = n /\ Judged' = n /\ Judged = n
  BY <1>1, <1>4, <1>9 DEF Checked, Judged
<1>13. ASSUME NEW c \in Checks PROVE Noted(c)'
  <2>1. Noted(c)
    BY <1>2 DEF IInv
  <2>2. CASE logger.since[c] = Null
    BY <1>1, <1>4, <1>6, <1>9, <1>12, <2>1, <2>2 DEF Noted
  <2>3. CASE logger.since[c] # Null
    <3> DEFINE a == logger.since[c]
    <3>1. a \in 1..n /\ FailingSince(samples, c, a, n, ends)
      BY <1>12, <2>1, <2>3 DEF Noted
    <3>2. FailingSince(samples', c, a, n, ends)
      BY <1>4, <1>6, <3>1, FailingKept
    <3> QED BY <1>1, <1>4, <1>6, <1>9, <1>12, <2>3, <3>1, <3>2 DEF Noted
  <2> QED BY <2>2, <2>3
<1>14. Gathered'
  <2> SUFFICES ASSUME logger.outage # Null PROVE Gathered'
    BY <1>9 DEF Gathered
  <2> DEFINE a == logger.outage.start
  <2>1. a \in 1..n /\ Failed(samples, a, n, logger.outage.checks, logger.outage.peak)
    BY <1>2, <1>12 DEF IInv, Gathered
  <2>2. Failed(samples', a, n, logger.outage.checks, logger.outage.peak)
    BY <1>4, <1>6, <2>1, FailedKept
  <2> QED BY <1>4, <1>6, <1>9, <1>12, <2>1, <2>2 DEF Gathered
<1> QED BY <1>7, <1>8, <1>10, <1>11, <1>13, <1>14 DEF IInv

LEMMA ChecksIInv == ASSUME IInv, LogChecks PROVE IInv'
<1> DEFINE n == Len(samples)
           bad == samples[n].bad
           since == [c \in Checks |-> Since(logger.since, c, bad, n)]
<1>1. /\ logger.at = "checks" /\ logger' = [logger EXCEPT !.at = "outage", !.since = since]
      /\ UNCHANGED <<clock, boot, samples, endings, ends>>
  BY DEF LogChecks, Latest
<1>2. /\ logger # Down /\ logger \in Memory /\ logger.session = ends
      /\ samples # <<>> /\ samples[n].session = ends
  BY <1>1 DEF IInv, Alive, Down, Latest
<1>3. n \in Numbers /\ n \in Nat \ {0}
  BY <1>2, Rows, EmptySeq DEF IInv, InOrder, Numbers
<1>4. bad \in SUBSET Checks /\ n # Null
  BY <1>3, Rows DEF IInv
<1>5. since \in [Checks -> OrNull(Numbers)]
  BY <1>2, <1>3 DEF Since, Memory, OrNull
<1>6. \A c \in Checks : since[c] = Since(logger.since, c, bad, n)
  OBVIOUS
<1> HIDE DEF since
<1>7. /\ logger' \in Memory' /\ logger' # Down /\ logger'.at = "outage" /\ logger'.session = ends
      /\ logger'.since = since /\ logger'.outage = logger.outage
  <2>1. Numbers' = Numbers
    BY <1>1 DEF Numbers
  <2> QED BY <1>1, <1>2, <1>5, <2>1 DEF Memory, Down
<1>8. Checked = n - 1 /\ Checked' = n /\ Judged = n - 1 /\ Judged' = n - 1
  BY <1>1, <1>7 DEF Checked, Judged
<1>9. ASSUME NEW c \in Checks, logger.since[c] # Null
      PROVE  /\ logger.since[c] \in 1..(n - 1)
             /\ FailingSince(samples, c, logger.since[c], n - 1, ends)
  BY <1>2, <1>8, <1>9 DEF IInv, Noted
<1>10. ASSUME NEW c \in Checks PROVE Noted(c)'
  <2>1. CASE c \notin bad
    <3>1. logger'.since[c] = Null
      BY <1>6, <1>7, <2>1 DEF Since
    <3> QED BY <1>1, <1>3, <1>8, <2>1, <3>1 DEF Noted
  <2>2. CASE c \in bad /\ logger.since[c] = Null
    <3>1. logger'.since[c] = n
      BY <1>6, <1>7, <2>2 DEF Since
    <3>2. n > 1 /\ samples[n - 1].session = ends => c \notin samples[n - 1].bad
      BY <1>2, <1>3, <1>8, <2>2 DEF IInv, Noted
    <3>3. FailingSince(samples, c, n, n, ends)
      BY <1>2, <1>3, <2>2, <3>2 DEF FailingSince
    <3> QED BY <1>1, <1>3, <1>4, <1>8, <3>1, <3>3 DEF Noted
  <2>3. CASE c \in bad /\ logger.since[c] # Null
    <3> DEFINE a == logger.since[c]
    <3>1. logger'.since[c] = a
      BY <1>6, <1>7, <2>3 DEF Since
    <3>2. a \in 1..(n - 1) /\ FailingSince(samples, c, a, n - 1, ends)
      BY <1>9, <2>3
    <3>3. FailingSince(samples, c, a, n, ends)
      BY <1>2, <1>3, <2>3, <3>2 DEF FailingSince
    <3>4. a \in 1..n
      BY <1>3, <3>2
    <3> QED BY <1>1, <1>8, <2>3, <3>1, <3>3, <3>4 DEF Noted
  <2> QED BY <2>1, <2>2, <2>3
<1>11. Logged'
  <2>1. ASSUME NEW r \in recoveries', r \notin recoveries
        PROVE  r \in Events /\ RecoveryOK(samples, r)
    <3>1. PICK c \in Checks : /\ c \notin bad /\ logger.since[c] # Null
                              /\ r = [check |-> c, from |-> logger.since[c], to |-> n]
      BY <2>1 DEF LogChecks, Latest
    <3>2. r.check = c /\ r.from = logger.since[c] /\ r.to = n
      BY <3>1
    <3>3. /\ logger.since[c] \in 1..(n - 1)
          /\ FailingSince(samples, c, logger.since[c], n - 1, ends)
      BY <1>9, <3>1
    <3>4. logger.since[c] \in Numbers /\ logger.since[c] < n
      BY <1>3, <3>3 DEF Numbers
    <3>5. r \in Events
      BY <1>3, <3>1, <3>4 DEF Events
    <3> QED BY <1>2, <3>1, <3>2, <3>3, <3>4, <3>5 DEF RecoveryOK
  <2>2. Events' = Events /\ Endings' = Endings
    BY <1>1 DEF Events, Endings, Numbers
  <2> QED BY <1>1, <2>1, <2>2 DEF IInv, Logged
<1>12. Gathered'
  BY <1>1, <1>2, <1>7, <1>8 DEF IInv, Gathered
<1>13. InOrder' /\ Counters' /\ Alive'
  BY <1>1, <1>2, <1>7 DEF IInv, InOrder, Counters, Alive, Numbers, Latest
<1> QED BY <1>10, <1>11, <1>12, <1>13 DEF IInv

LEMMA WidenedIs ==
  ASSUME NEW start, NEW checks, NEW peak, NEW bad
  PROVE  Widened([start |-> start, checks |-> checks, peak |-> peak], bad)
           = [start |-> start, checks |-> checks \cup bad,
              peak |-> IF Cardinality(bad) > peak THEN Cardinality(bad) ELSE peak]
<1> DEFINE o == [start |-> start, checks |-> checks, peak |-> peak]
           size == Cardinality(bad)
           p == [o EXCEPT !.checks = checks \cup bad]
<1>1. p = [start |-> start, checks |-> checks \cup bad, peak |-> peak]
  OBVIOUS
<1>2. o.checks = checks /\ o.peak = peak
  OBVIOUS
<1> HIDE DEF size, o
<1>3. Widened(o, bad) = [p EXCEPT !.peak = IF size > peak THEN size ELSE peak]
  BY <1>2 DEF Widened, size
<1> HIDE DEF p
<1>4. Widened(o, bad) = [start |-> start, checks |-> checks \cup bad,
                         peak |-> IF size > peak THEN size ELSE peak]
  BY <1>1, <1>3
<1> QED BY <1>4 DEF o, size

LEMMA OutageIInv == ASSUME IInv, LogOutage PROVE IInv'
<1> DEFINE n == Len(samples)
           bad == samples[n].bad
           outage == IF logger.outage = Null THEN [start |-> n, checks |-> {}, peak |-> 0]
                     ELSE logger.outage
           wide == Widened(outage, bad)
           event == [start |-> outage.start, end |-> n, checks |-> outage.checks,
                     peak |-> outage.peak]
<1>1. /\ logger.at = "outage" /\ UNCHANGED <<clock, boot, samples, recoveries, ends>>
      /\ bad # {} => /\ logger' = [logger EXCEPT !.at = "sleep", !.outage = wide]
                     /\ endings' = endings
      /\ bad = {} => /\ logger' = [logger EXCEPT !.at = "sleep", !.outage = Null]
                     /\ endings' = IF logger.outage = Null THEN endings
                                   ELSE endings \cup {event}
  BY DEF LogOutage, Latest
<1>2. /\ logger # Down /\ logger \in Memory /\ logger.session = ends
      /\ samples # <<>> /\ samples[n].session = ends
  BY <1>1 DEF IInv, Alive, Down, Latest
<1>3. n \in Numbers /\ n \in Nat \ {0}
  BY <1>2, Rows, EmptySeq DEF IInv, InOrder, Numbers
<1>4. bad \in SUBSET Checks
  BY <1>3, Rows DEF IInv
<1>5. Checked = n /\ Judged = n - 1
  BY <1>1 DEF Checked, Judged
<1>6. ASSUME logger.outage # Null
      PROVE  /\ outage \in Outages /\ outage.start \in 1..(n - 1)
             /\ Failed(samples, outage.start, n - 1, outage.checks, outage.peak)
  BY <1>2, <1>5, <1>6 DEF IInv, Gathered, Memory, Outages
<1> DEFINE size == Cardinality(bad)
<1>7. size \in Nat /\ size <= Cardinality(Checks) /\ Cardinality(Checks) \in Nat
      /\ (bad # {} => size > 0)
  BY <1>4, Constants
<1>8. ASSUME bad # {}
      PROVE  /\ wide \in Outages /\ wide.start \in 1..n
             /\ Failed(samples, wide.start, n, wide.checks, wide.peak)
  <2>1. CASE logger.outage = Null
    <3>1. outage = [start |-> n, checks |-> {}, peak |-> 0]
      BY <2>1
    <3> HIDE DEF outage, size
    <3>2. wide = [start |-> n, checks |-> bad, peak |-> size]
      <4>1. wide = [start |-> n, checks |-> {} \cup bad, peak |-> IF size > 0 THEN size ELSE 0]
        BY <3>1, WidenedIs DEF size
      <4> QED BY <1>7, <1>8, <4>1
    <3>4. wide.start = n /\ wide.checks = bad /\ wide.peak = size
      BY <3>2
    <3> HIDE DEF wide
    <3>3. Failed(samples, n, n, bad, size)
      BY <1>3, <1>7, <1>8 DEF Failed, size
    <3> QED BY <1>3, <1>4, <1>7, <1>8, <3>2, <3>3, <3>4 DEF Outages
  <2>2. CASE logger.outage # Null
    <3>1. outage.start \in 1..(n - 1)
          /\ Failed(samples, outage.start, n - 1, outage.checks, outage.peak)
      BY <1>6, <2>2
    <3>2. outage \in Outages /\ outage.start \in Numbers /\ outage.checks \in SUBSET Checks
          /\ outage.peak \in 1..Cardinality(Checks)
      BY <1>6, <2>2 DEF Outages
    <3> DEFINE a == outage.start
    <3> HIDE DEF outage, size
    <3> DEFINE peak == IF size > outage.peak THEN size ELSE outage.peak
    <3>3. wide = [start |-> outage.start, checks |-> outage.checks \cup bad, peak |-> peak]
      <4>1. outage = [start |-> outage.start, checks |-> outage.checks, peak |-> outage.peak]
        BY <3>2 DEF Outages
      <4>2. Widened([start |-> outage.start, checks |-> outage.checks, peak |-> outage.peak], bad)
              = [start |-> outage.start, checks |-> outage.checks \cup bad, peak |-> peak]
        BY WidenedIs DEF size
      <4> HIDE DEF peak, bad
      <4> QED BY <4>1, <4>2
    <3>4. wide.start = outage.start /\ wide.checks = outage.checks \cup bad /\ wide.peak = peak
      BY <3>3
    <3>5. peak \in 1..Cardinality(Checks) /\ size <= peak /\ outage.peak <= peak
          /\ (peak = size \/ peak = outage.peak)
      BY <1>7, <1>8, <3>2
    <3> HIDE DEF wide, peak
    <3>6. \A k \in a..n : k = n \/ k \in a..(n - 1)
      BY <1>3
    <3>7. (\A k \in a..(n - 1) : k \in a..n) /\ n \in a..n
      BY <1>3, <3>1
    <3>8. \A k \in a..(n - 1) : Cardinality(samples[k].bad) \in Nat
      <4> SUFFICES ASSUME NEW k \in a..(n - 1) PROVE Cardinality(samples[k].bad) \in Nat
        OBVIOUS
      <4>1. k \in Numbers
        BY <1>3, <3>1 DEF Numbers
      <4> QED BY <4>1, Rows, Constants DEF IInv
    <3>9. Failed(samples, a, n, outage.checks \cup bad, peak)
      <4>1. \A k \in a..n : samples[k].bad # {}
        BY <1>3, <1>8, <3>1, <3>6 DEF Failed
      <4>2. \A c \in Checks : c \in outage.checks \cup bad <=> \E k \in a..n : c \in samples[k].bad
        BY <1>3, <3>1, <3>6, <3>7 DEF Failed
      <4>3. \A k \in a..n : Cardinality(samples[k].bad) <= peak
        <5> SUFFICES ASSUME NEW k \in a..n PROVE Cardinality(samples[k].bad) <= peak
          OBVIOUS
        <5>1. CASE k = n
          BY <1>3, <3>5, <5>1 DEF size
        <5>2. CASE k \in a..(n - 1)
          <6>1. Cardinality(samples[k].bad) <= outage.peak
            BY <3>1, <5>2 DEF Failed
          <6> QED BY <3>2, <3>5, <3>8, <5>2, <6>1
        <5> QED BY <3>6, <5>1, <5>2
      <4>4. \E k \in a..n : Cardinality(samples[k].bad) = peak
        BY <1>3, <3>1, <3>5, <3>7 DEF Failed, size
      <4> QED BY <4>1, <4>2, <4>3, <4>4 DEF Failed
    <3>10. a \in 1..n
      BY <1>3, <3>1
    <3>11. outage.checks \cup bad \in SUBSET Checks
      BY <1>4, <3>2
    <3> QED BY <3>2, <3>3, <3>4, <3>5, <3>9, <3>10, <3>11 DEF Outages
  <2> QED BY <2>1, <2>2
<1>9. /\ logger' \in Memory' /\ logger' # Down /\ logger'.at = "sleep" /\ logger'.session = ends
      /\ logger'.since = logger.since
      /\ bad # {} => logger'.outage = wide
      /\ bad = {} => logger'.outage = Null
  <2>0. Numbers' = Numbers
    BY <1>1 DEF Numbers
  <2>1. CASE bad # {}
    <3> HIDE DEF wide, bad
    <3> QED BY <1>1, <1>2, <1>8, <2>0, <2>1 DEF Memory, Down, Outages
  <2>2. CASE bad = {}
    <3> HIDE DEF bad, event
    <3> QED BY <1>1, <1>2, <2>0, <2>2 DEF Memory, Down
  <2> QED BY <2>1, <2>2
<1>10. Checked' = n /\ Judged' = n
  BY <1>1, <1>9 DEF Checked, Judged
<1>11. Gathered'
  <2> HIDE DEF wide, bad
  <2> QED BY <1>1, <1>8, <1>9, <1>10 DEF Gathered
<1>12. ASSUME NEW c \in Checks PROVE Noted(c)'
  <2>1. Noted(c)
    BY <1>2 DEF IInv
  <2> QED BY <1>1, <1>5, <1>9, <1>10, <2>1 DEF Noted
<1>13. Logged'
  <2>0. Events' = Events /\ Endings' = Endings
    BY <1>1 DEF Events, Endings, Numbers
  <2>1. CASE endings' = endings
    BY <1>1, <2>0, <2>1 DEF IInv, Logged
  <2>2. CASE bad = {} /\ logger.outage # Null /\ endings' = endings \cup {event}
    <3>1. outage \in Outages /\ outage.start \in 1..(n - 1)
          /\ Failed(samples, outage.start, n - 1, outage.checks, outage.peak)
      BY <1>6, <2>2
    <3> HIDE DEF outage
    <3>2. event \in Endings /\ event.start = outage.start /\ event.end = n
          /\ event.checks = outage.checks /\ event.peak = outage.peak
      BY <1>3, <3>1 DEF Endings, Outages
    <3> HIDE DEF event
    <3>3. EndingOK(samples, event)
      BY <1>3, <2>2, <3>1, <3>2 DEF EndingOK
    <3> QED BY <1>1, <2>0, <2>2, <3>2, <3>3 DEF IInv, Logged
  <2> QED BY <1>1, <2>1, <2>2
<1>14. InOrder' /\ Counters' /\ Alive'
  BY <1>1, <1>2, <1>9 DEF IInv, InOrder, Counters, Alive, Numbers, Latest
<1> QED BY <1>9, <1>11, <1>12, <1>13, <1>14 DEF IInv

LEMMA NextIInv == IInv /\ [Next]_vars => IInv'
<1> SUFFICES ASSUME IInv, [Next]_vars PROVE IInv'
  OBVIOUS
<1>1. Len(samples) \in Nat /\ Gap \in Nat /\ MaxTicks \in Nat /\ MaxEnds \in Nat
  BY Rows, Constants DEF IInv
<1>2. ASSUME Tick \/ SetBack PROVE IInv'
  <2>1. /\ clock' \in 0..MaxTicks
        /\ UNCHANGED <<boot, logger, samples, recoveries, endings, ends>>
    <3>1. clock \in 0..MaxTicks
      BY DEF IInv, Counters
    <3> QED BY <1>1, <1>2, <3>1 DEF Tick, SetBack, files
  <2>2. Counters'
    BY <2>1 DEF IInv, Counters
  <2>3. InOrder' /\ Alive' /\ Logged' /\ Checked' = Checked /\ Judged' = Judged
    BY <2>1 DEF IInv, InOrder, Alive, Logged, Checked, Judged, Numbers, Latest, Memory, Events,
                Endings
  <2>4. ASSUME logger # Down PROVE Gathered' /\ \A c \in Checks : Noted(c)'
    BY <2>1, <2>3, <2>4 DEF IInv, Gathered, Noted
  <2> QED BY <2>1, <2>2, <2>3, <2>4 DEF IInv
<1>3. ASSUME NEW newBoot \in {boot, boot + 1}, End(newBoot) PROVE IInv'
  <2>1. /\ ends < MaxEnds /\ ends' = ends + 1 /\ logger' = Down /\ boot' = newBoot
        /\ UNCHANGED <<clock, samples, recoveries, endings>>
    BY <1>3 DEF End, files
  <2>2. \A i \in Numbers : samples[i].session < ends + 1 /\ samples[i].session <= ends + 1
    BY Rows DEF IInv, InOrder, Counters
  <2>3. InOrder' /\ Logged'
    BY <2>1, <2>2 DEF IInv, InOrder, Logged, Numbers, Events, Endings
  <2>4. Counters'
    BY <1>1, <2>1 DEF IInv, Counters
  <2>5. Alive'
    BY <2>1, <2>2 DEF Alive, Down, Numbers
  <2> QED BY <2>1, <2>3, <2>4, <2>5 DEF IInv
<1>4. CASE Restart
  <2>1. /\ logger = Down /\ logger' = Fresh(ends)
        /\ UNCHANGED <<clock, boot, samples, recoveries, endings, ends>>
    BY <1>4 DEF Restart, files
  <2>2. /\ Fresh(ends) \in Memory /\ Fresh(ends) # Down /\ Fresh(ends).session = ends
        /\ Fresh(ends).at = "sleep" /\ Fresh(ends).outage = Null
        /\ \A c \in Checks : Fresh(ends).since[c] = Null
    BY DEF Fresh, Memory, Down, OrNull, IInv, Counters
  <2>3. InOrder' /\ Counters' /\ Logged'
    BY <2>1 DEF IInv, InOrder, Counters, Logged, Numbers, Events, Endings
  <2>4. Alive'
    <3>1. Memory' = Memory
      BY <2>1 DEF Memory, Numbers
    <3> QED BY <2>1, <2>2, <3>1 DEF Alive
  <2>5. Gathered'
    BY <2>1, <2>2 DEF Gathered
  <2>6. ASSUME NEW c \in Checks PROVE Noted(c)'
    <3>1. Checked' = Len(samples)
      BY <2>1, <2>2 DEF Checked
    <3>2. Len(samples) > 0 => samples[Len(samples)].session # ends
      BY <1>1, <2>1, Rows DEF IInv, Alive, Numbers, Counters
    <3> QED BY <2>1, <2>2, <3>1, <3>2 DEF Noted
  <2> QED BY <2>3, <2>4, <2>5, <2>6 DEF IInv
<1>5. CASE UNCHANGED vars
  BY <1>5 DEF vars, files, IInv, InOrder, Counters, Alive, Logged, Gathered, Noted, Checked,
              Judged, Numbers, Latest, Memory, Events, Endings
<1> QED BY <1>2, <1>3, <1>4, <1>5, TakeIInv, ChecksIInv, OutageIInv DEF Next

LEMMA Invariance == Spec => []IInv
BY InitIInv, NextIInv, PTL DEF Spec

\* What the process remembers and every event it wrote are about samples it
\* took, the end after the start, through any pauses, ends, reboots and
\* corrections of the clock (run).
THEOREM TypeCorrect == Spec => []TypeOK
BY Invariance, Events_TypeOK, PTL

------------------------------------------------------------------------------
(* What a stretch of failures is reported as *)

LEMMA LeastNat ==
  ASSUME NEW T, T \subseteq Nat, T # {} PROVE \E x \in T : \A y \in T : x <= y
<1>1. PICK x \in T : \A y \in T : <<y, x>> \notin OpToRel(<, Nat)
  BY NatLessThanWellFounded, WFMin
<1>2. \A y \in T : ~(y < x)
  BY <1>1 DEF OpToRel
<1>3. \A y \in T : x \in Nat /\ y \in Nat
  OBVIOUS
<1>4. \A y \in T : x <= y
  BY <1>2, <1>3
<1> QED BY <1>4

LEMMA Greatest ==
  ASSUME NEW T, T \subseteq Nat, T # {}, NEW m \in Nat, \A x \in T : x <= m
  PROVE  /\ Max(T) \in T /\ \A x \in T : x <= Max(T)
<1> DEFINE D == {m - x : x \in T}
<1>1. D \subseteq Nat /\ D # {}
  <2>1. \A x \in T : x \in Nat /\ m - x \in Nat
    OBVIOUS
  <2>2. D \subseteq Nat
    BY <2>1
  <2> QED BY <2>2
<1>2. PICK d \in D : \A e \in D : d <= e
  BY <1>1, LeastNat
<1>3. PICK x \in T : d = m - x
  BY <1>2
<1>4. \A y \in T : m - x <= m - y
  BY <1>2, <1>3
<1>5. \A y \in T : x >= y
  BY <1>4
<1>6. Max(T) = CHOOSE z \in T : \A y \in T : z >= y
  BY DEF Max
<1>7. Max(T) \in T /\ \A y \in T : Max(T) >= y
  BY <1>5, <1>6
<1> QED BY <1>7

Sizes(L, i, j) == {Cardinality(L[k].bad) : k \in i..j}
Fails(L, i, j, c) == {k \in i..j : c \in L[k].bad}
Outage(L, i, j) ==
  [start |-> L[i].ts, samples |-> j - i + 1, peak |-> Max(Sizes(L, i, j)),
   lastFail |-> L[j].ts, failed |-> [c \in Checks |-> Cardinality(Fails(L, i, j, c))]]

LEMMA ReportedIs ==
  ASSUME NEW L \in Seq(SampleRows), NEW i \in Places(L), NEW j \in Places(L)
  PROVE  Reported(L, i, j) =
           IF j = Len(L) THEN Closed(Outage(L, i, j), Null, "ongoing")
           ELSE IF Unobserved(L[j], L[j + 1])
           THEN Closed(Outage(L, i, j), Null, "gap")
           ELSE Closed(Outage(L, i, j), L[j + 1].ts, "recovered")
BY DEF Reported, Closed, Outage, Sizes, Fails

LEMMA SizesOK ==
  ASSUME NEW L \in Seq(SampleRows), NEW i \in Places(L), NEW j \in Places(L), i <= j
  PROVE  /\ Sizes(L, i, j) \subseteq Nat /\ Sizes(L, i, j) # {}
         /\ \A x \in Sizes(L, i, j) : x <= Cardinality(Checks)
         /\ Max(Sizes(L, i, j)) \in Sizes(L, i, j)
         /\ \A x \in Sizes(L, i, j) : x <= Max(Sizes(L, i, j))
<1>1. ASSUME NEW k \in i..j
      PROVE  Cardinality(L[k].bad) \in Nat
             /\ Cardinality(L[k].bad) <= Cardinality(Checks)
  <2>1. k \in Places(L)
    BY LogRows DEF Places
  <2> QED BY <2>1, LogRows, Constants
<1>2. i \in i..j
  BY LogRows
<1>3. /\ Sizes(L, i, j) \subseteq Nat /\ Sizes(L, i, j) # {}
      /\ \A x \in Sizes(L, i, j) : x <= Cardinality(Checks)
  BY <1>1, <1>2 DEF Sizes
<1> QED BY <1>3, Constants, Greatest

LEMMA FailsOK ==
  ASSUME NEW L \in Seq(SampleRows), NEW i \in Places(L), NEW j \in Places(L), NEW c
  PROVE  IsFiniteSet(Fails(L, i, j, c)) /\ Cardinality(Fails(L, i, j, c)) \in Nat
<1>1. IsFiniteSet(i..j)
  BY LogRows, FS_Interval
<1>2. IsFiniteSet(Fails(L, i, j, c))
  BY <1>1, FS_Subset DEF Fails
<1> QED BY <1>2, FS_CardinalityType

LEMMA OutageType ==
  ASSUME NEW L \in Seq(SampleRows), NEW i \in Places(L), NEW j \in Places(L), i <= j
  PROVE  /\ Outage(L, i, j) \in [start: Nat, samples: Nat, peak: Nat, lastFail: Nat,
                              failed: [Checks -> Nat]]
         /\ Outage(L, i, j) # Null
<1>1. /\ Max(Sizes(L, i, j)) \in Nat
      /\ \A c \in Checks : Cardinality(Fails(L, i, j, c)) \in Nat
  BY SizesOK, FailsOK
<1>2. L[i].ts \in Nat /\ L[j].ts \in Nat /\ j - i + 1 \in Nat
  BY LogRows, Constants
<1>3. Outage(L, i, j) \in [start: Nat, samples: Nat, peak: Nat, lastFail: Nat,
                        failed: [Checks -> Nat]]
  BY <1>1, <1>2 DEF Outage
<1> QED BY <1>3, NetcheckOK

LEMMA ExtendedIs ==
  ASSUME NEW start, NEW count, NEW peak, NEW last, NEW failed, NEW s
  PROVE  Extended([start |-> start, samples |-> count, peak |-> peak, lastFail |-> last,
                   failed |-> failed], s)
           = [start |-> start, samples |-> count + 1,
              peak |-> IF Cardinality(s.bad) > peak THEN Cardinality(s.bad) ELSE peak,
              lastFail |-> s.ts,
              failed |-> [c \in Checks |-> failed[c] + IF c \in s.bad THEN 1 ELSE 0]]
<1> DEFINE o == [start |-> start, samples |-> count, peak |-> peak, lastFail |-> last,
                 failed |-> failed]
           high == IF Cardinality(s.bad) > peak THEN Cardinality(s.bad) ELSE peak
           more == [c \in Checks |-> failed[c] + IF c \in s.bad THEN 1 ELSE 0]
           next == count + 1
           ts == s.ts
           o1 == [o EXCEPT !.samples = next]
           o2 == [o1 EXCEPT !.lastFail = ts]
           o3 == [o2 EXCEPT !.peak = high]
           o4 == [o3 EXCEPT !.failed = more]
<1>1. o.samples = count /\ o.peak = peak /\ o.failed = failed
  OBVIOUS
<1> HIDE DEF o
<1>2. Extended(o, s) = o4
  BY <1>1 DEF Extended
<1> HIDE DEF high, more, next, ts, o1, o2, o3, o4
<1>3. o1 = [start |-> start, samples |-> next, peak |-> peak, lastFail |-> last,
            failed |-> failed]
  BY DEF o, o1
<1>4. o2 = [start |-> start, samples |-> next, peak |-> peak, lastFail |-> ts,
            failed |-> failed]
  BY <1>3 DEF o2
<1>5. o3 = [start |-> start, samples |-> next, peak |-> high, lastFail |-> ts,
            failed |-> failed]
  BY <1>4 DEF o3
<1>6. o4 = [start |-> start, samples |-> next, peak |-> high, lastFail |-> ts,
            failed |-> more]
  BY <1>5 DEF o4
<1> QED BY <1>2, <1>6 DEF o, high, more, next, ts

\* An outage of one sample.
LEMMA OutageOne ==
  ASSUME NEW L \in Seq(SampleRows), NEW k \in Places(L), L[k].bad # {}
  PROVE  Extended(Starting(L[k]), L[k]) = Outage(L, k, k)
<1> DEFINE s == L[k]
           size == Cardinality(s.bad)
<1>1. size \in Nat /\ size > 0 /\ k \in Nat /\ k..k = {k}
  BY LogRows, Constants
<1>2. Max(Sizes(L, k, k)) = size
  <2>1. Sizes(L, k, k) = {size}
    BY <1>1 DEF Sizes
  <2>2. Max(Sizes(L, k, k)) \in Sizes(L, k, k)
    BY <1>1, SizesOK
  <2> QED BY <2>1, <2>2
<1>3. ASSUME NEW c \in Checks
      PROVE  Cardinality(Fails(L, k, k, c)) = 0 + IF c \in s.bad THEN 1 ELSE 0
  <2>1. CASE c \in s.bad
    <3>1. Fails(L, k, k, c) = {k}
      BY <1>1, <2>1 DEF Fails
    <3>2. Cardinality({k}) = 1
      BY FS_Singleton
    <3> QED BY <2>1, <3>1, <3>2
  <2>2. CASE c \notin s.bad
    <3>1. Fails(L, k, k, c) = {}
      BY <1>1, <2>2 DEF Fails
    <3> QED BY <2>2, <3>1, FS_EmptySet
  <2> QED BY <2>1, <2>2
<1> DEFINE none == [c \in Checks |-> 0]
           failed == [c \in Checks |-> none[c] + IF c \in s.bad THEN 1 ELSE 0]
           fails == [c \in Checks |-> Cardinality(Fails(L, k, k, c))]
<1>4. failed = fails
  BY <1>3
<1>5. Extended([start |-> s.ts, samples |-> 0, peak |-> 0, lastFail |-> s.ts,
                failed |-> none], s)
        = [start |-> s.ts, samples |-> 0 + 1, peak |-> IF size > 0 THEN size ELSE 0,
           lastFail |-> s.ts, failed |-> failed]
  BY ExtendedIs
<1>6. Starting(s) = [start |-> s.ts, samples |-> 0, peak |-> 0, lastFail |-> s.ts,
                     failed |-> none]
  BY DEF Starting
<1>7. Outage(L, k, k) = [start |-> s.ts, samples |-> k - k + 1, peak |-> size,
                      lastFail |-> s.ts, failed |-> fails]
  BY <1>2 DEF Outage
<1> HIDE DEF none, failed, fails, size
<1>8. k - k + 1 = 0 + 1 /\ (IF size > 0 THEN size ELSE 0) = size
  BY <1>1
<1> QED BY <1>4, <1>5, <1>6, <1>7, <1>8

\* An outage of a sample more.
LEMMA OutageMore ==
  ASSUME NEW L \in Seq(SampleRows), NEW i \in Places(L), NEW k \in Places(L), i < k
  PROVE  Extended(Outage(L, i, k - 1), L[k]) = Outage(L, i, k)
<1> DEFINE s == L[k]
           size == Cardinality(s.bad)
           j == k - 1
           peak == Max(Sizes(L, i, j))
<1>1. /\ size \in Nat /\ j \in Places(L) /\ i <= j /\ i <= k
      /\ i..k = (i..j) \cup {k} /\ k \notin i..j /\ i \in Nat /\ k \in Nat
  BY LogRows, Constants DEF Places
<1> HIDE DEF j
<1>2. Max(Sizes(L, i, k)) = IF size > peak THEN size ELSE peak
  <2>1. Sizes(L, i, k) = Sizes(L, i, j) \cup {size}
    BY <1>1 DEF Sizes
  <2>2. /\ peak \in Sizes(L, i, j) /\ peak \in Nat /\ \A x \in Sizes(L, i, j) : x <= peak
    BY <1>1, SizesOK
  <2>3. /\ Max(Sizes(L, i, k)) \in Sizes(L, i, k)
        /\ \A x \in Sizes(L, i, k) : x <= Max(Sizes(L, i, k))
    BY <1>1, SizesOK
  <2> HIDE DEF peak, size
  <2> DEFINE T == Sizes(L, i, k)
             U == Sizes(L, i, j)
             high == Max(T)
  <2>4. high \in Nat /\ size \in Nat
    BY <1>1, SizesOK DEF size
  <2> HIDE DEF high, T, U
  <2>5. /\ T = U \cup {size} /\ peak \in U /\ peak \in Nat /\ \A x \in U : x <= peak
        /\ high \in T /\ \A x \in T : x <= high
    BY <2>1, <2>2, <2>3 DEF high, T, U
  <2>6. high = IF size > peak THEN size ELSE peak
    BY <2>4, <2>5
  <2> QED BY <2>6 DEF high, T
<1>3. ASSUME NEW c \in Checks
      PROVE  Cardinality(Fails(L, i, k, c))
               = Cardinality(Fails(L, i, j, c)) + IF c \in s.bad THEN 1 ELSE 0
  <2>1. IsFiniteSet(Fails(L, i, j, c)) /\ Cardinality(Fails(L, i, j, c)) \in Nat
    BY <1>1, FailsOK
  <2>2. CASE c \in s.bad
    <3>1. Fails(L, i, k, c) = Fails(L, i, j, c) \cup {k} /\ k \notin Fails(L, i, j, c)
      BY <1>1, <2>2 DEF Fails
    <3> QED BY <2>1, <2>2, <3>1, FS_AddElement
  <2>3. CASE c \notin s.bad
    <3>1. Fails(L, i, k, c) = Fails(L, i, j, c)
      BY <1>1, <2>3 DEF Fails
    <3> QED BY <2>1, <2>3, <3>1
  <2> QED BY <2>2, <2>3
<1> DEFINE before == [c \in Checks |-> Cardinality(Fails(L, i, j, c))]
           failed == [c \in Checks |-> before[c] + IF c \in s.bad THEN 1 ELSE 0]
           fails == [c \in Checks |-> Cardinality(Fails(L, i, k, c))]
<1>4. failed = fails
  BY <1>3
<1>5. Outage(L, i, j) = [start |-> L[i].ts, samples |-> j - i + 1, peak |-> peak,
                      lastFail |-> L[j].ts, failed |-> before]
  BY DEF Outage
<1>6. Outage(L, i, k) = [start |-> L[i].ts, samples |-> k - i + 1,
                      peak |-> IF size > peak THEN size ELSE peak,
                      lastFail |-> s.ts, failed |-> fails]
  BY <1>2 DEF Outage
<1>7. (j - i + 1) + 1 = k - i + 1
  BY <1>1 DEF j
<1> HIDE DEF before, fails, peak
<1>8. Extended([start |-> L[i].ts, samples |-> j - i + 1, peak |-> peak,
                lastFail |-> L[j].ts, failed |-> before], s)
        = [start |-> L[i].ts, samples |-> (j - i + 1) + 1,
           peak |-> IF size > peak THEN size ELSE peak, lastFail |-> s.ts,
           failed |-> failed]
  BY ExtendedIs
<1> HIDE DEF failed, size, s
<1>9. Extended(Outage(L, i, j), s) = Outage(L, i, k)
  BY <1>4, <1>5, <1>6, <1>7, <1>8
<1> QED BY <1>9 DEF j, s

------------------------------------------------------------------------------
(* The report, sample by sample *)

\* One sample.
LEMMA AnalyzeIs ==
  ASSUME NEW o, NEW c, NEW p, NEW s
  PROVE  LET gap == p # Null /\ Unobserved(p, s) IN
         AnalyzeSample([outages |-> o, cur |-> c, prev |-> p], s)
           = [outages |-> IF c = Null THEN o
                          ELSE IF gap THEN Append(o, Closed(c, Null, "gap"))
                          ELSE IF s.bad = {} THEN Append(o, Closed(c, s.ts, "recovered"))
                          ELSE o,
              cur  |-> IF s.bad = {} THEN Null
                       ELSE Extended(IF c = Null \/ gap THEN Starting(s) ELSE c, s),
              prev |-> s]
<1> DEFINE gap == p # Null /\ Unobserved(p, s)
<1> DEFINE Sight(oo, cc, pp) == [outages |-> oo, cur |-> cc, prev |-> pp]
           closed == Append(o, Closed(c, Null, "gap"))
           seen == Sight(o, c, p)
           open == BeforeSample(seen, s)
           cur == IF open.cur = Null THEN Starting(s) ELSE open.cur
           ext == Extended(cur, s)
           ts == s.ts
           over == Append(o, Closed(c, ts, "recovered"))
<1>1. AnalyzeSample(seen, s) =
        [IF s.bad # {} THEN [open EXCEPT !.cur = ext]
         ELSE Close(open, ts, "recovered") EXCEPT !.prev = s]
  BY DEF AnalyzeSample
<1>2. ASSUME NEW oo, NEW cc, NEW end, NEW how
      PROVE  Close(Sight(oo, cc, p), end, how)
               = IF cc = Null THEN Sight(oo, cc, p)
                 ELSE Sight(Append(oo, Closed(cc, end, how)), Null, p)
  <2> DEFINE x == Sight(oo, cc, p)
             new == Append(oo, Closed(cc, end, how))
             y == [x EXCEPT !.outages = new]
  <2>1. x.cur = cc /\ x.outages = oo
    OBVIOUS
  <2> HIDE DEF x
  <2>2. cc # Null => Close(x, end, how) = [y EXCEPT !.cur = Null]
    BY <2>1 DEF Close
  <2>3. cc = Null => Close(x, end, how) = x
    BY <2>1 DEF Close
  <2> HIDE DEF new, y
  <2>4. y = Sight(new, cc, p)
    BY DEF y, x
  <2>5. [y EXCEPT !.cur = Null] = Sight(new, Null, p)
    BY <2>4
  <2> QED BY <2>2, <2>3, <2>5 DEF x, new
<1>3. open = IF gap /\ c # Null THEN Sight(closed, Null, p) ELSE seen
  <2>1. seen.prev = p
    OBVIOUS
  <2> HIDE DEF seen, closed
  <2>2. open = IF gap THEN Close(seen, Null, "gap") ELSE seen
    BY <2>1 DEF BeforeSample
  <2> HIDE DEF open, Sight
  <2>3. c # Null => Close(seen, Null, "gap") = Sight(closed, Null, p)
    BY <1>2 DEF closed, seen
  <2>4. c = Null => Close(seen, Null, "gap") = seen
    BY <1>2 DEF seen
  <2> QED BY <2>2, <2>3, <2>4
<1> HIDE DEF open, seen
<1>4. open.cur = IF gap THEN Null ELSE c
  BY <1>3 DEF seen
<1>5. cur = IF c = Null \/ gap THEN Starting(s) ELSE c
  BY <1>4
<1> DEFINE outages == IF gap /\ c # Null THEN closed ELSE o
           had == IF gap THEN Null ELSE c
<1>6. open = Sight(outages, had, p)
  BY <1>3 DEF seen
<1>7. CASE s.bad # {}
  <2> HIDE DEF cur, ext, outages, closed, had
  <2>1. [open EXCEPT !.cur = ext] = Sight(outages, ext, p)
    BY <1>6
  <2>2. [Sight(outages, ext, p) EXCEPT !.prev = s] = Sight(outages, ext, s)
    OBVIOUS
  <2>3. AnalyzeSample(seen, s) = Sight(outages, ext, s)
    BY <1>1, <1>7, <2>1, <2>2
  <2>4. ext = Extended(IF c = Null \/ gap THEN Starting(s) ELSE c, s)
    BY <1>5 DEF ext
  <2> QED BY <1>7, <2>3, <2>4 DEF outages, seen, closed
<1>8. CASE s.bad = {}
  <2> DEFINE last == IF c # Null /\ ~gap THEN over ELSE outages
  <2>1. Close(open, ts, "recovered") = Sight(last, Null, p)
    <3> HIDE DEF Sight, ts, closed, over
    <3>1. CASE gap \/ c = Null
      <4>1. had = Null /\ last = outages
        BY <3>1
      <4> HIDE DEF outages, had
      <4> QED BY <1>2, <1>6, <4>1
    <3>2. CASE ~gap /\ c # Null
      <4>1. had = c /\ outages = o /\ last = over
        BY <3>2
      <4>2. Close(Sight(o, c, p), ts, "recovered") = Sight(over, Null, p)
        BY <1>2, <3>2 DEF over
      <4> HIDE DEF outages, had, last
      <4> QED BY <1>6, <4>1, <4>2
    <3> QED BY <3>1, <3>2
  <2> HIDE DEF last
  <2>2. [Sight(last, Null, p) EXCEPT !.prev = s] = Sight(last, Null, s)
    OBVIOUS
  <2>3. AnalyzeSample(seen, s) = Sight(last, Null, s)
    BY <1>1, <1>8, <2>1, <2>2
  <2> QED BY <1>8, <2>3 DEF last, outages, seen, closed, over, ts
<1> QED BY <1>7, <1>8

\* The recursive function of Analyze, and what it is up to a sample.
Scans(L, f, m) ==
  f = [k \in 0..m |-> IF k = 0 THEN NothingSeen ELSE AnalyzeSample(f[k - 1], L[k])]
Scan(L) == CHOOSE f : Scans(L, f, Len(L))

LEMMA ScanExists == ASSUME NEW L \in Seq(SampleRows) PROVE Scans(L, Scan(L), Len(L))
<1> DEFINE Bad == {m \in Nat : ~\E f : Scans(L, f, m)}
<1>1. Bad = {}
  <2> SUFFICES ASSUME Bad # {} PROVE FALSE
    OBVIOUS
  <2>1. PICK m \in Bad : \A k \in Bad : m <= k
    <3>1. Bad \subseteq Nat
      OBVIOUS
    <3> HIDE DEF Bad
    <3> QED BY <3>1, LeastNat
  <2>2. m # 0
    <3>1. Scans(L, [k \in 0..0 |-> NothingSeen], 0)
      BY DEF Scans
    <3> QED BY <2>1, <3>1
  <2>3. m - 1 \in Nat /\ m - 1 \notin Bad /\ m \in Nat
    BY <2>1, <2>2
  <2>4. PICK f : Scans(L, f, m - 1)
    BY <2>3
  <2> DEFINE g == [k \in 0..m |-> IF k = m THEN AnalyzeSample(f[m - 1], L[m]) ELSE f[k]]
  <2>5. \A k \in 0..(m - 1) : g[k] = f[k] /\ f[k] = IF k = 0 THEN NothingSeen
                                            ELSE AnalyzeSample(f[k - 1], L[k])
    <3>1. \A k \in 0..(m - 1) : k \in 0..m /\ k # m
      BY <2>3
    <3> QED BY <2>4, <3>1 DEF Scans
  <2>6. g[m] = AnalyzeSample(f[m - 1], L[m]) /\ m - 1 \in 0..(m - 1)
    BY <2>3
  <2>7. \A k \in 0..m : g[k] = IF k = 0 THEN NothingSeen ELSE AnalyzeSample(g[k - 1], L[k])
    <3> SUFFICES ASSUME NEW k \in 0..m
                 PROVE  g[k] = IF k = 0 THEN NothingSeen ELSE AnalyzeSample(g[k - 1], L[k])
      OBVIOUS
    <3> HIDE DEF g
    <3>1. CASE k = m
      BY <2>2, <2>5, <2>6, <3>1
    <3>2. CASE k # m
      <4>1. k \in 0..(m - 1) /\ (k # 0 => k - 1 \in 0..(m - 1))
        BY <2>3, <3>2
      <4> QED BY <2>5, <4>1
    <3> QED BY <3>1, <3>2
  <2>8. g = [k \in 0..m |-> g[k]]
    OBVIOUS
  <2> HIDE DEF g
  <2>9. Scans(L, g, m)
    BY <2>7, <2>8 DEF Scans
  <2> QED BY <2>1, <2>9
<1>2. Len(L) \in Nat
  BY LogRows
<1>3. \E f : Scans(L, f, Len(L))
  BY <1>1, <1>2
<1> QED BY <1>3 DEF Scan

LEMMA ScanSteps ==
  ASSUME NEW L \in Seq(SampleRows)
  PROVE  /\ Scan(L)[0] = NothingSeen
         /\ \A k \in Places(L) : Scan(L)[k] = AnalyzeSample(Scan(L)[k - 1], L[k])
<1>1. Len(L) \in Nat
  BY LogRows
<1>2. \A k \in 0..Len(L) :
        Scan(L)[k] = IF k = 0 THEN NothingSeen ELSE AnalyzeSample(Scan(L)[k - 1], L[k])
  BY ScanExists DEF Scans
<1> QED BY <1>1, <1>2 DEF Places

LEMMA AnalyzeScans ==
  ASSUME NEW L PROVE Analyze(L) = Close(Scan(L)[Len(L)], Null, "ongoing").outages
BY DEF Analyze, Scan, Scans

------------------------------------------------------------------------------
(* The report lists the longest stretches *)

\* A stretch that ends with sample j and cannot begin earlier.
Left(L, i, j) ==
  /\ i \in 1..j /\ Stretch(L, i, j)
  /\ i > 1 => L[i - 1].bad = {} \/ Unobserved(L[i - 1], L[i])

LEMMA LeftUnique ==
  ASSUME NEW L \in Seq(SampleRows), NEW j \in Places(L), NEW a, NEW b,
         Left(L, a, j), Left(L, b, j)
  PROVE  a = b
<1>1. ASSUME NEW x, NEW y, Left(L, x, j), Left(L, y, j), x < y PROVE FALSE
  <2>1. /\ x \in Nat \ {0} /\ y \in Nat /\ j \in Nat /\ y <= j /\ y > 1
        /\ y - 1 \in x..j /\ y - 1 \in x..(j - 1) /\ (y - 1) + 1 = y
    BY <1>1, LogRows DEF Left
  <2>2. L[y - 1].bad # {} /\ ~Unobserved(L[y - 1], L[(y - 1) + 1])
    BY <1>1, <2>1 DEF Left, Stretch
  <2>3. L[(y - 1) + 1] = L[y]
    BY <2>1
  <2> QED BY <1>1, <2>1, <2>2, <2>3 DEF Left
<1>2. a \in Nat /\ b \in Nat
  <2>1. j \in Nat
    BY LogRows
  <2> QED BY <2>1 DEF Left
<1>3. ~(a < b) /\ ~(b < a)
  BY <1>1
<1> QED BY <1>2, <1>3

\* The stretches that end with a sample before the last.
LEMMA MaximalBefore ==
  ASSUME NEW L \in Seq(SampleRows), NEW k \in Places(L), k > 1, NEW i \in Places(L)
  PROVE  Maximal(L, i, k - 1) <=>
           /\ Left(L, i, k - 1)
           /\ L[k].bad = {} \/ Unobserved(L[k - 1], L[k])
<1>1. k - 1 < Len(L) /\ (k - 1) + 1 = k /\ k \in DOMAIN L /\ i \in Nat /\ k \in Nat
      /\ i >= 1
  BY LogRows DEF Places
<1>2. L[(k - 1) + 1].bad = {} <=> L[k].bad = {}
  BY <1>1
<1>3. L[(k - 1) + 1] = L[k]
  BY <1>1
<1>4. Stretch(L, i, k - 1) => i \in 1..(k - 1)
  BY <1>1 DEF Stretch
<1> QED BY <1>1, <1>2, <1>3, <1>4 DEF Maximal, Left

LEMMA MaximalLast ==
  ASSUME NEW L \in Seq(SampleRows), NEW i \in Places(L)
  PROVE  Maximal(L, i, Len(L)) <=> Left(L, i, Len(L))
<1>1. Len(L) \in Nat /\ i \in Nat /\ i >= 1
  BY LogRows DEF Places
<1>2. Stretch(L, i, Len(L)) => i \in 1..Len(L)
  BY <1>1 DEF Stretch
<1> QED BY <1>1, <1>2 DEF Maximal, Left

LEMMA MaximalFails ==
  ASSUME NEW L \in Seq(SampleRows), NEW i \in Places(L), NEW j \in Places(L), Maximal(L, i, j)
  PROVE  i <= j /\ L[j].bad # {}
BY LogRows DEF Maximal, Stretch

AllReports(L) == {Reported(L, i, j) : i \in Places(L), j \in Places(L)}

\* What analyze holds after k samples.
ScanIs(L, k, o, c) ==
  /\ Scan(L)[k] = [outages |-> o, cur |-> c, prev |-> IF k = 0 THEN Null ELSE L[k]]
  /\ o \in Seq(AllReports(L))
  /\ \A r : r \in ToSet(o) <=>
       \E i, j \in Places(L) : j < k /\ Maximal(L, i, j) /\ r = Reported(L, i, j)
  /\ (k = 0 \/ L[k].bad = {}) => c = Null
  /\ (k > 0 /\ L[k].bad # {}) => \E i \in 1..k : Left(L, i, k) /\ c = Outage(L, i, k)
ScanOK(L, k) == \E o, c : ScanIs(L, k, o, c)

LEMMA ToSetAppend ==
  ASSUME NEW X, NEW o \in Seq(X), NEW x \in X
  PROVE  Append(o, x) \in Seq(X) /\ \A r : r \in ToSet(Append(o, x)) <=> r \in ToSet(o) \/ r = x
<1>1. /\ Append(o, x) \in Seq(X) /\ Len(Append(o, x)) = Len(o) + 1 /\ Len(o) \in Nat
      /\ \A i \in 1..Len(o) : Append(o, x)[i] = o[i]
      /\ Append(o, x)[Len(o) + 1] = x
  BY AppendProperties, LenProperties
<1>2. DOMAIN o = 1..Len(o) /\ DOMAIN Append(o, x) = 1..(Len(o) + 1)
  BY <1>1, LenProperties
<1>3. 1..(Len(o) + 1) = 1..Len(o) \cup {Len(o) + 1}
  BY <1>1
<1>4. \A r : r \in ToSet(Append(o, x)) <=> \E i \in 1..(Len(o) + 1) : r = Append(o, x)[i]
  BY <1>2 DEF ToSet
<1>5. \A r : r \in ToSet(o) <=> \E i \in 1..Len(o) : r = o[i]
  BY <1>2 DEF ToSet
<1> QED BY <1>1, <1>3, <1>4, <1>5

\* One sample more.
LEMMA ScanStep ==
  ASSUME NEW L \in Seq(SampleRows), NEW k \in Places(L), ScanOK(L, k - 1) PROVE ScanOK(L, k)
<1> DEFINE j == k - 1
           s == L[k]
           p == IF j = 0 THEN Null ELSE L[j]
           gap == p # Null /\ Unobserved(p, s)
<1>1. PICK o, c : ScanIs(L, j, o, c)
  BY DEF ScanOK
<1>2. /\ j \in Nat /\ k \in Nat /\ j < k /\ k = j + 1 /\ (j # 0 => j \in Places(L) /\ k > 1)
      /\ \A x \in Nat : x < k <=> x < j \/ x = j
  BY LogRows DEF Places
<1>3. j # 0 => L[j] # Null
  <2> SUFFICES ASSUME j # 0 PROVE L[j] # Null
    OBVIOUS
  <2>1. L[j] \in [ts: Nat, boot: Nat, bad: SUBSET Checks, session: Nat]
    <3>1. L[j] \in SampleRows
      BY <1>2, LogRows
    <3> QED BY <3>1, Constants DEF SampleRows
  <2> QED BY <2>1, NetcheckOK
<1>4. gap <=> j # 0 /\ Unobserved(L[j], s)
  BY <1>3
<1> DEFINE o2 == IF c = Null THEN o
                 ELSE IF gap THEN Append(o, Closed(c, Null, "gap"))
                 ELSE IF s.bad = {} THEN Append(o, Closed(c, s.ts, "recovered"))
                 ELSE o
           c2 == IF s.bad = {} THEN Null
                 ELSE Extended(IF c = Null \/ gap THEN Starting(s) ELSE c, s)
<1>5. Scan(L)[k] = [outages |-> o2, cur |-> c2, prev |-> s]
  <2>1. Scan(L)[k] = AnalyzeSample(Scan(L)[j], s)
    BY ScanSteps
  <2>2. Scan(L)[j] = [outages |-> o, cur |-> c, prev |-> p]
    BY <1>1 DEF ScanIs
  <2> HIDE DEF p, s, j
  <2>3. AnalyzeSample([outages |-> o, cur |-> c, prev |-> p], s)
          = [outages |-> o2, cur |-> c2, prev |-> s]
    BY AnalyzeIs
  <2> HIDE DEF o2, c2
  <2> QED BY <2>1, <2>2, <2>3
<1>6. /\ o \in Seq(AllReports(L))
      /\ \A r : r \in ToSet(o) <=>
           \E i, l \in Places(L) : l < j /\ Maximal(L, i, l) /\ r = Reported(L, i, l)
      /\ (j = 0 \/ L[j].bad = {}) => c = Null
      /\ (j > 0 /\ L[j].bad # {}) => \E i \in 1..j : Left(L, i, j) /\ c = Outage(L, i, j)
  BY <1>1 DEF ScanIs
<1>7. ASSUME c # Null
      PROVE  /\ j \in Places(L) /\ k > 1
             /\ \E i \in Places(L) : Left(L, i, j) /\ c = Outage(L, i, j)
                                 /\ \A l \in Places(L) : Left(L, l, j) => l = i
  <2>1. j \in Places(L) /\ j > 0 /\ k > 1
    BY <1>2, <1>6, <1>7
  <2>2. PICK i \in 1..j : Left(L, i, j) /\ c = Outage(L, i, j)
    BY <1>6, <1>7, <2>1
  <2>3. i \in Places(L)
    BY <2>1, LogRows DEF Places
  <2> QED BY <2>1, <2>2, <2>3, LeftUnique
<1>8. ASSUME NEW i \in Places(L), c = Null PROVE ~(j \in Places(L) /\ Maximal(L, i, j))
  <2> SUFFICES ASSUME j \in Places(L), Maximal(L, i, j) PROVE FALSE
    OBVIOUS
  <2>1. i <= j /\ L[j].bad # {} /\ j > 0
    BY MaximalFails, LogRows
  <2>2. PICK l \in 1..j : Left(L, l, j) /\ c = Outage(L, l, j)
    BY <1>6, <2>1
  <2>3. l \in Places(L) /\ l <= j
    BY <1>2, LogRows DEF Places
  <2> QED BY <1>8, <2>2, <2>3, OutageType
<1> HIDE DEF p
<1>9. /\ o2 \in Seq(AllReports(L))
      /\ \A r : r \in ToSet(o2) <=>
           \E i, l \in Places(L) : l < k /\ Maximal(L, i, l) /\ r = Reported(L, i, l)
  <2>1. \A i, l \in Places(L) : l < k <=> l < j \/ l = j
    BY <1>2, LogRows
  <2>2. CASE c = Null
    <3>1. o2 = o
      BY <2>2
    <3> HIDE DEF o2, j, gap
    <3> QED BY <1>6, <1>8, <2>1, <2>2, <3>1
  <2>3. CASE c # Null /\ (gap \/ s.bad = {})
    <3>1. PICK i \in Places(L) : Left(L, i, j) /\ c = Outage(L, i, j)
                             /\ \A l \in Places(L) : Left(L, l, j) => l = i
      BY <1>7, <2>3
    <3>2. j \in Places(L) /\ k > 1 /\ j # Len(L) /\ L[j + 1] = s
      BY <1>2, <1>7, <2>3, LogRows DEF Places
    <3>3. \A l \in Places(L) : Maximal(L, l, j) <=> l = i
      BY <1>4, <2>3, <3>1, <3>2, MaximalBefore
    <3>4. o2 = Append(o, Reported(L, i, j)) /\ Reported(L, i, j) \in AllReports(L)
      <4>1. Reported(L, i, j) = IF Unobserved(L[j], s) THEN Closed(Outage(L, i, j), Null, "gap")
                             ELSE Closed(Outage(L, i, j), s.ts, "recovered")
        BY <3>2, ReportedIs
      <4>2. Reported(L, i, j) \in AllReports(L)
        BY <3>2 DEF AllReports
      <4> HIDE DEF s, j
      <4> QED BY <1>2, <1>4, <2>3, <3>1, <3>2, <4>1, <4>2
    <3> HIDE DEF o2, j, gap
    <3>5. \A r : r \in ToSet(o2) <=> r \in ToSet(o) \/ r = Reported(L, i, j)
      BY <1>6, <3>4, ToSetAppend
    <3>6. o2 \in Seq(AllReports(L))
      BY <1>6, <3>4, ToSetAppend
    <3> QED BY <1>6, <2>1, <3>2, <3>3, <3>5, <3>6
  <2>4. CASE c # Null /\ ~(gap \/ s.bad = {})
    <3>1. o2 = o
      BY <2>4
    <3>2. j \in Places(L) /\ k > 1
      BY <1>7, <2>4
    <3>3. \A l \in Places(L) : ~Maximal(L, l, j)
      BY <1>2, <1>4, <2>4, <3>2, MaximalBefore
    <3> HIDE DEF o2, j, gap
    <3> QED BY <1>6, <2>1, <3>1, <3>3
  <2> QED BY <2>2, <2>3, <2>4
<1>10. s.bad = {} => c2 = Null
  OBVIOUS
<1>11. ASSUME s.bad # {} PROVE \E i \in 1..k : Left(L, i, k) /\ c2 = Outage(L, i, k)
  <2>1. CASE c = Null \/ gap
    <3>1. c2 = Outage(L, k, k)
      BY <1>11, <2>1, OutageOne
    <3>2. k > 1 => L[k - 1].bad = {} \/ Unobserved(L[k - 1], L[k])
      <4> SUFFICES ASSUME k > 1, ~gap PROVE L[k - 1].bad = {}
        BY <1>4
      <4>1. j # 0 /\ j > 0 /\ j \in Places(L)
        BY <1>2
      <4>2. L[j].bad = {}
        <5> SUFFICES ASSUME L[j].bad # {} PROVE FALSE
          OBVIOUS
        <5>1. PICK l \in 1..j : Left(L, l, j) /\ c = Outage(L, l, j)
          BY <1>6, <4>1
        <5>2. l \in Places(L) /\ l <= j
          BY <1>2, LogRows DEF Places
        <5> QED BY <2>1, <4>1, <5>1, <5>2, OutageType
      <4> QED BY <4>1, <4>2
    <3>3. Stretch(L, k, k)
      BY <1>2, <1>11 DEF Stretch
    <3>4. k \in 1..k
      BY <1>2
    <3> QED BY <3>1, <3>2, <3>3, <3>4 DEF Left
  <2>2. CASE ~(c = Null \/ gap)
    <3>1. PICK i \in Places(L) : Left(L, i, j) /\ c = Outage(L, i, j)
      BY <1>7, <2>2
    <3>2. i \in 1..j /\ i < k /\ i \in 1..k /\ j # 0
      BY <1>2, <1>7, <2>2, <3>1 DEF Left
    <3>3. c2 = Outage(L, i, k)
      BY <1>11, <2>2, <3>1, <3>2, OutageMore
    <3>4. Stretch(L, i, k)
      <4>1. \A l \in i..k : l \in i..j \/ l = k
        BY <1>2
      <4>2. \A l \in i..(k - 1) : l \in i..(j - 1) \/ (l = j /\ l + 1 = k)
        BY <1>2
      <4>3. /\ \A l \in i..j : L[l].bad # {}
            /\ \A l \in i..(j - 1) : ~Unobserved(L[l], L[l + 1])
        BY <3>1 DEF Left, Stretch
      <4>4. ~Unobserved(L[j], L[k])
        BY <1>4, <2>2, <3>2
      <4>5. \A l \in i..k : L[l].bad # {}
        BY <1>11, <4>1, <4>3
      <4>6. \A l \in i..(k - 1) : ~Unobserved(L[l], L[l + 1])
        BY <4>2, <4>3, <4>4
      <4>7. i <= k
        BY <1>2, <3>2
      <4> QED BY <4>5, <4>6, <4>7 DEF Stretch
    <3>5. Left(L, i, k)
      BY <3>1, <3>2, <3>4 DEF Left
    <3> QED BY <3>2, <3>3, <3>5
  <2> QED BY <2>1, <2>2
<1> HIDE DEF o2, c2, j, gap
<1>12. ScanIs(L, k, o2, c2)
  BY <1>2, <1>5, <1>9, <1>10, <1>11 DEF ScanIs
<1> QED BY <1>12 DEF ScanOK

LEMMA ScansOK == ASSUME NEW L \in Seq(SampleRows) PROVE \A k \in 0..Len(L) : ScanOK(L, k)
<1> DEFINE Bad == {k \in 0..Len(L) : ~ScanOK(L, k)}
<1>1. Len(L) \in Nat
  BY LogRows
<1>2. ScanOK(L, 0)
  <2>1. Scan(L)[0] = [outages |-> <<>>, cur |-> Null, prev |-> Null]
    BY ScanSteps DEF NothingSeen
  <2>2. <<>> \in Seq(AllReports(L)) /\ ToSet(<<>>) = {}
    BY EmptySeq DEF ToSet
  <2>3. \A l \in Places(L) : ~(l < 0)
    BY <1>1 DEF Places
  <2>4. ScanIs(L, 0, <<>>, Null)
    BY <2>1, <2>2, <2>3 DEF ScanIs
  <2> QED BY <2>4 DEF ScanOK
<1>3. Bad = {}
  <2> SUFFICES ASSUME Bad # {} PROVE FALSE
    OBVIOUS
  <2>1. Bad \subseteq Nat
    BY <1>1
  <2>2. PICK k \in Bad : \A l \in Bad : k <= l
    <3> HIDE DEF Bad
    <3> QED BY <2>1, LeastNat
  <2>3. k \in Places(L) /\ k - 1 \in 0..Len(L) /\ ~(k <= k - 1)
    BY <1>1, <1>2, <2>2 DEF Places
  <2>4. ScanOK(L, k - 1)
    BY <2>2, <2>3
  <2> QED BY <2>2, <2>3, <2>4, ScanStep
<1> QED BY <1>3

LEMMA LogReports ==
  ASSUME NEW L \in Seq(SampleRows)
  PROVE  ToSet(Analyze(L)) = {Reported(L, p[1], p[2]) : p \in Longest(L)}
<1> DEFINE n == Len(L)
           p == IF n = 0 THEN Null ELSE L[n]
           last == [outages |-> <<>>, cur |-> Null, prev |-> p]
<1>1. n \in Nat /\ Places(L) = 1..n
  BY LogRows DEF Places
<1>2. PICK o, c : ScanIs(L, n, o, c)
  BY <1>1, ScansOK DEF ScanOK
<1> DEFINE report == IF c = Null THEN o ELSE Append(o, Closed(c, Null, "ongoing"))
<1>3. Analyze(L) = report
  <2> DEFINE seen == [outages |-> o, cur |-> c, prev |-> p]
             new == Append(o, Closed(c, Null, "ongoing"))
             y == [seen EXCEPT !.outages = new]
  <2>1. Scan(L)[n] = seen
    BY <1>2 DEF ScanIs
  <2>2. seen.cur = c /\ seen.outages = o /\ y.outages = new /\ [y EXCEPT !.cur = Null].outages = new
    OBVIOUS
  <2> HIDE DEF seen
  <2>3. Close(seen, Null, "ongoing").outages = report
    BY <2>2 DEF Close
  <2> QED BY <2>1, <2>3, AnalyzeScans
<1>4. \A r : r \in ToSet(report) <=>
        \E i, j \in Places(L) : Maximal(L, i, j) /\ r = Reported(L, i, j)
  <2>1. \A j \in Places(L) : j < n \/ j = n
    BY <1>1
  <2>2. \A r : r \in ToSet(o) <=>
          \E i, j \in Places(L) : j < n /\ Maximal(L, i, j) /\ r = Reported(L, i, j)
    BY <1>2 DEF ScanIs
  <2>3. CASE n = 0 \/ L[n].bad = {}
    <3>1. report = o
      BY <1>2, <2>3 DEF ScanIs
    <3>2. \A i, j \in Places(L) : Maximal(L, i, j) => j < n
      BY <1>1, <2>1, <2>3, MaximalFails
    <3> HIDE DEF report, n
    <3> QED BY <2>2, <3>1, <3>2
  <2>4. CASE n # 0 /\ L[n].bad # {}
    <3>1. PICK i \in 1..n : Left(L, i, n) /\ c = Outage(L, i, n)
      BY <1>1, <1>2, <2>4 DEF ScanIs
    <3>2. i \in Places(L) /\ n \in Places(L) /\ i <= n
      BY <1>1, <2>4
    <3>3. c # Null
      BY <3>1, <3>2, OutageType
    <3>4. Reported(L, i, n) = Closed(c, Null, "ongoing") /\ Reported(L, i, n) \in AllReports(L)
      BY <3>1, <3>2, ReportedIs DEF AllReports
    <3>5. report = Append(o, Reported(L, i, n))
      BY <3>3, <3>4
    <3>6. \A l \in Places(L) : Maximal(L, l, n) <=> l = i
      BY <3>1, <3>2, MaximalLast, LeftUnique
    <3>7. o \in Seq(AllReports(L))
      BY <1>2 DEF ScanIs
    <3> HIDE DEF report, n
    <3>8. \A r : r \in ToSet(report) <=> r \in ToSet(o) \/ r = Reported(L, i, n)
      BY <3>4, <3>5, <3>7, ToSetAppend
    <3> QED BY <2>1, <2>2, <3>2, <3>6, <3>8
  <2> QED BY <2>3, <2>4
<1> HIDE DEF report
<1>5. \A r : r \in {Reported(L, q[1], q[2]) : q \in Longest(L)}
               <=> \E i, j \in Places(L) : Maximal(L, i, j) /\ r = Reported(L, i, j)
  <2>1. DOMAIN L = Places(L)
    BY LogRows
  <2>2. ASSUME NEW r, r \in {Reported(L, q[1], q[2]) : q \in Longest(L)}
        PROVE  \E i, j \in Places(L) : Maximal(L, i, j) /\ r = Reported(L, i, j)
    BY <2>1, <2>2 DEF Longest
  <2>3. ASSUME NEW i \in Places(L), NEW j \in Places(L), Maximal(L, i, j)
        PROVE  Reported(L, i, j) \in {Reported(L, q[1], q[2]) : q \in Longest(L)}
    <3>1. <<i, j>> \in Longest(L) /\ <<i, j>>[1] = i /\ <<i, j>>[2] = j
      BY <2>1, <2>3 DEF Longest
    <3> QED BY <3>1
  <2> QED BY <2>2, <2>3
<1> QED BY <1>3, <1>4, <1>5

------------------------------------------------------------------------------
(* The samples in the order of their times *)

\* A row goes to one place and moves the later ones by one.
LEMMA InsertedIs ==
  ASSUME NEW L \in Seq(SampleRows), NEW s \in SampleRows
  PROVE  \E n \in 0..Len(L) :
           /\ n = Cardinality({k \in DOMAIN L : L[k].ts <= s.ts})
           /\ Inserted(L, s) \in Seq(SampleRows) /\ Len(Inserted(L, s)) = Len(L) + 1
           /\ \A k \in 1..n : Inserted(L, s)[k] = L[k]
           /\ Inserted(L, s)[n + 1] = s
           /\ \A k \in (n + 2)..(Len(L) + 1) : Inserted(L, s)[k] = L[k - 1]
<1> DEFINE m == Len(L)
           T == {k \in DOMAIN L : L[k].ts <= s.ts}
           n == Cardinality(T)
<1>1. m \in Nat /\ DOMAIN L = 1..m /\ \A k \in 1..m : L[k] \in SampleRows
  BY LogRows DEF Places
<1>2. n \in Nat /\ n <= m
  <2>2. T \subseteq 1..m
    BY <1>1
  <2> HIDE DEF T, m
  <2>1. IsFiniteSet(1..m) /\ Cardinality(1..m) = m
    BY <1>1, FS_Interval
  <2>3. IsFiniteSet(T) /\ Cardinality(T) <= Cardinality(1..m)
    BY <2>1, <2>2, FS_Subset
  <2> QED BY <2>1, <2>3, FS_CardinalityType
<1> HIDE DEF n, m
<1> DEFINE front == SubSeq(L, 1, n)
           back == SubSeq(L, n + 1, m)
<1>3. Inserted(L, s) = (front \o <<s>>) \o back
  <2>1. Inserted(L, s) = SubSeq(L, 1, (1 + n) - 1) \o <<s>> \o SubSeq(L, 1 + n, m)
    BY DEF Inserted, InsertAt, n, m
  <2>2. (1 + n) - 1 = n /\ 1 + n = n + 1
    BY <1>2
  <2> QED BY <2>1, <2>2
<1>4. /\ front \in Seq(SampleRows) /\ Len(front) = n
      /\ \A k \in 1..n : front[k] = L[k]
  <2>1. \A k \in 1..n : L[k] \in SampleRows
    BY <1>1, <1>2
  <2>2. /\ front \in Seq(SampleRows) /\ Len(front) = IF 1 <= n THEN n - 1 + 1 ELSE 0
        /\ \A k \in 1..(n - 1 + 1) : front[k] = L[1 + k - 1]
    BY <1>2, <2>1, SubSeqProperties
  <2> HIDE DEF front
  <2>3. \A k \in 1..n : k \in 1..(n - 1 + 1) /\ 1 + k - 1 = k
    BY <1>2
  <2> QED BY <1>2, <2>2, <2>3
<1>5. /\ back \in Seq(SampleRows) /\ Len(back) = m - n
      /\ \A k \in 1..(m - n) : back[k] = L[n + k]
  <2>1. \A k \in (n + 1)..m : L[k] \in SampleRows
    BY <1>1, <1>2
  <2>2. /\ back \in Seq(SampleRows) /\ Len(back) = IF n + 1 <= m THEN m - (n + 1) + 1 ELSE 0
        /\ \A k \in 1..(m - (n + 1) + 1) : back[k] = L[(n + 1) + k - 1]
    BY <1>1, <1>2, <2>1, SubSeqProperties
  <2> HIDE DEF back
  <2>3. \A k \in 1..(m - n) : k \in 1..(m - (n + 1) + 1) /\ (n + 1) + k - 1 = n + k
    BY <1>1, <1>2
  <2> QED BY <1>1, <1>2, <2>2, <2>3
<1> HIDE DEF front, back
<1> DEFINE upto == front \o <<s>>
<1>6. /\ upto \in Seq(SampleRows) /\ Len(upto) = n + 1
      /\ (\A k \in 1..n : upto[k] = L[k]) /\ upto[n + 1] = s
  <2>1. <<s>> \in Seq(SampleRows) /\ Len(<<s>>) = 1 /\ <<s>>[1] = s
    OBVIOUS
  <2>2. /\ upto \in Seq(SampleRows) /\ Len(upto) = Len(front) + Len(<<s>>)
        /\ \A i \in 1..(Len(front) + Len(<<s>>)) :
             upto[i] = IF i <= Len(front) THEN front[i] ELSE <<s>>[i - Len(front)]
    BY <1>4, <2>1, ConcatProperties
  <2> HIDE DEF upto
  <2>3. \A i \in 1..(n + 1) : upto[i] = IF i <= n THEN front[i] ELSE <<s>>[i - n]
    BY <1>4, <2>1, <2>2
  <2>4. \A k \in 1..n : k \in 1..(n + 1) /\ k <= n
    BY <1>2
  <2>5. n + 1 \in 1..(n + 1) /\ ~(n + 1 <= n) /\ (n + 1) - n = 1
    BY <1>2
  <2>6. upto[n + 1] = s
    BY <2>1, <2>3, <2>5
  <2> QED BY <1>4, <2>1, <2>2, <2>3, <2>4, <2>6
<1> HIDE DEF upto
<1>7. /\ upto \o back \in Seq(SampleRows) /\ Len(upto \o back) = m + 1
      /\ \A i \in 1..(m + 1) : (upto \o back)[i] = IF i <= n + 1 THEN upto[i] ELSE back[i - (n + 1)]
  <2>1. /\ upto \o back \in Seq(SampleRows) /\ Len(upto \o back) = Len(upto) + Len(back)
        /\ \A i \in 1..(Len(upto) + Len(back)) :
             (upto \o back)[i] = IF i <= Len(upto) THEN upto[i] ELSE back[i - Len(upto)]
    BY <1>5, <1>6, ConcatProperties
  <2>2. (n + 1) + (m - n) = m + 1
    BY <1>1, <1>2
  <2> QED BY <1>5, <1>6, <2>1, <2>2
<1> DEFINE all == upto \o back
<1>8. Inserted(L, s) = all
  BY <1>3 DEF upto
<1> HIDE DEF all
<1>9. \A i \in 1..(m + 1) : all[i] = IF i <= n + 1 THEN upto[i] ELSE back[i - (n + 1)]
  BY <1>7 DEF all
<1>10. /\ \A k \in 1..n : all[k] = L[k]
       /\ all[n + 1] = s
  <2>1. \A k \in 1..n : k \in 1..(m + 1) /\ k <= n + 1
    BY <1>1, <1>2
  <2>2. n + 1 \in 1..(m + 1) /\ n + 1 <= n + 1
    BY <1>1, <1>2
  <2> QED BY <1>6, <1>9, <2>1, <2>2
<1>11. \A k \in (n + 2)..(m + 1) : all[k] = L[k - 1]
  <2>1. \A k \in (n + 2)..(m + 1) : /\ k \in 1..(m + 1) /\ ~(k <= n + 1)
                                    /\ k - (n + 1) \in 1..(m - n) /\ n + (k - (n + 1)) = k - 1
    BY <1>1, <1>2
  <2> QED BY <1>5, <1>9, <2>1
<1>12. n \in 0..m
  BY <1>1, <1>2
<1> QED BY <1>7, <1>8, <1>10, <1>11, <1>12 DEF n, m, all

\* The recursive function of Chronological, and what it is up to a sample.
Sorts(f, m) ==
  f = [k \in 0..m |-> IF k = 0 THEN <<>> ELSE Inserted(f[k - 1], samples[k])]
Sorted == CHOOSE f : Sorts(f, Len(samples))

LEMMA SortExists == ASSUME InOrder PROVE Sorts(Sorted, Len(samples))
<1> DEFINE Bad == {m \in Nat : ~\E f : Sorts(f, m)}
<1>1. Bad = {}
  <2> SUFFICES ASSUME Bad # {} PROVE FALSE
    OBVIOUS
  <2>1. PICK m \in Bad : \A k \in Bad : m <= k
    <3>1. Bad \subseteq Nat
      OBVIOUS
    <3> HIDE DEF Bad
    <3> QED BY <3>1, LeastNat
  <2>2. m # 0
    <3>1. Sorts([k \in 0..0 |-> <<>>], 0)
      BY DEF Sorts
    <3> QED BY <2>1, <3>1
  <2>3. m - 1 \in Nat /\ m - 1 \notin Bad /\ m \in Nat
    BY <2>1, <2>2
  <2>4. PICK f : Sorts(f, m - 1)
    BY <2>3
  <2> DEFINE g == [k \in 0..m |-> IF k = m THEN Inserted(f[m - 1], samples[m]) ELSE f[k]]
  <2>5. \A k \in 0..(m - 1) : g[k] = f[k] /\ f[k] = IF k = 0 THEN <<>>
                                            ELSE Inserted(f[k - 1], samples[k])
    <3>1. \A k \in 0..(m - 1) : k \in 0..m /\ k # m
      BY <2>3
    <3> QED BY <2>4, <3>1 DEF Sorts
  <2>6. g[m] = Inserted(f[m - 1], samples[m]) /\ m - 1 \in 0..(m - 1)
    BY <2>3
  <2>7. \A k \in 0..m : g[k] = IF k = 0 THEN <<>> ELSE Inserted(g[k - 1], samples[k])
    <3> SUFFICES ASSUME NEW k \in 0..m
                 PROVE  g[k] = IF k = 0 THEN <<>> ELSE Inserted(g[k - 1], samples[k])
      OBVIOUS
    <3> HIDE DEF g
    <3>1. CASE k = m
      BY <2>2, <2>5, <2>6, <3>1
    <3>2. CASE k # m
      <4>1. k \in 0..(m - 1) /\ (k # 0 => k - 1 \in 0..(m - 1))
        BY <2>3, <3>2
      <4> QED BY <2>5, <4>1
    <3> QED BY <3>1, <3>2
  <2>8. g = [k \in 0..m |-> g[k]]
    OBVIOUS
  <2> HIDE DEF g
  <2>9. Sorts(g, m)
    BY <2>7, <2>8 DEF Sorts
  <2> QED BY <2>1, <2>9
<1>2. Len(samples) \in Nat
  BY Rows
<1>3. \E f : Sorts(f, Len(samples))
  BY <1>1, <1>2
<1> QED BY <1>3 DEF Sorted

LEMMA SortSteps ==
  ASSUME InOrder
  PROVE  /\ Sorted[0] = <<>> /\ Chronological(samples) = Sorted[Len(samples)]
         /\ \A k \in Numbers : Sorted[k] = Inserted(Sorted[k - 1], samples[k])
<1>1. Len(samples) \in Nat
  BY Rows
<1>2. \A k \in 0..Len(samples) :
        Sorted[k] = IF k = 0 THEN <<>> ELSE Inserted(Sorted[k - 1], samples[k])
  BY SortExists DEF Sorts
<1>3. Chronological(samples) = Sorted[Len(samples)]
  BY DEF Chronological, Sorted, Sorts
<1> QED BY <1>1, <1>2, <1>3 DEF Numbers

\* The samples a to b are where the clock would have them.
Kept(a, b) ==
  \A k \in a..b, i \in Numbers :
    /\ i < k => samples[i].ts <= samples[k].ts
    /\ k < i => samples[k].ts <= samples[i].ts

\* The first m samples sorted: a to b, as far as among them, stayed where they
\* were, and those before them among themselves.
SortIs(a, b, m) ==
  /\ Sorted[m] \in Seq(SampleRows) /\ Len(Sorted[m]) = m
  /\ \A k \in 1..m :
       /\ \E i \in 1..m : Sorted[m][k] = samples[i] /\ (k < a => i < a)
       /\ k \in a..b => Sorted[m][k] = samples[k]

LEMMA SortStep ==
  ASSUME InOrder, NEW a \in Numbers, NEW b \in Numbers, a <= b, Kept(a, b),
         NEW m \in Nat, m + 1 \in Numbers, SortIs(a, b, m)
  PROVE  SortIs(a, b, m + 1)
<1> DEFINE L == Sorted[m]
           s == samples[m + 1]
           M == Inserted(L, s)
           T == {k \in DOMAIN L : L[k].ts <= s.ts}
<1>1. /\ L \in Seq(SampleRows) /\ Len(L) = m /\ s \in SampleRows /\ Sorted[m + 1] = M
      /\ DOMAIN L = 1..m
  <2>1. (m + 1) - 1 = m
    OBVIOUS
  <2>2. Sorted[m + 1] = M
    BY <2>1, SortSteps
  <2>3. DOMAIN L = 1..Len(L)
    BY LenProperties DEF SortIs
  <2> QED BY <2>2, <2>3, Rows DEF SortIs
<1>2. \A k \in 1..m : /\ \E i \in 1..m : L[k] = samples[i] /\ (k < a => i < a)
                      /\ k \in a..b => L[k] = samples[k]
  BY DEF SortIs
<1>3. a \in Nat \ {0} /\ b \in Nat /\ 1..(m + 1) \subseteq Numbers
      /\ \A k \in Numbers : samples[k].ts \in Int
  BY Rows, Constants DEF Numbers
<1> HIDE DEF L, s
<1>4. PICK n \in 0..m :
        /\ n = Cardinality(T)
        /\ M \in Seq(SampleRows) /\ Len(M) = m + 1
        /\ \A k \in 1..n : M[k] = L[k]
        /\ M[n + 1] = s
        /\ \A k \in (n + 2)..(m + 1) : M[k] = L[k - 1]
  BY <1>1, InsertedIs
<1> HIDE DEF M
\* A sample of the stretch goes to the end.
<1>5. ASSUME m + 1 \in a..b PROVE n = m
  <2>1. \A k \in 1..m : L[k].ts <= s.ts
    <3> SUFFICES ASSUME NEW k \in 1..m PROVE L[k].ts <= s.ts
      OBVIOUS
    <3>1. PICK i \in 1..m : L[k] = samples[i]
      BY <1>2
    <3>2. i \in Numbers /\ i < m + 1
      BY <1>3
    <3>3. samples[i].ts <= samples[m + 1].ts
      BY <1>5, <3>2 DEF Kept
    <3> QED BY <3>1, <3>3 DEF s
  <2>2. T = 1..m
    BY <1>1, <2>1
  <2>3. Cardinality(1..m) = m
    BY FS_Interval
  <2> QED BY <1>4, <2>2, <2>3
\* One after it goes after it.
<1>6. ASSUME b < m + 1 PROVE b <= n
  <2>1. \A k \in 1..b : k \in 1..m /\ L[k].ts <= s.ts
    <3> SUFFICES ASSUME NEW k \in 1..b PROVE k \in 1..m /\ L[k].ts <= s.ts
      OBVIOUS
    <3>0. k \in 1..m /\ k \in Nat
      BY <1>3, <1>6
    <3>1. CASE k < a
      <4>1. PICK i \in 1..m : L[k] = samples[i] /\ i < a
        BY <1>2, <3>0, <3>1
      <4>2. i \in Numbers /\ a \in a..b /\ a < m + 1 /\ m + 1 \in Numbers
        BY <1>3, <1>6
      <4>3. samples[i].ts <= samples[a].ts
        BY <4>1, <4>2 DEF Kept
      <4>4. samples[a].ts <= samples[m + 1].ts
        BY <4>2 DEF Kept
      <4>5. samples[i].ts \in Int /\ samples[a].ts \in Int /\ samples[m + 1].ts \in Int
        BY <1>3, <4>2
      <4>6. samples[i].ts <= samples[m + 1].ts
        BY <4>3, <4>4, <4>5
      <4> QED BY <3>0, <4>1, <4>6 DEF s
    <3>2. CASE k \in a..b
      <4>1. L[k] = samples[k] /\ k < m + 1
        BY <1>2, <3>0, <3>2
      <4>2. samples[k].ts <= samples[m + 1].ts
        BY <3>2, <4>1 DEF Kept
      <4> QED BY <3>0, <4>1, <4>2 DEF s
    <3> QED BY <1>3, <3>0, <3>1, <3>2
  <2>2. 1..b \subseteq T
    BY <1>1, <2>1
  <2>3. IsFiniteSet(T)
    <3>1. IsFiniteSet(1..m)
      BY FS_Interval
    <3>2. T \subseteq 1..m
      BY <1>1
    <3> HIDE DEF T
    <3> QED BY <3>1, <3>2, FS_Subset
  <2>4. Cardinality(1..b) = b
    BY <1>3, FS_Interval
  <2> HIDE DEF T
  <2>5. Cardinality(1..b) <= Cardinality(T)
    BY <2>2, <2>3, FS_Subset
  <2> QED BY <1>4, <2>4, <2>5
<1> HIDE DEF T
<1>7. ASSUME NEW k \in 1..(m + 1)
      PROVE  /\ \E i \in 1..(m + 1) : M[k] = samples[i] /\ (k < a => i < a)
             /\ k \in a..b => M[k] = samples[k]
  <2>0. k \in Nat /\ n \in Nat /\ n <= m
    BY <1>4
  <2>1. CASE k <= n
    <3>1. k \in 1..m /\ k \in 1..n /\ M[k] = L[k]
      BY <1>4, <2>0, <2>1
    <3>2. PICK i \in 1..m : L[k] = samples[i] /\ (k < a => i < a)
      BY <1>2, <3>1
    <3>3. i \in 1..(m + 1)
      OBVIOUS
    <3> QED BY <1>2, <3>1, <3>2, <3>3
  <2>2. CASE k = n + 1
    <3>1. M[k] = samples[m + 1] /\ m + 1 \in 1..(m + 1)
      BY <1>4, <2>2 DEF s
    <3>2. k < a => m + 1 < a
      BY <1>3, <1>5, <1>6, <2>0, <2>2
    <3>3. k \in a..b => k = m + 1
      BY <1>3, <1>5, <1>6, <2>0, <2>2
    <3> QED BY <3>1, <3>2, <3>3
  <2>3. CASE k > n + 1
    <3>1. k - 1 \in 1..m /\ k \in (n + 2)..(m + 1) /\ M[k] = L[k - 1]
      BY <1>4, <2>0, <2>3
    <3>2. PICK i \in 1..m : L[k - 1] = samples[i] /\ (k - 1 < a => i < a)
      BY <1>2, <3>1
    <3>3. i \in 1..(m + 1) /\ (k < a => k - 1 < a)
      BY <1>3, <2>0
    <3>4. k \notin a..b
      BY <1>3, <1>5, <1>6, <2>0, <2>3
    <3> QED BY <3>1, <3>2, <3>3, <3>4
  <2> QED BY <2>0, <2>1, <2>2, <2>3
<1> QED BY <1>1, <1>4, <1>7 DEF SortIs

LEMMA SortedUp ==
  ASSUME InOrder, NEW a \in Numbers, NEW b \in Numbers, a <= b, Kept(a, b)
  PROVE  SortIs(a, b, Len(samples))
<1> DEFINE Bad == {k \in 0..Len(samples) : ~SortIs(a, b, k)}
<1>1. Len(samples) \in Nat
  BY Rows
<1>2. SortIs(a, b, 0)
  <2>1. Sorted[0] = <<>> /\ <<>> \in Seq(SampleRows) /\ Len(<<>>) = 0
    BY SortSteps, EmptySeq
  <2>2. 1..0 = {}
    OBVIOUS
  <2> QED BY <2>1, <2>2 DEF SortIs
<1>3. Bad = {}
  <2> SUFFICES ASSUME Bad # {} PROVE FALSE
    OBVIOUS
  <2>1. Bad \subseteq Nat
    BY <1>1
  <2>2. PICK k \in Bad : \A l \in Bad : k <= l
    <3> HIDE DEF Bad
    <3> QED BY <2>1, LeastNat
  <2>3. k \in Numbers /\ k - 1 \in 0..Len(samples) /\ ~(k <= k - 1) /\ (k - 1) + 1 = k
        /\ k - 1 \in Nat
    BY <1>1, <1>2, <2>2 DEF Numbers
  <2>4. SortIs(a, b, k - 1)
    BY <2>2, <2>3
  <2>5. SortIs(a, b, (k - 1) + 1)
    BY <2>3, <2>4, SortStep
  <2> QED BY <2>2, <2>3, <2>5
<1> QED BY <1>1, <1>3

\* The log the report reads is as long as the samples and of their rows, and
\* has what the clock did not touch where it was.
LEMMA ChronologicalIs ==
  ASSUME InOrder
  PROVE  /\ Chronological(samples) \in Seq(SampleRows)
         /\ Len(Chronological(samples)) = Len(samples)
         /\ \A a, b \in Numbers : a <= b /\ Kept(a, b) =>
              \A k \in a..b : Chronological(samples)[k] = samples[k]
<1> DEFINE L == Chronological(samples)
<1>1. Len(samples) \in Nat /\ L = Sorted[Len(samples)]
  BY Rows, SortSteps
<1>2. L \in Seq(SampleRows) /\ Len(L) = Len(samples)
  <2> DEFINE Bad == {k \in 0..Len(samples) :
                       ~(Sorted[k] \in Seq(SampleRows) /\ Len(Sorted[k]) = k)}
  <2>1. Bad = {}
    <3> SUFFICES ASSUME Bad # {} PROVE FALSE
      OBVIOUS
    <3>1. Bad \subseteq Nat
      BY <1>1
    <3>2. PICK k \in Bad : \A l \in Bad : k <= l
      <4> HIDE DEF Bad
      <4> QED BY <3>1, LeastNat
    <3>3. k # 0
      <4>1. <<>> \in Seq(SampleRows) /\ Len(<<>>) = 0
        BY EmptySeq
      <4> QED BY <3>2, <4>1, SortSteps
    <3>4. k \in Numbers /\ k - 1 \in 0..Len(samples) /\ ~(k <= k - 1) /\ (k - 1) + 1 = k
      BY <1>1, <3>2, <3>3 DEF Numbers
    <3>5. Sorted[k - 1] \in Seq(SampleRows) /\ Len(Sorted[k - 1]) = k - 1
      BY <3>2, <3>4
    <3>6. Inserted(Sorted[k - 1], samples[k]) \in Seq(SampleRows)
          /\ Len(Inserted(Sorted[k - 1], samples[k])) = Len(Sorted[k - 1]) + 1
      BY <3>4, <3>5, Rows, InsertedIs
    <3>7. Sorted[k] \in Seq(SampleRows) /\ Len(Sorted[k]) = k
      BY <3>4, <3>5, <3>6, SortSteps
    <3> QED BY <3>2, <3>7
  <2> QED BY <1>1, <2>1
<1>3. ASSUME NEW a \in Numbers, NEW b \in Numbers, a <= b, Kept(a, b), NEW k \in a..b
      PROVE  L[k] = samples[k]
  <2>1. SortIs(a, b, Len(samples))
    BY <1>3, SortedUp
  <2>2. k \in 1..Len(samples)
    BY <1>1 DEF Numbers
  <2> QED BY <1>1, <2>1, <2>2 DEF SortIs
<1> QED BY <1>2, <1>3

LEMMA InOrderReports == InOrder => ReportsStretches
BY ChronologicalIs, LogReports DEF ReportsStretches, Report

\* The report lists exactly the longest stretches of failing samples with
\* nothing unobserved between them, in the order of their times, for samples of
\* any number and any corrections of the clock (analyze, read_jsonl).
THEOREM StretchesAreReported == Spec => []ReportsStretches
<1>1. IInv => ReportsStretches
  BY InOrderReports DEF IInv
<1> QED BY <1>1, Invariance, PTL

------------------------------------------------------------------------------
(* The events agree with the samples and the report *)

LEMMA RecoveriesObserved == IInv => RecoveriesAreObserved
<1> SUFFICES ASSUME IInv, NEW r \in recoveries
             PROVE  /\ \A k \in r.from..r.to :
                         /\ r.check \in samples[k].bad <=> k < r.to
                         /\ samples[k].session = samples[r.to].session
                    /\ (r.from > 1 /\ samples[r.from - 1].session = samples[r.to].session)
                         => r.check \notin samples[r.from - 1].bad
  BY DEF RecoveriesAreObserved
<1>1. /\ r \in Events /\ r.from < r.to /\ r.check \notin samples[r.to].bad
      /\ FailingSince(samples, r.check, r.from, r.to - 1, samples[r.to].session)
  BY DEF IInv, Logged, RecoveryOK
<1>2. r.from \in Nat /\ r.to \in Nat
  <2>1. r.from \in Numbers /\ r.to \in Numbers
    BY <1>1 DEF Events
  <2> QED BY <2>1, Rows DEF IInv
<1>3. ASSUME NEW k \in r.from..r.to
      PROVE  (r.check \in samples[k].bad <=> k < r.to)
             /\ samples[k].session = samples[r.to].session
  <2>1. CASE k = r.to
    BY <1>1, <1>2, <2>1
  <2>2. CASE k # r.to
    <3>1. k \in r.from..(r.to - 1) /\ k < r.to
      BY <1>2, <2>2
    <3> QED BY <1>1, <3>1 DEF FailingSince
  <2> QED BY <2>1, <2>2
<1>4. (r.from > 1 /\ samples[r.from - 1].session = samples[r.to].session)
        => r.check \notin samples[r.from - 1].bad
  BY <1>1 DEF FailingSince
<1> QED BY <1>3, <1>4

LEMMA OutagesReported == IInv => OutagesAreReported
<1> DEFINE L == Chronological(samples)
<1> SUFFICES ASSUME IInv, NEW e \in endings, InPlace(e), Seen(e)
             PROVE  \E i \in 1..e.start :
                      LET o == Reported(L, i, e.end - 1)
                          checks == {c \in Checks : o.outage.failed[c] > 0}
                      IN  /\ o \in ToSet(Report)
                          /\ o.by = "recovered" /\ o.end = samples[e.end].ts
                          /\ e.checks \subseteq checks /\ e.peak <= o.outage.peak
                          /\ i = e.start => e.checks = checks /\ e.peak = o.outage.peak
  BY DEF OutagesAreReported
<1> DEFINE a == e.start
           b == e.end
           j == b - 1
           n == Len(samples)
<1>1. /\ e \in Endings /\ a < b /\ samples[b].bad = {}
      /\ Failed(samples, a, j, e.checks, e.peak)
  BY DEF IInv, Logged, EndingOK
<1>2. /\ n \in Nat /\ a \in 1..n /\ b \in 1..n /\ Numbers = 1..n /\ e.checks \subseteq Checks
      /\ a \in Numbers /\ b \in Numbers
  BY <1>1, Rows DEF Endings, IInv, Numbers
<1>3. Kept(a, b)
  <2>1. DOMAIN samples = Numbers
    BY Rows DEF IInv
  <2> QED BY <2>1 DEF InPlace, Kept
<1>4. \A k \in (a + 1)..b : ~Unobserved(samples[k - 1], samples[k])
  BY DEF Seen
<1> HIDE DEF a, b, n
<1>5. /\ L \in Seq(SampleRows) /\ Len(L) = n
      /\ \A k \in a..b : L[k] = samples[k]
  <2>1. a <= b
    BY <1>1, <1>2
  <2> QED BY <1>2, <1>3, <2>1, ChronologicalIs DEF IInv, n
<1> HIDE DEF L
<1>6. Places(L) = 1..n
  BY <1>5 DEF Places
<1>7. /\ a \in Nat /\ b \in Nat /\ a >= 1 /\ a <= j /\ b > 1 /\ j + 1 = b /\ j \in 1..n
      /\ j # n /\ j \in Nat /\ a \in a..b /\ b \in a..b /\ j \in a..b
      /\ \A k \in a..j : k \in a..b /\ k + 1 \in a..b /\ k + 1 \in (a + 1)..b /\ (k + 1) - 1 = k
  BY <1>1, <1>2
<1> HIDE DEF j
<1>8. Failed(L, a, j, e.checks, e.peak) /\ L[b].bad = {}
  BY <1>1, <1>5, <1>7, FailedKept
<1>9. \A k \in a..j : ~Unobserved(L[k], L[k + 1])
  BY <1>4, <1>5, <1>7
<1>10. Stretch(L, a, j)
  <2>1. \A k \in a..(j - 1) : k \in a..j
    BY <1>7
  <2> QED BY <1>7, <1>8, <1>9, <2>1 DEF Stretch, Failed
<1>11. PICK i \in 1..a : Left(L, i, j)
  <2> DEFINE T == {i \in 1..a : Stretch(L, i, j)}
  <2>1. a \in T /\ T \subseteq Nat
    BY <1>7, <1>10
  <2>2. PICK i \in T : \A l \in T : i <= l
    <3> HIDE DEF T
    <3> QED BY <2>1, LeastNat
  <2>3. i \in 1..a /\ i \in 1..j /\ i \in Nat /\ i <= j /\ Stretch(L, i, j)
    BY <1>7, <2>2
  <2>4. ASSUME i > 1, ~(L[i - 1].bad = {} \/ Unobserved(L[i - 1], L[i])) PROVE FALSE
    <3>1. i - 1 \in 1..a /\ i - 1 <= j /\ ~(i <= i - 1) /\ (i - 1) + 1 = i
      BY <1>7, <2>3, <2>4
    <3>2. (\A k \in (i - 1)..j : k = i - 1 \/ k \in i..j)
          /\ (\A k \in (i - 1)..(j - 1) : k = i - 1 \/ k \in i..(j - 1))
      BY <1>7, <2>3
    <3>3. L[(i - 1) + 1] = L[i]
      BY <3>1
    <3>4. Stretch(L, i - 1, j)
      BY <2>3, <2>4, <3>1, <3>2, <3>3 DEF Stretch
    <3>5. i - 1 \in T
      BY <3>1, <3>4
    <3> QED BY <2>2, <3>1, <3>5
  <2>5. Left(L, i, j)
    BY <2>3, <2>4 DEF Left
  <2> QED BY <2>3, <2>5
<1>12. i \in Places(L) /\ j \in Places(L) /\ b \in Places(L) /\ i <= j /\ i \in Nat
  BY <1>2, <1>6, <1>7
<1>13. Maximal(L, i, j)
  <2>1. b - 1 = j
    BY <1>7
  <2>2. Maximal(L, i, b - 1)
    BY <1>5, <1>7, <1>8, <1>11, <1>12, <2>1, MaximalBefore
  <2> QED BY <2>1, <2>2
<1> DEFINE o == Reported(L, i, j)
<1>14. o \in ToSet(Report)
  <2>1. <<i, j>> \in Longest(L) /\ <<i, j>>[1] = i /\ <<i, j>>[2] = j
    BY <1>5, <1>12, <1>13, LogRows DEF Longest
  <2>2. o \in {Reported(L, q[1], q[2]) : q \in Longest(L)}
    BY <2>1
  <2>3. ToSet(Report) = {Reported(L, p[1], p[2]) : p \in Longest(L)}
    BY InOrderReports DEF IInv, ReportsStretches, L
  <2> QED BY <2>2, <2>3
<1>15. o = Closed(Outage(L, i, j), samples[b].ts, "recovered")
  <2>1. ~Unobserved(L[j], L[j + 1]) /\ L[j + 1] = samples[b] /\ j # Len(L)
    BY <1>5, <1>7, <1>9
  <2> QED BY <1>5, <1>12, <2>1, ReportedIs
<1> HIDE DEF o
<1>16. /\ o.by = "recovered" /\ o.end = samples[b].ts /\ o.outage = Outage(L, i, j)
  BY <1>15 DEF Closed
<1>17. /\ o.outage.peak = Max(Sizes(L, i, j))
       /\ \A c \in Checks : o.outage.failed[c] = Cardinality(Fails(L, i, j, c))
  BY <1>16 DEF Outage
<1>18. \A k \in a..j : k \in i..j
  BY <1>7, <1>12
<1>19. /\ e.peak \in Sizes(L, i, j) /\ e.peak <= Max(Sizes(L, i, j))
  <2>1. PICK k \in a..j : Cardinality(L[k].bad) = e.peak
    BY <1>8 DEF Failed
  <2>2. e.peak \in Sizes(L, i, j)
    BY <1>18, <2>1 DEF Sizes
  <2> QED BY <1>5, <1>12, <2>2, SizesOK
<1>20. ASSUME NEW c \in Checks
       PROVE  Cardinality(Fails(L, i, j, c)) > 0 <=> Fails(L, i, j, c) # {}
  <2>1. /\ IsFiniteSet(Fails(L, i, j, c)) /\ Cardinality(Fails(L, i, j, c)) \in Nat
    BY <1>5, <1>12, FailsOK
  <2>2. Cardinality(Fails(L, i, j, c)) = 0 <=> Fails(L, i, j, c) = {}
    BY <2>1, FS_EmptySet
  <2> QED BY <2>1, <2>2
<1>21. \A c \in e.checks : o.outage.failed[c] > 0
  <2> SUFFICES ASSUME NEW c \in e.checks PROVE o.outage.failed[c] > 0
    OBVIOUS
  <2>1. c \in Checks
    BY <1>2
  <2>2. PICK k \in a..j : c \in L[k].bad
    BY <1>8, <2>1 DEF Failed
  <2>3. Fails(L, i, j, c) # {}
    BY <1>18, <2>2 DEF Fails
  <2> QED BY <1>17, <1>20, <2>1, <2>3
<1>22. ASSUME i = a PROVE e.peak = o.outage.peak
                          /\ e.checks = {c \in Checks : o.outage.failed[c] > 0}
  <2>1. \A x \in Sizes(L, i, j) : x <= e.peak
    BY <1>8, <1>22 DEF Failed, Sizes
  <2>2. Max(Sizes(L, i, j)) \in Sizes(L, i, j) /\ Sizes(L, i, j) \subseteq Nat
    BY <1>5, <1>12, SizesOK
  <2>3. e.peak = Max(Sizes(L, i, j))
    BY <1>19, <2>1, <2>2
  <2>4. ASSUME NEW c \in Checks, o.outage.failed[c] > 0 PROVE c \in e.checks
    <3>1. Fails(L, i, j, c) # {}
      BY <1>17, <1>20, <2>4
    <3>2. PICK k \in a..j : c \in L[k].bad
      BY <1>22, <3>1 DEF Fails
    <3> QED BY <1>8, <3>2 DEF Failed
  <2> QED BY <1>2, <1>17, <1>21, <2>3, <2>4
<1>23. e.checks \subseteq {c \in Checks : o.outage.failed[c] > 0}
  BY <1>2, <1>21
<1>24. e.peak <= o.outage.peak
  BY <1>17, <1>19
<1> QED BY <1>11, <1>14, <1>16, <1>22, <1>23, <1>24 DEF o, j, a, b

\* The events agree with the samples and with the report: an outage they close
\* is reported, unless a pause divided it or the clock was corrected across it,
\* and a check that recovered had failed since it is said to have, however
\* often the logger ended (run, analyze).
THEOREM EventsAgreeWithReport == Spec => []EventsAgree
<1>1. IInv => EventsAgree
  BY OutagesReported, RecoveriesObserved DEF EventsAgree
<1> QED BY <1>1, Invariance, PTL
=============================================================================
