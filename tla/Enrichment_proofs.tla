-------------------------- MODULE Enrichment_proofs --------------------------
(***************************************************************************)
(* Proofs about Enrichment, for all notes, units, saves and runs.          *)
(***************************************************************************)
EXTENDS Enrichment, FiniteSetTheorems, SequenceTheorems, WellFoundedInduction, TLAPS

LEMMA LeastNat ==
  ASSUME NEW T, T \subseteq Nat, T # {} PROVE \E x \in T : \A y \in T : x <= y
<1>1. PICK x \in T : \A y \in T : <<y, x>> \notin OpToRel(<, Nat)
  BY NatLessThanWellFounded, WFMin
<1>2. \A y \in T : ~(y < x)
  BY <1>1 DEF OpToRel
<1> QED BY <1>2

Notes == Seq(DOMAIN MakeOf)

LEMMA NotesOf ==
  ASSUME notes \in NoteBooks, NEW p \in Purchases PROVE notes[p] \in Notes
BY EnrichmentOK DEF Notes

------------------------------------------------------------------------------
(* The token the model is read from *)

\* Where the loop may stop, from j on, and where it does.
Stops(n, make, j) == {k \in j..(Len(n) + 1) : k = Len(n) + 1 \/ ~Skips(n, make, k)}
Least(S) == CHOOSE k \in S : \A i \in S : k <= i

\* What the recursive function of Follower is.
Follows(f, n, make) ==
  f = [j \in 1..(Len(n) + 1) |->
         IF j <= Len(n) /\ Skips(n, make, j) THEN f[j + 1] ELSE j]

LEMMA Unfold ==
  ASSUME NEW n, NEW make, NEW from
  PROVE  Follower(n, make, from) = (CHOOSE f : Follows(f, n, make))[from]
BY DEF Follower, Follows

LEMMA FollowerExists ==
  ASSUME NEW n \in Notes, NEW make PROVE \E f : Follows(f, n, make)
<1> DEFINE f == [j \in 1..(Len(n) + 1) |-> Least(Stops(n, make, j))]
<1>0. Len(n) \in Nat
  BY DEF Notes
<1>1. ASSUME NEW j \in 1..(Len(n) + 1), j <= Len(n) /\ Skips(n, make, j)
      PROVE  f[j] = f[j + 1]
  <2>1. j + 1 \in 1..(Len(n) + 1)
    BY <1>0, <1>1
  <2>2. Stops(n, make, j) = Stops(n, make, j + 1)
    BY <1>0, <1>1 DEF Stops
  <2> QED BY <2>1, <2>2
<1>2. ASSUME NEW j \in 1..(Len(n) + 1), ~(j <= Len(n) /\ Skips(n, make, j))
      PROVE  f[j] = j
  <2>1. j \in Stops(n, make, j) /\ \A i \in Stops(n, make, j) : j <= i
    BY <1>0, <1>2 DEF Stops
  <2>2. \A i \in Stops(n, make, j) : i \in Int
    BY <1>0 DEF Stops
  <2>3. Least(Stops(n, make, j)) = j
    BY <2>1, <2>2 DEF Least
  <2> QED BY <2>3
<1>3. f = [j \in 1..(Len(n) + 1) |->
             IF j <= Len(n) /\ Skips(n, make, j) THEN f[j + 1] ELSE j]
  <2>1. \A j \in 1..(Len(n) + 1) :
          f[j] = IF j <= Len(n) /\ Skips(n, make, j) THEN f[j + 1] ELSE j
    BY <1>1, <1>2
  <2>2. f = [j \in 1..(Len(n) + 1) |-> f[j]]
    OBVIOUS
  <2> HIDE DEF f
  <2> QED BY <2>1, <2>2
<1> HIDE DEF f
<1> QED BY <1>3 DEF Follows

\* The loop passes over colors and the make, and over nothing else.
LEMMA FollowerStops ==
  ASSUME NEW n \in Notes, NEW make, NEW from \in 1..(Len(n) + 1)
  PROVE  LET j == Follower(n, make, from) IN
         /\ j \in from..(Len(n) + 1)
         /\ \A k \in from..(j - 1) : Skips(n, make, k)
         /\ j <= Len(n) => ~Skips(n, make, j)
<1>0. Len(n) \in Nat
  BY DEF Notes
<1>1. PICK f : Follows(f, n, make) /\ Follower(n, make, from) = f[from]
  BY FollowerExists, Unfold
<1>2. \A j \in 1..(Len(n) + 1) :
        f[j] = IF j <= Len(n) /\ Skips(n, make, j) THEN f[j + 1] ELSE j
  BY <1>1 DEF Follows
<1> DEFINE Good(j) == /\ f[j] \in j..(Len(n) + 1)
                      /\ \A k \in j..(f[j] - 1) : Skips(n, make, k)
                      /\ f[j] <= Len(n) => ~Skips(n, make, f[j])
           Bad == {m \in Nat : m <= Len(n) /\ ~Good(Len(n) + 1 - m)}
<1>3. ASSUME NEW j \in 1..(Len(n) + 1), ~(j <= Len(n) /\ Skips(n, make, j))
      PROVE  Good(j)
  <2>1. f[j] = j
    BY <1>2, <1>3
  <2> QED BY <1>0, <1>3, <2>1
<1>4. ASSUME NEW j \in 1..(Len(n) + 1), j <= Len(n) /\ Skips(n, make, j), Good(j + 1)
      PROVE  Good(j)
  <2>1. f[j] = f[j + 1]
    BY <1>2, <1>4
  <2>2. f[j] \in (j + 1)..(Len(n) + 1)
    BY <1>4, <2>1
  <2>3. \A k \in j..(f[j] - 1) : k = j \/ k \in (j + 1)..(f[j + 1] - 1)
    BY <1>0, <2>1, <2>2
  <2> QED BY <1>0, <1>4, <2>1, <2>2, <2>3
<1> HIDE DEF Good
<1>5. Bad = {}
  <2> SUFFICES ASSUME Bad # {} PROVE FALSE
    OBVIOUS
  <2>1. PICK m \in Bad : \A k \in Bad : m <= k
    <3>1. Bad \subseteq Nat
      OBVIOUS
    <3> HIDE DEF Bad
    <3> QED BY <3>1, LeastNat
  <2> DEFINE j == Len(n) + 1 - m
  <2>2. m \in Nat /\ m <= Len(n) /\ ~Good(j) /\ j \in 1..(Len(n) + 1)
    BY <1>0, <2>1
  <2>3. j <= Len(n) /\ Skips(n, make, j)
    BY <1>3, <2>2
  <2>4. m - 1 \in Nat /\ m - 1 <= Len(n) /\ j + 1 = Len(n) + 1 - (m - 1)
    BY <1>0, <2>2, <2>3
  <2>5. Good(j + 1)
    BY <2>1, <2>2, <2>4
  <2> QED BY <1>4, <2>2, <2>3, <2>5
<1>6. Good(from)
  <2>1. /\ Len(n) + 1 - from \in Nat /\ Len(n) + 1 - from <= Len(n)
        /\ Len(n) + 1 - (Len(n) + 1 - from) = from
    BY <1>0
  <2> QED BY <1>5, <2>1
<1> QED BY <1>1, <1>6 DEF Good

\* The make is the first there is.
LEMMA MakeIsFirst ==
  ASSUME NEW n \in Notes, MakeAt(n) # 0
  PROVE  /\ IsMake(n, MakeAt(n)) /\ MakeAt(n) \in 1..Len(n)
         /\ \A j \in 1..(MakeAt(n) - 1) : ~IsMake(n, j)
<1> DEFINE Makes == {i \in 1..Len(n) : IsMake(n, i)}
<1>0. Len(n) \in Nat /\ DOMAIN n = 1..Len(n)
  BY DEF Notes
<1>1. Makes # {} /\ Makes \subseteq Nat
  BY <1>0 DEF MakeAt, IsMake
<1>2. PICK i \in Makes : \A j \in Makes : i <= j
  <2> HIDE DEF Makes
  <2> QED BY <1>1, LeastNat
<1>3. IsMake(n, i) /\ i \in DOMAIN n /\ \A j \in 1..(i - 1) : ~IsMake(n, j)
  BY <1>0, <1>2
<1> DEFINE First(k) == IsMake(n, k) /\ \A j \in 1..(k - 1) : ~IsMake(n, j)
<1>4. MakeAt(n) = CHOOSE k \in DOMAIN n : First(k)
  BY <1>3 DEF MakeAt
<1>5. \E k \in DOMAIN n : First(k)
  BY <1>3
<1>6. MakeAt(n) \in DOMAIN n /\ First(MakeAt(n))
  <2> HIDE DEF First
  <2> QED BY <1>4, <1>5
<1> QED BY <1>0, <1>6

LEMMA TwoOf ==
  ASSUME NEW n \in Notes, NEW j \in 1..Len(n), j < Len(n)
  PROVE  SubSeq(n, j, j + 1) = <<n[j], n[j + 1]>>
<1>0. Len(n) \in Nat
  BY DEF Notes
<1> DEFINE s == SubSeq(n, j, j + 1)
<1>1. \A i \in j..(j + 1) : n[i] \in DOMAIN MakeOf
  BY <1>0 DEF Notes
<1>2. /\ s \in Seq(DOMAIN MakeOf) /\ Len(s) = 2
      /\ \A i \in 1..((j + 1) - j + 1) : s[i] = n[j + i - 1]
  <2>1. /\ s \in Seq(DOMAIN MakeOf)
        /\ Len(s) = IF j <= j + 1 THEN (j + 1) - j + 1 ELSE 0
        /\ \A i \in 1..((j + 1) - j + 1) : s[i] = n[j + i - 1]
    <3>1. j \in Int /\ j + 1 \in Int
      BY <1>0
    <3> QED BY <1>1, <3>1, SubSeqProperties
  <2> QED BY <2>1
<1>3. s[1] = n[j] /\ s[2] = n[j + 1]
  <2>1. 1 \in 1..((j + 1) - j + 1) /\ 2 \in 1..((j + 1) - j + 1)
        /\ j + 1 - 1 = j /\ j + 2 - 1 = j + 1
    OBVIOUS
  <2> HIDE DEF s
  <2> QED BY <1>2, <2>1
<1>4. s = <<n[j], n[j + 1]>>
  <2> HIDE DEF s
  <2> QED BY <1>2, <1>3
<1> QED BY <1>4

\* What ModelFrom finds at j.
LEMMA ModelAt ==
  ASSUME NEW n \in Notes, NEW j \in 1..(Len(n) + 1), ModelFrom(n, j) # Null
  PROVE  /\ j \in 1..Len(n)
         /\ \/ ModelFrom(n, j) = <<n[j]>>
            \/ /\ j < Len(n) /\ n[j + 1] \in Series
               /\ ModelFrom(n, j) = <<n[j], n[j + 1]>>
<1>0. Len(n) \in Nat
  BY DEF Notes
<1>1. CASE j > Len(n)
  BY <1>1 DEF ModelFrom
<1>2. CASE ~(j > Len(n))
  <2>0. j \in 1..Len(n)
    BY <1>0, <1>2
  <2>1. CASE n[j] \in Numbers
    BY <1>2, <2>0, <2>1 DEF ModelFrom
  <2>2. CASE n[j] \notin Numbers /\ n[j] \in Codes
    BY <1>2, <2>0, <2>2 DEF ModelFrom
  <2>3. CASE n[j] \notin Numbers /\ n[j] \notin Codes
    BY <1>2, <2>0, <2>3 DEF ModelFrom
  <2> QED BY <2>1, <2>2, <2>3
<1> QED BY <1>1, <1>2

\* The model read from notes begins with the first token after the make that
\* is neither a color nor the make again, whatever the notes
\* (find_make_and_model).
THEOREM ModelsFollowMakes == Spec => []ModelFollowsMake
<1>1. ASSUME notes \in NoteBooks PROVE ModelFollowsMake
  <2> SUFFICES ASSUME NEW p \in Purchases, Proposal(notes[p]).model # Null
               PROVE  LET n == notes[p]
                          model == Proposal(n).model
                          Passed(k) == n[k] \in Colors \/ MakeOf[n[k]] = Proposal(n).make
                      IN  \E i, j \in DOMAIN n :
                            /\ IsMake(n, i) /\ i < j /\ ~Passed(j)
                            /\ \A k \in 1..(i - 1) : MakeOf[n[k]] = Null
                            /\ \A k \in i..(j - 1) : Passed(k)
                            /\ model = <<n[j]>> \/ model = SubSeq(n, j, j + 1)
                            /\ Len(model) = 2 => n[j + 1] \in Numbers
    BY DEF ModelFollowsMake
  <2>1. PICK n \in Notes : n = notes[p]
    BY <1>1, NotesOf
  <2>2. PICK i : i = MakeAt(n)
    OBVIOUS
  <2>3. /\ i # 0
        /\ Proposal(n).model = ModelFrom(n, Follower(n, MakeOf[n[i]], i + 1))
        /\ Proposal(n).make = MakeOf[n[i]]
    BY <2>1, <2>2 DEF Proposal
  <2>4. /\ IsMake(n, i) /\ i \in 1..Len(n) /\ \A k \in 1..(i - 1) : ~IsMake(n, k)
        /\ Len(n) \in Nat /\ DOMAIN n = 1..Len(n)
    BY <2>2, <2>3, MakeIsFirst DEF Notes
  <2>5. PICK j : j = Follower(n, MakeOf[n[i]], i + 1)
    OBVIOUS
  <2>6. /\ j \in (i + 1)..(Len(n) + 1)
        /\ \A k \in (i + 1)..(j - 1) : Skips(n, MakeOf[n[i]], k)
        /\ j <= Len(n) => ~Skips(n, MakeOf[n[i]], j)
    BY <2>4, <2>5, FollowerStops
  <2>7. PICK model : model = ModelFrom(n, j) /\ model = Proposal(n).model /\ model # Null
    BY <2>1, <2>3, <2>5
  <2>8. /\ j \in 1..Len(n)
        /\ \/ model = <<n[j]>>
           \/ j < Len(n) /\ n[j + 1] \in Series /\ model = <<n[j], n[j + 1]>>
    <3>1. j \in 1..(Len(n) + 1) /\ ModelFrom(n, j) # Null
      BY <2>4, <2>6, <2>7
    <3> QED BY <2>7, <3>1, ModelAt
  <2>9. /\ ~(n[j] \in Colors \/ MakeOf[n[j]] = MakeOf[n[i]])
        /\ \A k \in i..(j - 1) : n[k] \in Colors \/ MakeOf[n[k]] = MakeOf[n[i]]
    <3>1. ~Skips(n, MakeOf[n[i]], j)
      BY <2>4, <2>6, <2>8
    <3>2. \A k \in i..(j - 1) : k = i \/ k \in (i + 1)..(j - 1)
      BY <2>4, <2>8
    <3> QED BY <2>6, <3>1, <3>2 DEF Skips
  <2>10. \A k \in 1..(i - 1) : MakeOf[n[k]] = Null
    BY <2>4 DEF IsMake
  <2>11. /\ model = <<n[j]>> \/ model = SubSeq(n, j, j + 1)
         /\ Len(model) = 2 => n[j + 1] \in Numbers
    <3>1. CASE model = <<n[j]>>
      BY <3>1
    <3>2. CASE j < Len(n) /\ n[j + 1] \in Series /\ model = <<n[j], n[j + 1]>>
      <4>1. SubSeq(n, j, j + 1) = <<n[j], n[j + 1]>>
        BY <2>4, <2>8, <3>2, TwoOf
      <4> QED BY <3>2, <4>1, EnrichmentOK
    <3> QED BY <2>8, <3>1, <3>2
  <2>12. i < j /\ i \in DOMAIN n /\ j \in DOMAIN n
    BY <2>4, <2>6, <2>8
  <2> QED BY <2>1, <2>3, <2>4, <2>7, <2>9, <2>10, <2>11, <2>12
<1>2. Init => notes \in NoteBooks
  BY DEF Init
<1>3. notes \in NoteBooks /\ [Next]_vars => (notes \in NoteBooks)'
  BY DEF Next, vars, Load, Commit, Interrupt, SaveUnit
<1> QED BY <1>1, <1>2, <1>3, PTL DEF Spec

------------------------------------------------------------------------------
(* What a proposal is made of *)

LEMMA YearFound ==
  ASSUME NEW n PROVE FindYear(n) \in OrNull(Years)
<1>1. CASE Cardinality(Range(n) \cap Years) = 1
  <2>1. Range(n) \cap Years # {}
    BY <1>1, FS_EmptySet
  <2>2. (CHOOSE y \in Range(n) \cap Years : TRUE) \in Range(n) \cap Years
    BY <2>1
  <2> QED BY <1>1, <2>2 DEF FindYear, OrNull
<1>2. CASE Cardinality(Range(n) \cap Years) # 1
  BY <1>2 DEF FindYear, OrNull
<1> QED BY <1>1, <1>2

LEMMA MakeFound ==
  ASSUME NEW n \in Notes PROVE Proposal(n).make \in OrNull(Range(MakeOf))
<1>1. CASE MakeAt(n) = 0
  BY <1>1 DEF Proposal, OrNull
<1>2. CASE MakeAt(n) # 0
  <2>1. n[MakeAt(n)] \in DOMAIN MakeOf
    BY <1>2, MakeIsFirst DEF Notes
  <2>2. Proposal(n).make = MakeOf[n[MakeAt(n)]]
    BY <1>2 DEF Proposal
  <2> QED BY <2>1, <2>2 DEF Range, OrNull
<1> QED BY <1>1, <1>2

Models == {Null} \cup [1..1 -> DOMAIN MakeOf] \cup [1..2 -> DOMAIN MakeOf]

LEMMA ModelFound ==
  ASSUME NEW n \in Notes PROVE Proposal(n).model \in Models
<1> SUFFICES ASSUME Proposal(n).model # Null PROVE Proposal(n).model \in Models
  BY DEF Models
<1>1. PICK i : i = MakeAt(n)
  OBVIOUS
<1>2. PICK j : j = Follower(n, MakeOf[n[i]], i + 1)
  OBVIOUS
<1>3. i # 0 /\ Proposal(n).model = ModelFrom(n, j)
  BY <1>1, <1>2 DEF Proposal
<1>4. i \in 1..Len(n) /\ Len(n) \in Nat
  BY <1>1, <1>3, MakeIsFirst DEF Notes
<1>5. j \in 1..(Len(n) + 1)
  BY <1>2, <1>4, FollowerStops
<1>6. /\ j \in 1..Len(n)
      /\ \/ ModelFrom(n, j) = <<n[j]>>
         \/ j < Len(n) /\ ModelFrom(n, j) = <<n[j], n[j + 1]>>
  BY <1>3, <1>5, ModelAt
<1>7. n[j] \in DOMAIN MakeOf /\ (j < Len(n) => n[j + 1] \in DOMAIN MakeOf)
  BY <1>4, <1>6 DEF Notes
<1>8. /\ <<n[j]>> \in [1..1 -> DOMAIN MakeOf]
      /\ j < Len(n) => <<n[j], n[j + 1]>> \in [1..2 -> DOMAIN MakeOf]
  BY <1>7
<1> QED BY <1>3, <1>6, <1>8 DEF Models

\* What each field may hold.
May(f) == CASE f = "year"  -> OrNull(Years) \cup Typed("year")
            [] f = "make"  -> OrNull(Range(MakeOf)) \cup Typed("make")
            [] f = "model" -> Models \cup Typed("model")

LEMMA Described ==
  ASSUME NEW row, row = [f \in Fields |-> row[f]]
  PROVE  row \in Descriptions <=> \A f \in Fields : row[f] \in May(f)
<1> DEFINE Y == OrNull(Years) \cup Typed("year")
           K == OrNull(Range(MakeOf)) \cup Typed("make")
           M == Models \cup Typed("model")
<1>1. Descriptions = [year: Y, make: K, model: M]
  BY DEF Descriptions, Models
<1>2. May("year") = Y /\ May("make") = K /\ May("model") = M
  BY DEF May
<1>3. row \in [year: Y, make: K, model: M] <=>
        row["year"] \in Y /\ row["make"] \in K /\ row["model"] \in M
  <2> HIDE DEF Y, K, M
  <2> QED BY DEF Fields
<1> HIDE DEF Y, K, M
<1> QED BY <1>1, <1>2, <1>3 DEF Fields

LEMMA Proposed ==
  ASSUME NEW n \in Notes
  PROVE  /\ \A f \in Fields : Proposal(n)[f] \in May(f)
         /\ Proposal(n) = [f \in Fields |-> Proposal(n)[f]]
<1>1. /\ Proposal(n).year \in May("year")
      /\ Proposal(n).make \in May("make")
      /\ Proposal(n).model \in May("model")
  <2>1. Proposal(n).year = FindYear(n)
    BY DEF Proposal
  <2> QED BY <2>1, YearFound, MakeFound, ModelFound DEF May
<1>2. Proposal(n) = [f \in Fields |-> Proposal(n)[f]]
  <2>1. ASSUME NEW y, NEW k, NEW m, NEW r, r = [year |-> y, make |-> k, model |-> m]
        PROVE  r = [f \in Fields |-> r[f]]
    BY <2>1 DEF Fields
  <2> QED BY <2>1 DEF Proposal
<1> QED BY <1>1, <1>2 DEF Fields

------------------------------------------------------------------------------
(* The inductive invariant *)

\* A run has taken notes of the unit itself, and what it loaded is still there
\* unless the form has saved the unit since.
RunGood ==
  run # Idle =>
    /\ \A u \in Units : run.first[u] \in PurchasesOf(u)
    /\ \A u \in Units \ raced : run.loaded[u] = described[u]

RacedSaved == \A u \in raced : typed[u] # Null

\* The two clauses of FromItsNotes, of one unit.
Sourced(u) ==
  \A f \in Fields : described[u][f] # Null =>
    \E p \in PurchasesOf(u) : described[u][f] = Proposal(notes[p])[f]
OneStory(u) ==
  \A p \in Purchases :
    PurchasesOf(u) = {p} => described[u] \in {Proposal(notes[p]), Blank}
FromNotes == \A u \in Units : typed[u] = Null => Sourced(u) /\ OneStory(u)

EInv == TypeOK /\ RunGood /\ RacedSaved /\ TypedStays /\ FromNotes

LEMMA NotesTell == FromNotes => FromItsNotes
<1> SUFFICES ASSUME FromNotes, NEW u \in Units, typed[u] = Null
             PROVE  /\ \A f \in Fields : described[u][f] # Null =>
                          \E s \in {Proposal(notes[p]) : p \in PurchasesOf(u)} :
                             described[u][f] = s[f]
                    /\ OneStory(u)
  BY DEF FromItsNotes, OneStory
<1>1. Sourced(u) /\ OneStory(u)
  BY DEF FromNotes
<1>2. ASSUME NEW f \in Fields, described[u][f] # Null
      PROVE  \E s \in {Proposal(notes[p]) : p \in PurchasesOf(u)} : described[u][f] = s[f]
  <2>1. PICK p \in PurchasesOf(u) : described[u][f] = Proposal(notes[p])[f]
    BY <1>1, <1>2 DEF Sourced
  <2> QED BY <2>1
<1> QED BY <1>1, <1>2

LEMMA StartsBlank == Init => EInv
<1> SUFFICES ASSUME Init PROVE EInv
  OBVIOUS
<1>1. Blank \in Descriptions
  <2>1. Blank = [f \in Fields |-> Blank[f]] /\ \A f \in Fields : Blank[f] \in May(f)
    BY DEF Blank, May, Fields, OrNull, Models
  <2> QED BY <2>1, Described
<1>2. TypeOK
  BY <1>1, EnrichmentOK DEF Init, TypeOK, OrNull
<1>3. RunGood /\ RacedSaved
  BY DEF Init, RunGood, RacedSaved
<1>4. TypedStays
  BY DEF Init, TypedStays
<1>5. FromNotes
  BY DEF Init, FromNotes, Sourced, OneStory, Blank
<1> QED BY <1>2, <1>3, <1>4, <1>5 DEF EInv

\* What a commit makes of a field.
Filled(u, f) ==
  Fill(run.loaded[u][f], Proposal(notes[run.first[u]])[f], described[u][f])

LEMMA Commits ==
  ASSUME Commit
  PROVE  \A u \in Units : /\ described'[u] = [f \in Fields |-> Filled(u, f)]
                           /\ \A f \in Fields : described'[u][f] = Filled(u, f)
BY DEF Commit, Filled

LEMMA OrKept ==
  ASSUME NEW u, NEW f
  PROVE  Filled(u, f) \in {described[u][f], Proposal(notes[run.first[u]])[f]}
BY DEF Filled, Fill

LEMMA SavedRow ==
  ASSUME NEW row \in Saved PROVE row \in Descriptions /\ row # Null
<1>1. row = [f \in Fields |-> row[f]] /\ row # Null
  BY EnrichmentOK
<1>2. \A f \in Fields : row[f] \in Typed(f)
  BY DEF Typed
<1>3. \A f \in Fields : row[f] \in May(f)
  BY <1>2 DEF May, Fields
<1> QED BY <1>1, <1>3, Described

LEMMA StaysTyped == TypeOK /\ RunGood /\ [Next]_vars => TypeOK'
<1> SUFFICES ASSUME TypeOK, RunGood, [Next]_vars PROVE TypeOK'
  OBVIOUS
<1>0. MaxSaves \in Nat
  BY EnrichmentOK
<1>1. CASE Load
  BY <1>1 DEF Load, TypeOK
<1>2. CASE Commit
  <2>1. ASSUME NEW u \in Units PROVE described'[u] \in Descriptions
    <3>1. run.first[u] \in Purchases /\ notes \in NoteBooks
      BY <1>2 DEF TypeOK, Commit
    <3>2. notes[run.first[u]] \in Notes
      BY <3>1, NotesOf
    <3>3. \A f \in Fields : Proposal(notes[run.first[u]])[f] \in May(f)
      BY <3>2, Proposed
    <3>4. described[u] \in Descriptions
      BY DEF TypeOK
    <3>5. described[u] = [f \in Fields |-> described[u][f]]
      BY <3>4 DEF Descriptions, Fields
    <3>6. \A f \in Fields : described[u][f] \in May(f)
      BY <3>4, <3>5, Described
    <3>7. \A f \in Fields : described'[u][f] \in May(f)
      BY <1>2, <3>3, <3>6, Commits, OrKept
    <3>8. described'[u] = [f \in Fields |-> described'[u][f]]
      BY <1>2, Commits
    <3> QED BY <3>7, <3>8, Described
  <2>2. described' \in [Units -> Descriptions]
    BY <1>2, <2>1 DEF Commit
  <2> QED BY <1>2, <2>2 DEF Commit, TypeOK
<1>3. CASE Interrupt
  BY <1>3 DEF Interrupt, TypeOK
<1>4. ASSUME NEW u \in Units, NEW row \in Saved, SaveUnit(u, row) PROVE TypeOK'
  <2>1. row \in Descriptions
    BY SavedRow
  <2>2. described' \in [Units -> Descriptions] /\ typed' \in [Units -> OrNull(Saved)]
    BY <1>4, <2>1 DEF SaveUnit, TypeOK, OrNull
  <2>3. raced' \subseteq Units /\ saves' \in 0..MaxSaves
    BY <1>0, <1>4 DEF SaveUnit, TypeOK
  <2> QED BY <1>4, <2>2, <2>3 DEF SaveUnit, TypeOK
<1>5. CASE UNCHANGED vars
  BY <1>5 DEF vars, TypeOK
<1> QED BY <1>1, <1>2, <1>3, <1>4, <1>5 DEF Next

LEMMA RunStaysGood ==
  TypeOK /\ RunGood /\ RacedSaved /\ [Next]_vars => RunGood' /\ RacedSaved'
<1> SUFFICES ASSUME TypeOK, RunGood, RacedSaved, [Next]_vars
             PROVE  RunGood' /\ RacedSaved'
  OBVIOUS
<1>1. CASE Load
  BY <1>1 DEF Load, RunGood, RacedSaved, PurchasesOf
<1>2. CASE Commit
  BY <1>2 DEF Commit, RunGood, RacedSaved
<1>3. CASE Interrupt
  BY <1>3 DEF Interrupt, RunGood, RacedSaved
<1>4. ASSUME NEW u \in Units, NEW row \in Saved, SaveUnit(u, row)
      PROVE  RunGood' /\ RacedSaved'
  <2>1. row # Null
    BY SavedRow
  <2>2. /\ \A v \in Units \ {u} : typed'[v] = typed[v] /\ described'[v] = described[v]
        /\ typed'[u] = row /\ run' = run
        /\ run # Idle => raced' = raced \cup {u}
        /\ run = Idle => raced' = raced
    BY <1>4 DEF SaveUnit, TypeOK
  <2>3. RunGood'
    BY <2>2 DEF RunGood, PurchasesOf
  <2>4. RacedSaved'
    BY <2>1, <2>2 DEF RacedSaved, TypeOK
  <2> QED BY <2>3, <2>4
<1>5. CASE UNCHANGED vars
  BY <1>5 DEF vars, RunGood, RacedSaved, PurchasesOf
<1> QED BY <1>1, <1>2, <1>3, <1>4, <1>5 DEF Next

LEMMA TypedIsKept == EInv /\ [Next]_vars => TypedStays'
<1> SUFFICES ASSUME EInv, [Next]_vars PROVE TypedStays'
  OBVIOUS
<1>1. CASE Load
  BY <1>1 DEF Load, EInv, TypedStays
<1>2. CASE Commit
  <2> SUFFICES ASSUME NEW u \in Units \ raced, NEW f \in Fields,
                      typed[u] # Null, typed[u][f] # Null
               PROVE  described'[u][f] = typed[u][f]
    BY <1>2 DEF Commit, TypedStays
  <2>1. described[u][f] = typed[u][f] /\ run.loaded[u] = described[u]
    BY <1>2 DEF EInv, TypedStays, RunGood, Commit
  <2>2. Filled(u, f) = described[u][f]
    BY <2>1 DEF Filled, Fill
  <2> QED BY <1>2, <2>1, <2>2, Commits
<1>3. CASE Interrupt
  BY <1>3 DEF Interrupt, EInv, TypedStays
<1>4. ASSUME NEW u \in Units, NEW row \in Saved, SaveUnit(u, row) PROVE TypedStays'
  <2>1. /\ \A v \in Units \ {u} : typed'[v] = typed[v] /\ described'[v] = described[v]
        /\ typed'[u] = row /\ described'[u] = row /\ raced \subseteq raced'
    BY <1>4 DEF SaveUnit, EInv, TypeOK
  <2> QED BY <2>1 DEF EInv, TypedStays
<1>5. CASE UNCHANGED vars
  BY <1>5 DEF vars, EInv, TypedStays
<1> QED BY <1>1, <1>2, <1>3, <1>4, <1>5 DEF Next

LEMMA NotesStillTell == EInv /\ [Next]_vars => FromNotes'
<1> SUFFICES ASSUME EInv, [Next]_vars PROVE FromNotes'
  OBVIOUS
<1>1. CASE Load
  BY <1>1 DEF Load, EInv, FromNotes, Sourced, OneStory, PurchasesOf
<1>2. CASE Commit
  <2> SUFFICES ASSUME NEW u \in Units, typed[u] = Null
               PROVE  Sourced(u)' /\ OneStory(u)'
    BY <1>2 DEF Commit, FromNotes
  <2>0. run # Idle /\ notes' = notes
    BY <1>2 DEF Commit
  <2>1. Sourced(u) /\ OneStory(u) /\ u \notin raced
    BY DEF EInv, FromNotes, RacedSaved
  <2>2. run.loaded[u] = described[u] /\ run.first[u] \in PurchasesOf(u)
    BY <2>0, <2>1 DEF EInv, RunGood
  <2>3. Sourced(u)'
    <3> SUFFICES ASSUME NEW f \in Fields, described'[u][f] # Null
                 PROVE  \E p \in PurchasesOf(u) : described'[u][f] = Proposal(notes[p])[f]
      BY <2>0 DEF Sourced, PurchasesOf
    <3>1. described'[u][f] = Filled(u, f)
      BY <1>2, Commits
    <3>2. CASE Filled(u, f) = Proposal(notes[run.first[u]])[f]
      BY <2>2, <3>1, <3>2
    <3>3. CASE Filled(u, f) = described[u][f]
      BY <2>1, <3>1, <3>3 DEF Sourced
    <3> QED BY <3>2, <3>3, OrKept
  <2>4. OneStory(u)'
    <3> SUFFICES ASSUME NEW p \in Purchases, PurchasesOf(u) = {p}
                 PROVE  described'[u] = Proposal(notes[p])
      BY <2>0 DEF OneStory, PurchasesOf
    <3>1. run.first[u] = p
      BY <2>2
    <3>2. notes[p] \in Notes
      BY NotesOf DEF EInv, TypeOK
    <3>3. PICK P : P = Proposal(notes[p]) /\ P = [f \in Fields |-> P[f]]
      BY <3>2, Proposed
    <3>4. described[u] = P \/ \A f \in Fields : described[u][f] = Null
      BY <2>1, <3>3 DEF OneStory, Blank
    <3>5. \A f \in Fields : Filled(u, f) = P[f]
      BY <2>2, <3>1, <3>3, <3>4 DEF Filled, Fill
    <3>6. described'[u] = [f \in Fields |-> P[f]]
      BY <1>2, <3>5, Commits
    <3> QED BY <3>3, <3>6
  <2> QED BY <2>3, <2>4
<1>3. CASE Interrupt
  BY <1>3 DEF Interrupt, EInv, FromNotes, Sourced, OneStory, PurchasesOf
<1>4. ASSUME NEW u \in Units, NEW row \in Saved, SaveUnit(u, row) PROVE FromNotes'
  <2>1. row # Null
    BY SavedRow
  <2>2. /\ \A v \in Units \ {u} : typed'[v] = typed[v] /\ described'[v] = described[v]
        /\ typed'[u] = row /\ notes' = notes
    BY <1>4 DEF SaveUnit, EInv, TypeOK
  <2> QED BY <2>1, <2>2 DEF EInv, FromNotes, Sourced, OneStory, PurchasesOf
<1>5. CASE UNCHANGED vars
  BY <1>5 DEF vars, EInv, FromNotes, Sourced, OneStory, PurchasesOf
<1> QED BY <1>1, <1>2, <1>3, <1>4, <1>5 DEF Next

LEMMA Enriching == Spec => []EInv
<1>1. EInv /\ [Next]_vars => EInv'
  BY StaysTyped, RunStaysGood, TypedIsKept, NotesStillTell DEF EInv
<1> QED BY StartsBlank, <1>1, PTL DEF Spec

\* Unless typed, only a year becomes a year, only a make a make, and a model is
\* one or two tokens, whatever is in the notes (Unit.year, make, model).
THEOREM TypeCorrect == Spec => []TypeOK
<1>1. EInv => TypeOK
  BY DEF EInv
<1> QED BY <1>1, Enriching, PTL

\* What was typed into the form stays, through any number of runs, unless saved
\* between the loading and the commit of one (apply_proposal).
THEOREM TypedIsNotOverwritten == Spec => []TypedStays
<1>1. EInv => TypedStays
  BY DEF EInv
<1> QED BY <1>1, Enriching, PTL

\* A field nobody typed comes from notes of a purchase of that very unit, and
\* with one such purchase all fields tell its story (build_proposal).
THEOREM FilledFromItsNotes == Spec => []FromItsNotes
<1>1. EInv => FromItsNotes
  BY NotesTell DEF EInv
<1> QED BY <1>1, Enriching, PTL
=============================================================================
