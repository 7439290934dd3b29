------------------------- MODULE Receivables_proofs -------------------------
(***************************************************************************)
(* Proofs about Receivables, for every number of jobs, leases, payments    *)
(* and requests in flight.                                                 *)
(***************************************************************************)
EXTENDS Receivables, FiniteSetTheorems, WellFoundedInduction, TLAPS

------------------------------------------------------------------------------
(* What adding up payments comes to: in any order, a payment more is its   *)
(* amount more.  Received is a recursive function over the subsets, which  *)
(* chooses the next payment; that there is such a function, and that the   *)
(* choice does not matter, is shown here by least counterexamples.         *)
LEMMA LeastNat ==
  ASSUME NEW T, T \subseteq Nat, T # {} PROVE \E x \in T : \A y \in T : x <= y
<1>1. PICK x \in T : \A y \in T : <<y, x>> \notin OpToRel(<, Nat)
  BY NatLessThanWellFounded, WFMin
<1>2. \A y \in T : ~(y < x)
  BY <1>1 DEF OpToRel
<1> QED BY <1>2

\* Among finite sets there is one with no other inside it.
LEMMA LeastSet ==
  ASSUME NEW S, IsFiniteSet(S), NEW B, B \subseteq SUBSET S, B # {}
  PROVE  \E b \in B : \A c \in B : c \subseteq b => c = b
<1> DEFINE Sizes == {Cardinality(b) : b \in B}
<1>1. \A b \in B : IsFiniteSet(b) /\ Cardinality(b) \in Nat
  BY FS_Subset, FS_CardinalityType
<1>2. PICK n \in Sizes : \A m \in Sizes : n <= m
  <2>1. Sizes \subseteq Nat /\ Sizes # {}
    BY <1>1
  <2> HIDE DEF Sizes
  <2> QED BY <2>1, LeastNat
<1>3. PICK b \in B : Cardinality(b) = n
  OBVIOUS
<1>4. ASSUME NEW c \in B, c \subseteq b PROVE c = b
  <2>1. Cardinality(c) <= Cardinality(b) /\ (Cardinality(b) = Cardinality(c) => b = c)
    BY <1>1, <1>4, FS_Subset
  <2>2. Cardinality(b) <= Cardinality(c)
    BY <1>2, <1>3
  <2> QED BY <1>1, <2>1, <2>2
<1> QED BY <1>4

------------------------------------------------------------------------------
(* The recursive function *)

Chosen(s) == CHOOSE p \in s : TRUE

\* One step of the sum of s, with the sums f of smaller sets.
Step(f, P, s) ==
  IF s = {} THEN 0 ELSE P[Chosen(s)].amount + f[s \ {Chosen(s)}]

Adds(f, P, S) == f = [s \in SUBSET S |-> Step(f, P, s)]

Sums(f, P, S) == f \in [SUBSET S -> Int] /\ Adds(f, P, S)

Amounts(P, S) == \A p \in S : P[p].amount \in Int

LEMMA Unfold ==
  ASSUME NEW P, NEW S PROVE Received(P, S) = (CHOOSE f : Adds(f, P, S))[S]
BY DEF Received, MapThenSumSet, MapThenFoldSet, Adds, Step, Chosen

LEMMA ChosenIn == ASSUME NEW s, s # {} PROVE Chosen(s) \in s
BY DEF Chosen

\* There is such a function, by the size of the sets.
LEMMA SumExists ==
  ASSUME NEW S, IsFiniteSet(S), NEW P, Amounts(P, S)
  PROVE  \E f : Sums(f, P, S)
<1> DEFINE UpTo(n) == {s \in SUBSET S : Cardinality(s) <= n}
           Good(n) == \E f \in [UpTo(n) -> Int] : \A s \in UpTo(n) : f[s] = Step(f, P, s)
<1>1. \A s \in SUBSET S : IsFiniteSet(s) /\ Cardinality(s) \in Nat
                          /\ Cardinality(s) <= Cardinality(S)
  BY FS_Subset, FS_CardinalityType
<1>2. \A s \in SUBSET S : Cardinality(s) = 0 => s = {}
  BY <1>1, FS_EmptySet
<1>3. Good(0)
  <2> DEFINE f == [s \in UpTo(0) |-> 0]
  <2>1. \A s \in UpTo(0) : s = {}
    BY <1>1, <1>2
  <2>2. f \in [UpTo(0) -> Int] /\ \A s \in UpTo(0) : f[s] = Step(f, P, s)
    BY <2>1 DEF Step
  <2> QED BY <2>2
<1>4. ASSUME NEW n \in Nat, Good(n) PROVE Good(n + 1)
  <2>1. PICK f \in [UpTo(n) -> Int] : \A s \in UpTo(n) : f[s] = Step(f, P, s)
    BY <1>4
  <2> DEFINE g == [s \in UpTo(n + 1) |-> Step(f, P, s)]
  <2>2. ASSUME NEW s \in UpTo(n + 1), s # {}
        PROVE  /\ Chosen(s) \in S /\ s \ {Chosen(s)} \in UpTo(n)
               /\ s \ {Chosen(s)} \in UpTo(n + 1)
    <3>1. Chosen(s) \in s
      BY <2>2, ChosenIn
    <3>2. Cardinality(s \ {Chosen(s)}) = Cardinality(s) - 1
      BY <1>1, <3>1, FS_RemoveElement
    <3>3. Cardinality(s) \in Nat /\ Cardinality(s) <= n + 1
      BY <1>1
    <3> QED BY <3>1, <3>2, <3>3
  <2>3. g \in [UpTo(n + 1) -> Int]
    <3>1. ASSUME NEW s \in UpTo(n + 1) PROVE Step(f, P, s) \in Int
      BY <2>2 DEF Step, Amounts
    <3> QED BY <3>1
  <2>4. \A s \in UpTo(n) : g[s] = f[s]
    <3>1. \A s \in UpTo(n) : s \in UpTo(n + 1)
      BY <1>1
    <3> QED BY <2>1, <3>1
  <2>5. ASSUME NEW s \in UpTo(n + 1) PROVE g[s] = Step(g, P, s)
    <3>1. g[s] = Step(f, P, s)
      OBVIOUS
    <3> HIDE DEF g
    <3> QED BY <2>2, <2>4, <3>1 DEF Step
  <2> QED BY <2>3, <2>5
<1> HIDE DEF Good
<1>5. \A n \in Nat : Good(n)
  <2> DEFINE Bad == {n \in Nat : ~Good(n)}
  <2> SUFFICES ASSUME Bad # {} PROVE FALSE
    OBVIOUS
  <2>1. PICK n \in Bad : \A m \in Bad : n <= m
    BY LeastNat
  <2>2. n # 0 /\ n \in Nat
    BY <1>3
  <2>3. n - 1 \in Nat /\ n - 1 \notin Bad /\ n = (n - 1) + 1
    BY <2>1, <2>2
  <2> QED BY <1>4, <2>2, <2>3
<1>6. Cardinality(S) \in Nat
  BY FS_CardinalityType
<1>7. UpTo(Cardinality(S)) = SUBSET S
  BY <1>1
<1>8. PICK f \in [SUBSET S -> Int] : \A s \in SUBSET S : f[s] = Step(f, P, s)
  BY <1>5, <1>6, <1>7 DEF Good
<1> QED BY <1>8 DEF Adds, Sums

\* Two such functions agree where both are defined.
LEMMA SumsAgree ==
  ASSUME NEW S, NEW T, IsFiniteSet(S), NEW P, NEW Q, NEW f, NEW g,
         Adds(f, P, S), Adds(g, Q, T),
         NEW s, s \subseteq S, s \subseteq T,
         \A p \in s : P[p].amount = Q[p].amount
  PROVE  f[s] = g[s]
<1> DEFINE Bad == {b \in SUBSET s : f[b] # g[b]}
<1> SUFFICES ASSUME Bad # {} PROVE FALSE
  OBVIOUS
<1>1. IsFiniteSet(s)
  BY FS_Subset
<1>2. PICK b \in Bad : \A c \in Bad : c \subseteq b => c = b
  <2>1. Bad \subseteq SUBSET s
    OBVIOUS
  <2> HIDE DEF Bad
  <2> QED BY <1>1, <2>1, LeastSet
<1>3. f[b] = Step(f, P, b) /\ g[b] = Step(g, Q, b)
  BY DEF Adds
<1>4. b # {}
  BY <1>3 DEF Step
<1>5. Chosen(b) \in b
  BY <1>4, ChosenIn
<1>6. f[b \ {Chosen(b)}] = g[b \ {Chosen(b)}]
  BY <1>2, <1>5
<1>7. P[Chosen(b)].amount = Q[Chosen(b)].amount
  BY <1>5
<1> QED BY <1>3, <1>6, <1>7 DEF Step

\* The sum of a set takes its elements in any order.
LEMMA AnyOrder ==
  ASSUME NEW S, IsFiniteSet(S), NEW P, Amounts(P, S),
         NEW f, Sums(f, P, S), NEW s \in SUBSET S, NEW x \in s
  PROVE  f[s] = P[x].amount + f[s \ {x}]
<1> USE DEF Sums
<1> DEFINE Bad == {b \in SUBSET S : \E p \in b : f[b] # P[p].amount + f[b \ {p}]}
<1> SUFFICES ASSUME Bad # {} PROVE FALSE
  OBVIOUS
<1>1. PICK b \in Bad : \A c \in Bad : c \subseteq b => c = b
  <2>1. Bad \subseteq SUBSET S
    OBVIOUS
  <2> HIDE DEF Bad
  <2> QED BY <2>1, LeastSet
<1>2. PICK p \in b : f[b] # P[p].amount + f[b \ {p}]
  OBVIOUS
<1> DEFINE q == Chosen(b)
<1>3. q \in b
  BY ChosenIn
<1> HIDE DEF q
<1>4. f[b] = P[q].amount + f[b \ {q}]
  BY DEF Adds, Step, q
<1>5. p # q
  BY <1>2, <1>4
<1>6. ASSUME NEW y \in b, NEW z \in b, y # z
      PROVE  f[b \ {y}] = P[z].amount + f[(b \ {y}) \ {z}]
  <2>1. b \ {y} \in SUBSET S /\ b \ {y} \subseteq b /\ b \ {y} # b /\ z \in b \ {y}
    BY <1>6
  <2>2. b \ {y} \notin Bad
    BY <1>1, <2>1
  <2> QED BY <2>1, <2>2
<1> DEFINE rest == f[(b \ {p}) \ {q}]
<1>7. f[b \ {q}] = P[p].amount + rest
  <2>1. (b \ {p}) \ {q} = (b \ {q}) \ {p}
    OBVIOUS
  <2> QED BY <1>3, <1>5, <1>6, <2>1
<1>8. f[b \ {p}] = P[q].amount + rest
  BY <1>3, <1>5, <1>6
<1>9. P[p].amount \in Int /\ P[q].amount \in Int /\ rest \in Int
  BY <1>3 DEF Amounts
<1> HIDE DEF rest
<1> QED BY <1>2, <1>4, <1>7, <1>8, <1>9

------------------------------------------------------------------------------
(* The sums that pages and receipts rely on *)

\* The function that Received applies.
LEMMA Unique ==
  ASSUME NEW S, IsFiniteSet(S), NEW P, Amounts(P, S), NEW f, Adds(f, P, S),
         NEW s \in SUBSET S
  PROVE  f[s] = Received(P, s) /\ f[s] \in Int
<1>1. PICK g : Sums(g, P, S)
  BY SumExists
<1>2. IsFiniteSet(s) /\ Amounts(P, s)
  BY FS_Subset DEF Amounts
<1>3. \E h : Adds(h, P, s)
  BY <1>2, SumExists DEF Sums
<1> DEFINE h == CHOOSE h : Adds(h, P, s)
<1>4. Adds(h, P, s) /\ Received(P, s) = h[s]
  BY <1>3, Unfold
<1> HIDE DEF h
<1>5. f[s] = h[s] /\ f[s] = g[s]
  BY <1>1, <1>4, SumsAgree DEF Sums
<1> QED BY <1>1, <1>4, <1>5 DEF Sums

LEMMA ReceivedType ==
  ASSUME NEW S, IsFiniteSet(S), NEW P, Amounts(P, S) PROVE Received(P, S) \in Int
<1>1. PICK f : Sums(f, P, S)
  BY SumExists
<1> QED BY <1>1, Unique DEF Sums

LEMMA ReceivedNone == ASSUME NEW P PROVE Received(P, {}) = 0
<1>1. IsFiniteSet({}) /\ Amounts(P, {})
  BY FS_EmptySet DEF Amounts
<1>2. PICK f : Sums(f, P, {})
  BY <1>1, SumExists
<1>3. f[{}] = 0
  BY <1>2 DEF Sums, Adds, Step
<1> QED BY <1>1, <1>2, <1>3, Unique DEF Sums

\* A payment more is its amount more (_compute_remaining_balance,
\* calculate_sale_balance).
LEMMA ReceivedMore ==
  ASSUME NEW S, IsFiniteSet(S), NEW P, NEW p, p \notin S, Amounts(P, S \cup {p})
  PROVE  Received(P, S \cup {p}) = Received(P, S) + P[p].amount
<1> DEFINE T == S \cup {p}
<1>1. IsFiniteSet(T)
  BY FS_AddElement
<1>2. PICK f : Sums(f, P, T)
  BY <1>1, SumExists
<1>3. T \in SUBSET T /\ p \in T /\ T \ {p} = S /\ S \in SUBSET T
  OBVIOUS
<1> HIDE DEF T
<1>4. f[T] = Received(P, T) /\ f[S] = Received(P, S)
  BY <1>1, <1>2, <1>3, Unique DEF Sums, T
<1>5. f[T] = P[p].amount + f[S]
  BY <1>1, <1>2, <1>3, AnyOrder DEF T
<1>6. f[S] \in Int /\ P[p].amount \in Int
  BY <1>2, <1>3 DEF Amounts, T, Sums
<1> QED BY <1>4, <1>5, <1>6 DEF T

LEMMA ReceivedOne ==
  ASSUME NEW P, NEW p, P[p].amount \in Int
  PROVE  Received(P, {p}) = P[p].amount
<1>1. Amounts(P, {} \cup {p}) /\ {} \cup {p} = {p}
  BY DEF Amounts
<1>2. Received(P, {} \cup {p}) = Received(P, {}) + P[p].amount
  BY <1>1, FS_EmptySet, ReceivedMore
<1> QED BY <1>1, <1>2, ReceivedNone

\* The sum depends on the amounts of the payments and on nothing else.
LEMMA ReceivedSame ==
  ASSUME NEW S, IsFiniteSet(S), NEW P, NEW Q, Amounts(P, S),
         \A p \in S : P[p].amount = Q[p].amount
  PROVE  Received(P, S) = Received(Q, S)
<1>1. Amounts(Q, S)
  BY DEF Amounts
<1>2. PICK f : Sums(f, P, S)
  BY SumExists
<1>3. PICK g : Sums(g, Q, S)
  BY <1>1, SumExists
<1>4. f[S] = g[S]
  BY <1>2, <1>3, SumsAgree DEF Sums
<1> QED BY <1>1, <1>2, <1>3, <1>4, Unique DEF Sums

------------------------------------------------------------------------------
(* The type invariant, part by part *)

RequestsTyped == requests \in [Slots -> {Idle} \cup CloseRequests \cup TakeRequests]

PaymentsTyped ==
  /\ payments \in [PaymentIds -> OrNull(PaymentRows)]
  /\ \A p \in PaymentIds :
       payments[p] # Null => /\ payments[p].job \in OrNull(Opened)
                             /\ payments[p].lease \in OrNull(Dealt)

ReceiptsPaid == \A p \in PaymentIds : receipts[p] # Null => payments[p] # Null

Parts == PaymentsTyped /\ RequestsTyped /\ JobTypeOK /\ LeaseTypeOK /\ ReceiptsPaid

LEMMA TypeParts == ASSUME Parts' PROVE TypeOK'
BY DEF TypeOK, Parts, PaymentsTyped, RequestsTyped, ReceiptsPaid

\* Jobs and leases are never deleted.
Grows == Opened \subseteq Opened' /\ Dealt \subseteq Dealt'

LEMMA RequestTypes ==
  ASSUME TypeOK, NEW slot \in Slots
  PROVE  /\ requests[slot] \in {Idle} \cup CloseRequests \cup TakeRequests
         /\ requests[slot].kind = "close" => requests[slot] \in CloseRequests
         /\ requests[slot].kind = "take" => requests[slot] \in TakeRequests
BY DEF TypeOK, Idle, CloseRequests, TakeRequests

LEMMA RequestsGrow ==
  ASSUME TypeOK, Grows, UNCHANGED requests PROVE RequestsTyped'
<1>1. \A r \in CloseRequests : r \in CloseRequests'
  BY DEF Grows, CloseRequests
<1>2. \A r \in TakeRequests : r \in TakeRequests'
  BY DEF Grows, TakeRequests
<1> QED BY <1>1, <1>2 DEF TypeOK, RequestsTyped

LEMMA DoneTyped ==
  ASSUME TypeOK, Grows, NEW slot \in Slots, Done(slot) PROVE RequestsTyped'
<1>1. \A r \in CloseRequests : r \in CloseRequests'
  BY DEF Grows, CloseRequests
<1>2. \A r \in TakeRequests : r \in TakeRequests'
  BY DEF Grows, TakeRequests
<1> QED BY <1>1, <1>2 DEF TypeOK, RequestsTyped, Done

LEMMA PaymentsGrow ==
  ASSUME TypeOK, Grows, UNCHANGED payments PROVE PaymentsTyped'
BY DEF TypeOK, PaymentsTyped, Grows, OrNull

LEMMA InsertTyped ==
  ASSUME TypeOK, Grows, NEW p \in PaymentIds, NEW row \in PaymentRows,
         row.job \in OrNull(Opened), row.lease \in OrNull(Dealt),
         payments' = [payments EXCEPT ![p] = row]
  PROVE  /\ PaymentsTyped' /\ payments'[p] # Null
         /\ \A q \in PaymentIds : payments[q] # Null => payments'[q] # Null
<1>1. \A q \in PaymentIds : payments'[q] = IF q = p THEN row ELSE payments[q]
  BY DEF TypeOK
<1>2. row # Null
  BY ReceivablesConstantsOK
<1>3. payments' \in [PaymentIds -> OrNull(PaymentRows)]
  BY DEF TypeOK, OrNull
<1> QED BY <1>1, <1>2, <1>3 DEF TypeOK, PaymentsTyped, Grows, OrNull

LEMMA JobsStay ==
  ASSUME TypeOK, UNCHANGED jobVars PROVE JobTypeOK' /\ Opened' = Opened
BY DEF TypeOK, JobTypeOK, jobVars, Opened

LEMMA LeasesStay ==
  ASSUME TypeOK, UNCHANGED leaseVars PROVE LeaseTypeOK' /\ Dealt' = Dealt
BY DEF TypeOK, LeaseTypeOK, leaseVars, Dealt

\* The payments of a job or of a lease add up to a number.
LEMMA PaidTypes ==
  ASSUME PaymentsTyped
  PROVE  /\ \A j : /\ IsFiniteSet(ForJob(j)) /\ Amounts(payments, ForJob(j))
                   /\ PaidForJob(j) \in Int
         /\ \A l : /\ IsFiniteSet(ForLease(l)) /\ Amounts(payments, ForLease(l))
                   /\ PaidForLease(l) \in Int
<1>1. \A p \in PaymentIds : payments[p] # Null => payments[p].amount \in Int
  BY DEF PaymentsTyped, PaymentRows, OrNull
<1>2. ASSUME NEW j PROVE /\ IsFiniteSet(ForJob(j)) /\ Amounts(payments, ForJob(j))
  <2>1. ForJob(j) \in SUBSET PaymentIds
    BY DEF ForJob
  <2> QED BY <1>1, <2>1, FS_Subset, ReceivablesConstantsOK DEF Amounts, ForJob
<1>3. ASSUME NEW l PROVE /\ IsFiniteSet(ForLease(l)) /\ Amounts(payments, ForLease(l))
  <2>1. ForLease(l) \in SUBSET PaymentIds
    BY DEF ForLease
  <2> QED BY <1>1, <2>1, FS_Subset, ReceivablesConstantsOK DEF Amounts, ForLease
<1> QED BY <1>2, <1>3, ReceivedType DEF PaidForJob, PaidForLease

------------------------------------------------------------------------------
(* Each step keeps the types *)

LEMMA InitTypeOK == Init => TypeOK
<1> SUFFICES ASSUME Init PROVE TypeOK
  OBVIOUS
<1>1. JobTypeOK
  <2>1. Opened = {}
    BY DEF Init, JobInit, Opened
  <2>2. <<>> \in Seq(Nat) /\ <<>> \in Seq(InvoiceRows)
    OBVIOUS
  <2> QED BY <2>1, <2>2 DEF Init, JobInit, JobTypeOK, OrNull
<1>2. LeaseTypeOK
  BY DEF Init, LeaseInit, LeaseTypeOK, OrNull, Dealt
<1> QED BY <1>1, <1>2 DEF Init, TypeOK, OrNull, LeaseInit

\* The job form writes a row.
LEMMA JobFormTyped ==
  ASSUME TypeOK, NEW j \in JobIds, NEW row \in JobRows,
         jobs' = [jobs EXCEPT ![j] = row],
         formed' \subseteq formed \cup {j}, UNCHANGED <<revenue, invoices>>
  PROVE  JobTypeOK' /\ Opened \subseteq Opened'
<1>1. row # Null
  BY ReceivablesConstantsOK
<1>2. /\ jobs'[j] = row /\ \A k \in JobIds \ {j} : jobs'[k] = jobs[k]
      /\ jobs' \in [JobIds -> OrNull(JobRows)]
  BY DEF TypeOK, JobTypeOK, OrNull
<1>3. Opened' = Opened \cup {j}
  BY <1>1, <1>2 DEF Opened
<1> QED BY <1>2, <1>3 DEF TypeOK, JobTypeOK

LEMMA BillTyped ==
  ASSUME TypeOK, NEW r \in CloseRequests, Bill(r)
  PROVE  /\ revenue' \in [JobIds -> Seq(Nat)]
         /\ invoices' \in [JobIds -> Seq(InvoiceRows)]
         /\ \A j \in JobIds : /\ Len(invoices'[j]) = Len(revenue'[j])
                              /\ j # r.job => invoices'[j] = invoices[j]
<1>1. r.job \in JobIds /\ r.total \in Nat
  BY DEF CloseRequests, Opened
<1>2. /\ revenue \in [JobIds -> Seq(Nat)] /\ invoices \in [JobIds -> Seq(InvoiceRows)]
      /\ \A j \in JobIds : Len(invoices[j]) = Len(revenue[j])
  BY DEF TypeOK, JobTypeOK
<1>3. CASE MakesRevenue(r.seen.type, r.total)
  <2> DEFINE a == BillAmount(r)
             inv == Invoice(a, 0)
  <2>1. /\ revenue' = [revenue EXCEPT ![r.job] = Append(@, a)]
        /\ invoices' = [invoices EXCEPT ![r.job] = Append(@, inv)]
    BY <1>3 DEF Bill
  <2>2. a \in Nat
    BY <1>1 DEF BillAmount
  <2>3. inv \in InvoiceRows
    BY <2>2 DEF Invoice, InvoiceRows, OrZero
  <2> HIDE DEF a, inv
  <2>4. /\ revenue'[r.job] = Append(revenue[r.job], a)
        /\ invoices'[r.job] = Append(invoices[r.job], inv)
        /\ \A j \in JobIds : j # r.job => /\ revenue'[j] = revenue[j]
                                          /\ invoices'[j] = invoices[j]
    BY <1>1, <1>2, <2>1
  <2>5. /\ revenue' \in [JobIds -> Seq(Nat)] /\ invoices' \in [JobIds -> Seq(InvoiceRows)]
    BY <1>1, <1>2, <2>1, <2>2, <2>3
  <2>6. Len(invoices'[r.job]) = Len(revenue'[r.job])
    BY <1>1, <1>2, <2>2, <2>3, <2>4
  <2> QED BY <1>2, <2>4, <2>5, <2>6
<1>4. CASE ~MakesRevenue(r.seen.type, r.total)
  BY <1>2, <1>4 DEF Bill
<1> QED BY <1>3, <1>4

\* What a closing saves of the job is a row.
LEMMA ClosedRow ==
  ASSUME NEW r \in CloseRequests, NEW row \in JobRows
  PROVE  /\ Closed(r, row) \in JobRows
         /\ Closed(r, row).type = row.type /\ Closed(r, row).customer = row.customer
         /\ Closed(r, row).status = Save(r.seen.status, "complete", row.status)
         /\ Closed(r, row).total = Save(r.seen.total, r.total, row.total)
         /\ (r.seen.dated => row.dated) => Closed(r, row).dated
<1> DEFINE status == Save(r.seen.status, "complete", row.status)
           total == Save(r.seen.total, r.total, row.total)
<1>1. status \in JobStatuses /\ total \in Nat
  BY DEF Save, CloseRequests, JobRows, JobStatuses
<1>2. PICK dated \in BOOLEAN : dated = Save(r.seen.dated, TRUE, row.dated)
  BY DEF Save, CloseRequests, JobRows
<1>3. Closed(r, row) = [row EXCEPT !.status = status, !.total = total, !.dated = dated]
  BY <1>2 DEF Closed
<1> HIDE DEF status, total
<1>4. /\ Closed(r, row) \in JobRows
      /\ Closed(r, row).type = row.type /\ Closed(r, row).customer = row.customer
      /\ Closed(r, row).status = status /\ Closed(r, row).total = total
      /\ Closed(r, row).dated = dated
  BY <1>1, <1>3 DEF JobRows
<1>5. (r.seen.dated => row.dated) => dated
  BY <1>2 DEF Save, CloseRequests, JobRows
<1> QED BY <1>4, <1>5 DEF status, total

LEMMA CommitCloseStep ==
  ASSUME TypeOK, NEW slot \in Slots, CommitClose(slot)
  PROVE  LET r == requests[slot] IN
         /\ r \in CloseRequests /\ r.job \in Opened /\ jobs[r.job] \in JobRows
         /\ jobs'[r.job] = Closed(r, jobs[r.job])
         /\ jobs' = [jobs EXCEPT ![r.job] = Closed(r, jobs[r.job])]
         /\ \A j \in JobIds : j # r.job => jobs'[j] = jobs[j]
         /\ JobTypeOK' /\ Opened' = Opened /\ Bill(r)
<1> DEFINE r == requests[slot]
<1>1. r \in CloseRequests /\ Bill(r)
  BY RequestTypes DEF CommitClose
<1>2. r.job \in Opened /\ r.job \in JobIds /\ jobs[r.job] \in JobRows
  BY <1>1 DEF CloseRequests, Opened, TypeOK, JobTypeOK, OrNull
<1> DEFINE row == Closed(r, jobs[r.job])
<1>3. row \in JobRows
  BY <1>1, <1>2, ClosedRow
<1>4. jobs' = [jobs EXCEPT ![r.job] = row]
  BY DEF CommitClose
<1> HIDE DEF r, row
<1>5. /\ jobs'[r.job] = row /\ \A j \in JobIds : j # r.job => jobs'[j] = jobs[j]
      /\ jobs' \in [JobIds -> OrNull(JobRows)]
  BY <1>2, <1>3, <1>4 DEF TypeOK, JobTypeOK, OrNull
<1>6. Opened' = Opened
  BY <1>2, <1>3, <1>5, ReceivablesConstantsOK DEF Opened
<1>7. JobTypeOK'
  <2>1. /\ revenue' \in [JobIds -> Seq(Nat)]
        /\ invoices' \in [JobIds -> Seq(InvoiceRows)]
        /\ \A j \in JobIds : /\ Len(invoices'[j]) = Len(revenue'[j])
                             /\ j # r.job => invoices'[j] = invoices[j]
    BY <1>1, BillTyped
  <2>2. formed' = formed
    BY DEF CommitClose
  <2> QED BY <1>2, <1>5, <1>6, <2>1, <2>2 DEF TypeOK, JobTypeOK
<1> QED BY <1>1, <1>2, <1>4, <1>5, <1>6, <1>7 DEF r, row

LEMMA JobNextTypeOK ==
  ASSUME TypeOK, JobNext, UNCHANGED leaseVars PROVE TypeOK'
<1>1. LeaseTypeOK' /\ Dealt' = Dealt
  BY LeasesStay
<1>2. ASSUME UNCHANGED payments PROVE ReceiptsPaid'
  BY <1>2 DEF TypeOK, ReceiptsPaid, leaseVars
<1>3. ASSUME NEW j \in JobIds, NEW row \in JobForms, CreateJob(j, row) \/ UpdateJob(j, row)
      PROVE  TypeOK'
  <2>1. row \in JobRows
    BY ReceivablesConstantsOK
  <2>2. JobTypeOK' /\ Opened \subseteq Opened'
    BY <1>3, <2>1, JobFormTyped DEF CreateJob, UpdateJob
  <2>3. UNCHANGED <<payments, requests>> /\ Grows
    BY <1>1, <1>3, <2>2 DEF CreateJob, UpdateJob, Grows
  <2> QED BY <1>1, <1>2, <2>2, <2>3, RequestsGrow, PaymentsGrow, TypeParts DEF Parts
<1>4. ASSUME NEW slot \in Slots, NEW j \in JobIds, NEW total \in JobTotals,
             BeginClose(slot, j, total)
      PROVE  TypeOK'
  <2> DEFINE r == [kind |-> "close", job |-> j, seen |-> jobs[j], total |-> total]
  <2>1. JobTypeOK' /\ Opened' = Opened /\ UNCHANGED payments
    BY <1>4, JobsStay DEF BeginClose
  <2>2. jobs[j] \in JobRows /\ total \in Nat /\ j \in Opened
    BY <1>4, ReceivablesConstantsOK DEF BeginClose, Opened, TypeOK, JobTypeOK, OrNull
  <2>3. r \in CloseRequests'
    BY <2>1, <2>2 DEF CloseRequests
  <2>4. requests' = [requests EXCEPT ![slot] = r]
    BY <1>4 DEF BeginClose, Accept
  <2> HIDE DEF r
  <2>5. CloseRequests' = CloseRequests /\ TakeRequests' = TakeRequests
    BY <1>1, <2>1 DEF CloseRequests, TakeRequests
  <2>6. RequestsTyped'
    BY <2>3, <2>4, <2>5 DEF TypeOK, RequestsTyped
  <2>7. PaymentsTyped'
    BY <1>1, <2>1, PaymentsGrow DEF Grows
  <2> QED BY <1>1, <1>2, <2>1, <2>6, <2>7, TypeParts DEF Parts
<1>5. ASSUME NEW slot \in Slots, CommitClose(slot) PROVE TypeOK'
  <2>1. JobTypeOK' /\ Opened' = Opened
    BY <1>5, CommitCloseStep
  <2>2. UNCHANGED payments /\ Done(slot) /\ Grows
    BY <1>1, <1>5, <2>1 DEF CommitClose, Grows
  <2> QED BY <1>1, <1>2, <2>1, <2>2, DoneTyped, PaymentsGrow, TypeParts DEF Parts
<1>6. ASSUME NEW p \in PaymentIds, NEW j \in JobIds, NEW amount \in JobAmounts,
             PayJob(p, j, amount)
      PROVE  TypeOK'
  <2>1. JobTypeOK' /\ Opened' = Opened /\ Grows
    BY <1>1, <1>6, JobsStay DEF PayJob, Grows
  <2> DEFINE row == JobPayment(j, amount)
  <2>2. row \in PaymentRows /\ row.job \in OrNull(Opened) /\ row.lease \in OrNull(Dealt)
    BY <1>6, ReceivablesConstantsOK DEF PayJob, JobPayment, PaymentRows, OrNull
  <2>3. payments' = [payments EXCEPT ![p] = row]
    BY <1>6 DEF PayJob, InsertPayment
  <2> HIDE DEF row
  <2>4. /\ PaymentsTyped'
        /\ \A q \in PaymentIds : payments[q] # Null => payments'[q] # Null
    BY <2>1, <2>2, <2>3, InsertTyped
  <2>5. ReceiptsPaid'
    BY <2>4 DEF TypeOK, ReceiptsPaid, leaseVars
  <2>6. RequestsTyped'
    BY <1>6, <2>1, RequestsGrow DEF PayJob
  <2> QED BY <1>1, <2>1, <2>4, <2>5, <2>6, TypeParts DEF Parts
<1> QED BY <1>3, <1>4, <1>5, <1>6 DEF JobNext

LEMMA LeaseFormTyped ==
  ASSUME TypeOK, NEW l \in LeaseIds, NEW row \in LeaseRows,
         leases' = [leases EXCEPT ![l] = row], UNCHANGED <<receipts, raced>>,
         touched' \subseteq touched \cup {l}
  PROVE  LeaseTypeOK' /\ Dealt' = Dealt \cup {l}
<1>1. row # Null
  BY ReceivablesConstantsOK
<1>2. /\ leases'[l] = row /\ \A k \in LeaseIds \ {l} : leases'[k] = leases[k]
      /\ leases' \in [LeaseIds -> OrNull(LeaseRows)]
  BY DEF TypeOK, LeaseTypeOK, OrNull
<1>3. Dealt' = Dealt \cup {l}
  BY <1>1, <1>2 DEF Dealt
<1> QED BY <1>2, <1>3 DEF TypeOK, LeaseTypeOK

LEMMA CreateLeaseRow ==
  ASSUME NEW d \in DealRows, d.agreed # Null
  PROVE  [financed |-> d.agreed - d.down, scheduled |-> d.scheduled,
          frequency |-> d.frequency] \in LeaseRows
<1>1. d.agreed - d.down \in Int
  BY DEF DealRows, OrNull
<1> QED BY <1>1 DEF DealRows, LeaseRows, OrNull

\* The terms of a lease have their columns.
LEMMA LeaseTypes ==
  ASSUME TypeOK, NEW l \in Dealt
  PROVE  /\ l \in LeaseIds /\ leases[l] \in LeaseRows
         /\ leases[l].financed \in OrNull(Int) /\ leases[l].scheduled \in OrNull(Nat)
         /\ leases[l].frequency \in Frequencies
BY DEF TypeOK, LeaseTypeOK, Dealt, OrNull, LeaseRows

LEMMA LeftType ==
  ASSUME NEW financed \in OrNull(Int), NEW paid \in Int
  PROVE  Left(financed, paid) \in Int
BY DEF Left, OrNull

LEMMA ReceiptType ==
  ASSUME NEW r \in TakeRequests
  PROVE  /\ Receipt(r) \in ReceiptRows /\ Receipt(r).lease = r.lease
         /\ Receipt(r).invoice.balance = r.left
<1>1. r.lease \in LeaseIds /\ r.amount \in Int /\ r.left \in Int
  BY DEF TakeRequests, Dealt
<1> DEFINE inv == Invoice(r.amount, r.amount)
           made == [inv EXCEPT !.balance = r.left]
<1>2. r.amount - r.amount <= 0
  BY <1>1
<1>3. inv \in [total: Int, paid: Int, balance: Int, status: {"paid"}]
  BY <1>1, <1>2 DEF Invoice, OrZero
<1> HIDE DEF inv
<1>4. made \in [total: Int, paid: Int, balance: Int, status: {"paid"}]
      /\ made.balance = r.left
  BY <1>1, <1>3
<1>5. Receipt(r) = [lease |-> r.lease, booked |-> r.amount, invoice |-> made]
  BY DEF Receipt, inv
<1> HIDE DEF made
<1> QED BY <1>1, <1>4, <1>5 DEF ReceiptRows

LEMMA CommitTakeStep ==
  ASSUME TypeOK, NEW slot \in Slots, CommitTake(slot), UNCHANGED jobVars
  PROVE  LET r == requests[slot] IN
         /\ r \in TakeRequests /\ r.lease \in Dealt
         /\ \E p \in PaymentIds :
              /\ payments[p] = Null
              /\ payments' = [payments EXCEPT ![p] = LeasePayment(r.lease, r.amount)]
              /\ receipts'[p] = Receipt(r) /\ receipts'[p] # Null
              /\ \A q \in PaymentIds \ {p} : /\ receipts'[q] = receipts[q]
                                              /\ payments'[q] = payments[q]
              /\ payments'[p] = LeasePayment(r.lease, r.amount) /\ payments'[p] # Null
         /\ LeaseTypeOK' /\ PaymentsTyped' /\ ReceiptsPaid'
<1> DEFINE r == requests[slot]
<1>1. r \in TakeRequests /\ r.lease \in Dealt /\ r.lease \in LeaseIds /\ r.amount \in Int
  BY RequestTypes DEF CommitTake, TakeRequests, Dealt
<1>2. PICK p \in PaymentIds :
        /\ payments[p] = Null
        /\ payments' = [payments EXCEPT ![p] = LeasePayment(r.lease, r.amount)]
        /\ receipts' = [receipts EXCEPT ![p] = Receipt(r)]
  BY DEF CommitTake, InsertPayment
<1> DEFINE row == LeasePayment(r.lease, r.amount)
           receipt == Receipt(r)
<1>3. row \in PaymentRows /\ row.job \in OrNull(Opened) /\ row.lease \in OrNull(Dealt)
  BY <1>1 DEF LeasePayment, PaymentRows, OrNull
<1>4. receipt \in ReceiptRows /\ receipt.lease = r.lease /\ receipt # Null
  BY <1>1, ReceiptType, ReceivablesConstantsOK
<1>5. raced' \subseteq raced \cup {r.lease}
  BY DEF CommitTake
<1> HIDE DEF r, row, receipt
<1>6. /\ receipts'[p] = receipt
      /\ \A q \in PaymentIds \ {p} : receipts'[q] = receipts[q]
      /\ receipts' \in [PaymentIds -> OrNull(ReceiptRows)]
  BY <1>2, <1>4 DEF TypeOK, LeaseTypeOK, OrNull, receipt
<1>7. /\ payments' = [payments EXCEPT ![p] = row]
      /\ payments'[p] = row /\ \A q \in PaymentIds \ {p} : payments'[q] = payments[q]
  BY <1>2 DEF TypeOK, row
<1>8. Dealt' = Dealt /\ Opened' = Opened /\ Grows
  BY JobsStay DEF CommitTake, Dealt, Grows
<1>9. PaymentsTyped' /\ payments'[p] # Null
      /\ \A q \in PaymentIds : payments[q] # Null => payments'[q] # Null
  BY <1>3, <1>7, <1>8, InsertTyped
<1>10. LeaseTypeOK'
  <2>1. leases' = leases /\ touched' = touched
    BY DEF CommitTake
  <2> QED BY <1>1, <1>4, <1>5, <1>6, <1>8, <2>1 DEF TypeOK, LeaseTypeOK
<1>11. ReceiptsPaid'
  BY <1>6, <1>9 DEF TypeOK, ReceiptsPaid
<1> QED BY <1>1, <1>2, <1>4, <1>6, <1>7, <1>9, <1>10, <1>11 DEF r, row, receipt

LEMMA LeaseNextTypeOK ==
  ASSUME TypeOK, LeaseNext, UNCHANGED jobVars PROVE TypeOK'
<1>1. JobTypeOK' /\ Opened' = Opened
  BY JobsStay
<1>2. ASSUME NEW l \in LeaseIds, NEW row \in LeaseRows,
             leases' = [leases EXCEPT ![l] = row],
             UNCHANGED <<receipts, raced, payments, requests>>,
             touched' \subseteq touched \cup {l}
      PROVE  TypeOK'
  <2>1. LeaseTypeOK' /\ Dealt' = Dealt \cup {l}
    BY <1>2, LeaseFormTyped
  <2>2. Grows
    BY <1>1, <2>1 DEF Grows
  <2>3. ReceiptsPaid'
    BY <1>2 DEF TypeOK, ReceiptsPaid
  <2> QED BY <1>1, <1>2, <2>1, <2>2, <2>3, RequestsGrow, PaymentsGrow, TypeParts DEF Parts
<1>3. ASSUME NEW l \in LeaseIds, NEW d \in Deals, CreateLease(l, d) PROVE TypeOK'
  <2> DEFINE row == [financed |-> d.agreed - d.down, scheduled |-> d.scheduled,
                     frequency |-> d.frequency]
  <2>1. row \in LeaseRows
    BY <1>3, CreateLeaseRow, ReceivablesConstantsOK DEF CreateLease
  <2>2. leases' = [leases EXCEPT ![l] = row] /\ touched' \subseteq touched \cup {l}
        /\ UNCHANGED <<receipts, raced, payments, requests>>
    BY <1>3 DEF CreateLease
  <2> HIDE DEF row
  <2> QED BY <1>2, <2>1, <2>2
<1>4. ASSUME NEW l \in LeaseIds, NEW row \in LeaseForms, UpdateLease(l, row) PROVE TypeOK'
  <2>1. row \in LeaseRows
    BY ReceivablesConstantsOK
  <2> QED BY <1>2, <1>4, <2>1 DEF UpdateLease
<1>5. ASSUME NEW slot \in Slots, NEW l \in LeaseIds, NEW amount \in LeaseAmounts,
             BeginTake(slot, l, amount)
      PROVE  TypeOK'
  <2> DEFINE left == LeftAfter(leases[l].financed, PaidForLease(l), amount)
             r == [kind |-> "take", lease |-> l, amount |-> amount, left |-> left]
  <2>1. LeaseTypeOK' /\ Dealt' = Dealt /\ UNCHANGED payments
    BY <1>5, LeasesStay DEF BeginTake
  <2>2. amount \in Int /\ l \in Dealt
    BY <1>5, ReceivablesConstantsOK DEF BeginTake
  <2>3. left \in Int
    <3>1. leases[l].financed \in OrNull(Int) /\ PaidForLease(l) \in Int
      BY <2>2, LeaseTypes, PaidTypes DEF TypeOK, PaymentsTyped
    <3>2. PaidForLease(l) + amount \in Int
      BY <2>2, <3>1
    <3> QED BY <3>1, <3>2, LeftType DEF LeftAfter
  <2>4. requests' = [requests EXCEPT ![slot] = r]
    BY <1>5 DEF BeginTake, Accept
  <2> HIDE DEF left
  <2>5. r \in TakeRequests
    BY <2>2, <2>3 DEF TakeRequests
  <2> HIDE DEF r
  <2>6. CloseRequests' = CloseRequests /\ TakeRequests' = TakeRequests
    BY <1>1, <2>1 DEF CloseRequests, TakeRequests
  <2>7. RequestsTyped'
    BY <2>4, <2>5, <2>6 DEF TypeOK, RequestsTyped
  <2>8. PaymentsTyped' /\ ReceiptsPaid'
    BY <1>1, <1>5, <2>1, PaymentsGrow DEF Grows, TypeOK, ReceiptsPaid, BeginTake, leaseVars
  <2> QED BY <1>1, <2>1, <2>7, <2>8, TypeParts DEF Parts
<1>6. ASSUME NEW slot \in Slots, CommitTake(slot) PROVE TypeOK'
  <2>1. LeaseTypeOK' /\ PaymentsTyped' /\ ReceiptsPaid'
    BY <1>6, CommitTakeStep
  <2>2. RequestsTyped'
    BY <1>1, <1>6, DoneTyped DEF CommitTake, Grows, Dealt
  <2> QED BY <1>1, <2>1, <2>2, TypeParts DEF Parts
<1> QED BY <1>3, <1>4, <1>5, <1>6 DEF LeaseNext

LEMMA NextTypeOK == TypeOK /\ [Next]_vars => TypeOK'
<1> SUFFICES ASSUME TypeOK, [Next]_vars PROVE TypeOK'
  OBVIOUS
<1>1. ASSUME NEW p \in PaymentIds, NEW row \in PaymentForms, SavePayment(p, row)
      PROVE  TypeOK'
  <2>1. /\ row \in PaymentRows /\ row.job \in OrNull(Opened) /\ row.lease \in OrNull(Dealt)
        /\ payments' = [payments EXCEPT ![p] = row]
        /\ UNCHANGED <<jobVars, leases, receipts, raced, requests>>
        /\ touched' \subseteq touched \cup Dealt
    BY <1>1, ReceivablesConstantsOK DEF SavePayment
  <2>2. Dealt' = Dealt /\ Opened' = Opened /\ JobTypeOK' /\ Grows
    BY <2>1, JobsStay DEF Dealt, Grows
  <2>3. LeaseTypeOK'
    BY <2>1, <2>2 DEF TypeOK, LeaseTypeOK
  <2>4. PaymentsTyped' /\ \A q \in PaymentIds : payments[q] # Null => payments'[q] # Null
    BY <2>1, <2>2, InsertTyped
  <2>5. ReceiptsPaid' /\ RequestsTyped'
    BY <2>1, <2>2, <2>4, RequestsGrow DEF TypeOK, ReceiptsPaid
  <2> QED BY <2>2, <2>3, <2>4, <2>5, TypeParts DEF Parts
<1>2. ASSUME UNCHANGED <<payments, jobVars, leaseVars>>, RequestsTyped' PROVE TypeOK'
  <2>1. JobTypeOK' /\ LeaseTypeOK' /\ Grows
    BY <1>2, JobsStay, LeasesStay DEF Grows
  <2>2. PaymentsTyped' /\ ReceiptsPaid'
    BY <1>2, <2>1, PaymentsGrow DEF TypeOK, ReceiptsPaid, leaseVars
  <2> QED BY <1>2, <2>1, <2>2, TypeParts DEF Parts
<1>3. ASSUME NEW slot \in Slots, Abandon(slot) PROVE TypeOK'
  <2>1. Grows
    BY <1>3, JobsStay, LeasesStay DEF Abandon, Grows
  <2> QED BY <1>2, <1>3, <2>1, DoneTyped DEF Abandon
<1>4. CASE UNCHANGED vars
  <2>1. Grows
    BY <1>4, JobsStay, LeasesStay DEF vars, Grows
  <2> QED BY <1>2, <1>4, <2>1, RequestsGrow DEF vars
<1> QED BY <1>1, <1>3, <1>4, JobNextTypeOK, LeaseNextTypeOK DEF Next

\* Rows have their columns, what payments, receipts and requests refer to
\* exists, and a receipt's payment was inserted (app/models).
THEOREM ReceivablesTyped == Spec => []TypeOK
BY InitTypeOK, NextTypeOK, PTL DEF Spec

------------------------------------------------------------------------------
(* Closed jobs and their bills, for any number of closings in flight *)

BilledIn(j) ==
  \E i \in DOMAIN invoices[j] :
    revenue[j][i] = jobs[j].total /\ invoices[j][i].total = jobs[j].total

Billed(j) ==
  jobs[j].status = "complete" =>
    /\ jobs[j].dated
    /\ MakesRevenue(jobs[j].type, jobs[j].total) => BilledIn(j)

\* What a closing has loaded of a job that no form has changed: the columns
\* other closings write have only moved on.
StillTrue(r, row) ==
  /\ r.seen.type = row.type
  /\ r.seen.status = "complete" => row.status = "complete"
  /\ r.seen.dated => row.dated
  /\ row.status # "complete" => r.seen.total = row.total

Closes(slot, j) == requests[slot].kind = "close" /\ requests[slot].job = j

BillsOK(j) ==
  /\ Billed(j)
  /\ \A slot \in Slots : Closes(slot, j) => StillTrue(requests[slot], jobs[j])

BInv == TypeOK /\ \A j \in Opened \ formed : BillsOK(j)

LEMMA BilledShows == BInv => BilledAsShown
<1> SUFFICES ASSUME BInv, NEW j \in Opened \ formed, jobs[j].status = "complete"
             PROVE  /\ jobs[j].dated
                    /\ MakesRevenue(jobs[j].type, jobs[j].total) =>
                         \E i \in DOMAIN invoices[j] :
                           /\ revenue[j][i] = jobs[j].total
                           /\ Remaining(invoices[j][i], PaidForJob(j))
                                = OrZero(JobRemaining(j))
  BY DEF BilledAsShown
<1>1. Billed(j)
  BY DEF BInv, BillsOK
<1> QED BY <1>1 DEF Billed, BilledIn, Remaining, JobRemaining

LEMMA IdleCloses == Idle.kind # "close"
BY DEF Idle

\* A closing in flight is of a job there is.
LEMMA ClosesOpened ==
  ASSUME TypeOK, NEW slot \in Slots, NEW j, Closes(slot, j)
  PROVE  j \in Opened /\ requests[slot] \in CloseRequests
BY RequestTypes DEF Closes, CloseRequests

\* A step that leaves a job alone, and starts closings of it at most.
LEMMA BillsStay ==
  ASSUME NEW j \in Opened, BillsOK(j), TypeOK,
         jobs'[j] = jobs[j], revenue'[j] = revenue[j], invoices'[j] = invoices[j],
         \A slot \in Slots :
           \/ requests'[slot] = requests[slot]
           \/ requests'[slot].kind # "close"
           \/ requests'[slot].job = j => requests'[slot].seen = jobs[j]
  PROVE  BillsOK(j)'
<1>1. Billed(j)'
  BY DEF BillsOK, Billed, BilledIn
<1>2. ASSUME NEW slot \in Slots, Closes(slot, j)'
      PROVE  StillTrue(requests'[slot], jobs'[j])
  <2>1. CASE requests'[slot] = requests[slot]
    <3>1. Closes(slot, j)
      BY <1>2, <2>1 DEF Closes
    <3> QED BY <2>1, <3>1 DEF BillsOK
  <2>2. CASE requests'[slot] # requests[slot]
    <3>1. requests'[slot].seen = jobs[j]
      BY <1>2, <2>2 DEF Closes
    <3> QED BY <3>1 DEF StillTrue
  <2> QED BY <2>1, <2>2
<1> QED BY <1>1, <1>2 DEF BillsOK

LEMMA JobsAlone ==
  ASSUME BInv, TypeOK', UNCHANGED jobVars,
         \A slot \in Slots :
           \/ requests'[slot] = requests[slot]
           \/ requests'[slot].kind # "close"
           \/ requests'[slot].seen = jobs[requests'[slot].job]
  PROVE  BInv'
<1>1. /\ UNCHANGED <<jobs, revenue, invoices, formed>> /\ Opened' = Opened
      /\ TypeOK
  BY JobsStay DEF jobVars, BInv
<1>2. ASSUME NEW j \in Opened \ formed PROVE BillsOK(j)'
  BY <1>1, <1>2, BillsStay DEF BInv
<1> QED BY <1>1, <1>2 DEF BInv

LEMMA DoneAlone ==
  ASSUME TypeOK, NEW slot \in Slots, Done(slot)
  PROVE  \A t \in Slots : \/ requests'[t] = requests[t]
                          \/ requests'[t].kind # "close"
BY IdleCloses DEF TypeOK, Done

LEMMA JobFormBInv ==
  ASSUME BInv, TypeOK', NEW j \in JobIds, NEW row \in JobForms,
         CreateJob(j, row) \/ UpdateJob(j, row)
  PROVE  BInv'
<1>1. TypeOK /\ row \in JobRows /\ row # Null
  BY ReceivablesConstantsOK DEF BInv
<1>2. /\ jobs' = [jobs EXCEPT ![j] = row]
      /\ UNCHANGED <<revenue, invoices, requests>> /\ formed \subseteq formed'
  BY DEF CreateJob, UpdateJob
<1>3. jobs'[j] = row /\ \A k \in JobIds \ {j} : jobs'[k] = jobs[k]
  BY <1>1, <1>2 DEF TypeOK, JobTypeOK
<1>4. Opened' = Opened \cup {j}
  BY <1>1, <1>3 DEF Opened
<1>5. ASSUME NEW k \in Opened \ formed, k # j PROVE BillsOK(k)'
  BY <1>1, <1>2, <1>3, <1>5, BillsStay DEF BInv, Opened
<1>6. ASSUME j \notin formed' PROVE BillsOK(j)'
  <2>1. jobs[j] = Null /\ row.status # "complete" /\ j \notin Opened
    BY <1>6 DEF CreateJob, UpdateJob, Opened
  <2>2. \A slot \in Slots : ~Closes(slot, j)'
    BY <1>1, <1>2, <2>1, ClosesOpened DEF Closes
  <2> QED BY <1>3, <2>1, <2>2 DEF BillsOK, Billed
<1> QED BY <1>2, <1>4, <1>5, <1>6 DEF BInv

\* A closing that commits leaves a job that is complete, dated and billed.
LEMMA CommitCloseBInv ==
  ASSUME BInv, TypeOK', NEW slot \in Slots, CommitClose(slot) PROVE BInv'
<1>r. PICK r : r = requests[slot]
  OBVIOUS
<1>j. PICK j : j = r.job
  OBVIOUS
<1>row. PICK row : row = Closed(r, jobs[j])
  OBVIOUS
<1>1. /\ r \in CloseRequests /\ j \in Opened /\ jobs[j] \in JobRows
      /\ jobs'[j] = row /\ \A k \in JobIds : k # j => jobs'[k] = jobs[k]
      /\ Opened' = Opened /\ Bill(r) /\ TypeOK
  BY <1>r, <1>j, <1>row, CommitCloseStep DEF BInv
<1>2. /\ row.type = jobs[j].type
      /\ row.status = Save(r.seen.status, "complete", jobs[j].status)
      /\ row.total = Save(r.seen.total, r.total, jobs[j].total)
      /\ (r.seen.dated => jobs[j].dated) => row.dated
  BY <1>1, <1>row, ClosedRow
<1>3. formed' = formed /\ Closes(slot, j) /\ Done(slot)
  BY <1>r, <1>j DEF CommitClose, Closes
<1>4. j \in JobIds /\ r.total \in Nat
  BY <1>1, <1>j DEF Opened, CloseRequests
<1>5. /\ revenue \in [JobIds -> Seq(Nat)] /\ invoices \in [JobIds -> Seq(InvoiceRows)]
      /\ Len(invoices[j]) = Len(revenue[j])
  BY <1>1, <1>4 DEF TypeOK, JobTypeOK
<1>6. \A k \in JobIds : k # j => revenue'[k] = revenue[k] /\ invoices'[k] = invoices[k]
  BY <1>1, <1>5, <1>j DEF Bill
<1>7. ASSUME NEW k \in Opened \ formed, k # j PROVE BillsOK(k)'
  <2>1. k \in JobIds
    BY DEF Opened
  <2> QED BY <1>1, <1>3, <1>6, <1>7, <2>1, BillsStay, DoneAlone DEF BInv
<1>8. ASSUME j \notin formed PROVE BillsOK(j)'
  <2>1. Billed(j) /\ StillTrue(r, jobs[j])
    BY <1>1, <1>3, <1>8, <1>r DEF BInv, BillsOK
  <2>2. row.status = "complete"
    BY <1>2, <2>1 DEF StillTrue, Save
  <2>3. row.dated
    BY <1>2, <2>1 DEF StillTrue
  <2>4. ASSUME MakesRevenue(row.type, row.total) PROVE BilledIn(j)'
    <3> DEFINE a == BillAmount(r)
               inv == Invoice(a, 0)
    <3>1. row.type = r.seen.type
      BY <1>2, <2>1 DEF StillTrue
    <3>2. CASE row.total = r.total
      <4>1. MakesRevenue(r.seen.type, r.total)
        BY <2>4, <3>1, <3>2
      <4>2. /\ revenue' = [revenue EXCEPT ![j] = Append(@, a)]
            /\ invoices' = [invoices EXCEPT ![j] = Append(@, inv)]
        BY <1>1, <1>j, <4>1 DEF Bill
      <4>3. inv \in InvoiceRows /\ inv.total = a /\ a = row.total /\ a \in Nat
        BY <1>4, <3>2 DEF Invoice, InvoiceRows, OrZero, BillAmount
      <4> HIDE DEF a, inv
      <4> DEFINE n == Len(invoices[j]) + 1
      <4>4. /\ invoices'[j] = Append(invoices[j], inv)
            /\ revenue'[j] = Append(revenue[j], a)
        BY <1>4, <1>5, <4>2
      <4>5. /\ n \in DOMAIN invoices'[j] /\ invoices'[j][n] = inv
            /\ revenue'[j][n] = a
        BY <1>4, <1>5, <4>3, <4>4
      <4> HIDE DEF n
      <4> QED BY <1>1, <4>3, <4>5 DEF BilledIn
    <3>3. CASE row.total # r.total
      <4>1. row.total = jobs[j].total /\ r.seen.total = r.total
        BY <1>2, <3>3 DEF Save
      <4>2. jobs[j].status = "complete"
        BY <2>1, <3>3, <4>1 DEF StillTrue
      <4>3. PICK i \in DOMAIN invoices[j] :
              revenue[j][i] = row.total /\ invoices[j][i].total = row.total
        BY <1>2, <2>1, <2>4, <4>1, <4>2 DEF Billed, BilledIn
      <4>4. CASE MakesRevenue(r.seen.type, r.total)
        <5>1. /\ revenue' = [revenue EXCEPT ![j] = Append(@, a)]
              /\ invoices' = [invoices EXCEPT ![j] = Append(@, inv)]
          BY <1>1, <1>j, <4>4 DEF Bill
        <5>2. a \in Nat
          BY <1>4 DEF BillAmount
        <5>3. inv \in InvoiceRows
          BY <5>2 DEF Invoice, InvoiceRows, OrZero
        <5> HIDE DEF a, inv
        <5>4. /\ invoices'[j] = Append(invoices[j], inv)
              /\ revenue'[j] = Append(revenue[j], a)
          BY <1>4, <1>5, <5>1
        <5>5. /\ i \in DOMAIN invoices'[j] /\ invoices'[j][i] = invoices[j][i]
              /\ revenue'[j][i] = revenue[j][i]
          BY <1>4, <1>5, <4>3, <5>2, <5>3, <5>4
        <5> QED BY <1>1, <4>3, <5>5 DEF BilledIn
      <4>5. CASE ~MakesRevenue(r.seen.type, r.total)
        <5>1. UNCHANGED <<revenue, invoices>>
          BY <1>1, <4>5 DEF Bill
        <5> QED BY <1>1, <4>3, <5>1 DEF BilledIn
      <4> QED BY <4>4, <4>5
    <3> QED BY <3>2, <3>3
  <2>5. Billed(j)'
    BY <1>1, <2>3, <2>4 DEF Billed
  <2>6. ASSUME NEW t \in Slots, Closes(t, j)' PROVE StillTrue(requests'[t], jobs'[j])
    <3>1. requests'[t] = requests[t]
      BY <1>1, <1>3, <2>6, DoneAlone DEF Closes
    <3>2. StillTrue(requests[t], jobs[j])
      BY <1>1, <1>8, <2>6, <3>1 DEF BInv, BillsOK, Closes
    <3> QED BY <1>1, <1>2, <2>2, <2>3, <3>1, <3>2 DEF StillTrue
  <2> QED BY <2>5, <2>6 DEF BillsOK
<1> QED BY <1>1, <1>3, <1>7, <1>8 DEF BInv

LEMMA NextBInv == BInv /\ [Next]_vars => BInv'
<1> SUFFICES ASSUME BInv, [Next]_vars PROVE BInv'
  OBVIOUS
<1>1. TypeOK /\ TypeOK'
  BY NextTypeOK DEF BInv
<1>2. ASSUME UNCHANGED <<jobVars, requests>> PROVE BInv'
  BY <1>1, <1>2, JobsAlone
<1>3. ASSUME NEW slot \in Slots, NEW j \in JobIds, NEW total \in JobTotals,
             BeginClose(slot, j, total)
      PROVE  BInv'
  <2> DEFINE r == [kind |-> "close", job |-> j, seen |-> jobs[j], total |-> total]
  <2>1. UNCHANGED jobVars /\ requests' = [requests EXCEPT ![slot] = r]
    BY <1>3 DEF BeginClose, Accept
  <2>2. r.seen = jobs[r.job]
    OBVIOUS
  <2> HIDE DEF r
  <2>3. \A t \in Slots : requests'[t] = requests[t] \/ requests'[t] = r
    BY <1>1, <2>1 DEF TypeOK
  <2> QED BY <1>1, <2>1, <2>2, <2>3, JobsAlone
<1>4. ASSUME JobNext PROVE BInv'
  <2>1. ASSUME NEW p \in PaymentIds, NEW j \in JobIds, NEW amount \in JobAmounts,
               PayJob(p, j, amount)
        PROVE  BInv'
    BY <1>2, <2>1 DEF PayJob
  <2> QED BY <1>1, <1>3, <1>4, <2>1, JobFormBInv, CommitCloseBInv DEF JobNext
<1>5. ASSUME LeaseNext, UNCHANGED jobVars PROVE BInv'
  <2>1. ASSUME NEW l \in LeaseIds, NEW d \in Deals, CreateLease(l, d) PROVE BInv'
    BY <1>2, <1>5, <2>1 DEF CreateLease
  <2>2. ASSUME NEW l \in LeaseIds, NEW row \in LeaseForms, UpdateLease(l, row)
        PROVE  BInv'
    BY <1>2, <1>5, <2>2 DEF UpdateLease
  <2>3. ASSUME NEW slot \in Slots, NEW l \in LeaseIds, NEW amount \in LeaseAmounts,
               BeginTake(slot, l, amount)
        PROVE  BInv'
    <3>1. \A t \in Slots : requests'[t] = requests[t] \/ requests'[t].kind # "close"
      BY <1>1, <2>3 DEF BeginTake, Accept, TypeOK
    <3> QED BY <1>1, <1>5, <3>1, JobsAlone
  <2>4. ASSUME NEW slot \in Slots, CommitTake(slot) PROVE BInv'
    BY <1>1, <1>5, <2>4, DoneAlone, JobsAlone DEF CommitTake
  <2> QED BY <1>5, <2>1, <2>2, <2>3, <2>4 DEF LeaseNext
<1>6. ASSUME NEW slot \in Slots, Abandon(slot) PROVE BInv'
  BY <1>1, <1>6, DoneAlone, JobsAlone DEF Abandon
<1>7. ASSUME NEW p \in PaymentIds, NEW row \in PaymentForms, SavePayment(p, row)
      PROVE  BInv'
  BY <1>2, <1>7 DEF SavePayment
<1>8. CASE UNCHANGED vars
  BY <1>2, <1>8 DEF vars
<1> QED BY <1>4, <1>5, <1>6, <1>7, <1>8 DEF Next

\* However closings of a job overlap, a job they completed has a close date,
\* and if it is billed, an invoice over the total the job shows, with revenue
\* of the same amount, until the job form changes the job (do_close_job,
\* close_repair_job, create_invoice_from_repair).
THEOREM ClosedJobsAreBilled == Spec => []BilledAsShown
<1>1. Init => BInv
  <2>1. Init => Opened = {}
    BY DEF Init, JobInit, Opened
  <2> QED BY <2>1, InitTypeOK DEF BInv
<1> QED BY <1>1, NextBInv, BilledShows, PTL DEF Spec

------------------------------------------------------------------------------
(* Receipts and the balance of the lease, for any number of takings in flight *)

\* What is left once the payment of request r is in.
AfterTake(l, r) == Left(leases[l].financed, PaidForLease(l) + r.amount)

\* No receipt, given or about to be given, tells less than is left.
NeverLess(l) ==
  /\ \A p \in ReceiptsOf(l) : receipts[p].invoice.balance >= LeaseBalance(l)
  /\ \A slot \in Slots :
       TakesOn(slot, l) => requests[slot].left >= AfterTake(l, requests[slot])

\* The last receipt tells what is left, and so will the next one.
Exact(l) ==
  /\ ForLease(l) # {} =>
       \E p \in ReceiptsOf(l) : receipts[p].invoice.balance = LeaseBalance(l)
  /\ \A slot \in Slots :
       TakesOn(slot, l) => requests[slot].left = AfterTake(l, requests[slot])

LeaseOK(l) == (~Corrected(l) => NeverLess(l)) /\ (l \notin raced => Exact(l))

LInv == TypeOK /\ \A l \in Dealt \ touched : LeaseOK(l)

LEMMA BalanceTypes ==
  ASSUME TypeOK, NEW l \in Dealt
  PROVE  /\ PaidForLease(l) \in Int /\ leases[l].financed \in OrNull(Int)
         /\ LeaseBalance(l) \in Int
         /\ \A p \in ReceiptsOf(l) : receipts[p].invoice.balance \in Int
<1>1. PaidForLease(l) \in Int /\ leases[l].financed \in OrNull(Int)
  BY PaidTypes, LeaseTypes DEF TypeOK, PaymentsTyped
<1>2. ASSUME NEW p \in ReceiptsOf(l) PROVE receipts[p].invoice.balance \in Int
  <2>1. receipts[p] \in ReceiptRows
    BY DEF ReceiptsOf, TypeOK, LeaseTypeOK, OrNull
  <2> QED BY <2>1 DEF ReceiptRows
<1> QED BY <1>1, <1>2, LeftType DEF LeaseBalance

\* The payments of a lease are the same, so is their sum.
LEMMA PaidSame ==
  ASSUME TypeOK, NEW l, ForLease(l)' = ForLease(l),
         \A p \in ForLease(l) : payments'[p] = payments[p]
  PROVE  PaidForLease(l)' = PaidForLease(l) /\ (Corrected(l)' <=> Corrected(l))
<1>1. IsFiniteSet(ForLease(l)) /\ Amounts(payments, ForLease(l))
  BY PaidTypes DEF TypeOK, PaymentsTyped
<1> DEFINE S == ForLease(l)
<1>2. \A p \in S : payments[p].amount = payments'[p].amount
  OBVIOUS
<1>3. Received(payments, S) = Received(payments', S)
  BY <1>1, <1>2, ReceivedSame
<1> QED BY <1>3 DEF PaidForLease, Corrected

\* A step that leaves a lease and its payments alone.
LEMMA LeaseStays ==
  ASSUME TypeOK, NEW l \in Dealt, LeaseOK(l),
         leases'[l] = leases[l], ForLease(l)' = ForLease(l),
         \A p \in ForLease(l) : payments'[p] = payments[p],
         ReceiptsOf(l)' = ReceiptsOf(l),
         \A p \in ReceiptsOf(l) : receipts'[p] = receipts[p],
         l \in raced => l \in raced',
         \A slot \in Slots :
           \/ requests'[slot] = requests[slot]
           \/ requests'[slot].kind # "take"
           \/ requests'[slot].lease = l =>
                /\ requests'[slot].left = AfterTake(l, requests'[slot])
                /\ requests'[slot].left \in Int
  PROVE  LeaseOK(l)'
<1>1. PaidForLease(l)' = PaidForLease(l) /\ (Corrected(l)' <=> Corrected(l))
  BY PaidSame
<1>2. LeaseBalance(l)' = LeaseBalance(l)
      /\ \A r : AfterTake(l, r)' = Left(leases[l].financed, PaidForLease(l) + r.amount)
  BY <1>1 DEF LeaseBalance, AfterTake
<1>3. ASSUME NEW slot \in Slots, TakesOn(slot, l)'
      PROVE  /\ AfterTake(l, requests[slot])' = AfterTake(l, requests'[slot])
             /\ \/ TakesOn(slot, l) /\ requests'[slot] = requests[slot]
                \/ /\ requests'[slot].left = AfterTake(l, requests'[slot])
                   /\ requests'[slot].left \in Int
  BY <1>1, <1>3 DEF TakesOn, AfterTake
<1>4. NeverLess(l) => NeverLess(l)'
  BY <1>2, <1>3 DEF NeverLess
<1>5. Exact(l) => Exact(l)'
  BY <1>2, <1>3 DEF Exact
<1> QED BY <1>1, <1>4, <1>5 DEF LeaseOK

\* A payment that is taken lowers what is left by its amount, in the tables and
\* in what the other takings will find.
LEMMA TakeOnLease ==
  ASSUME LInv, NEW slot \in Slots, CommitTake(slot), UNCHANGED jobVars,
         NEW l, l = requests[slot].lease, l \notin touched
  PROVE  LeaseOK(l)'
<1>r. PICK r : r = requests[slot]
  OBVIOUS
<1>1. /\ TypeOK /\ r \in TakeRequests /\ r.amount \in Int /\ r.left \in Int
      /\ l = r.lease /\ l \in Dealt /\ l \in LeaseIds /\ LeaseOK(l) /\ TakesOn(slot, l)
  BY <1>r, CommitTakeStep DEF LInv, TakeRequests, Dealt, TakesOn, CommitTake
<1>2. PICK p \in PaymentIds :
        /\ payments[p] = Null /\ receipts'[p] = Receipt(r) /\ receipts'[p] # Null
        /\ \A q \in PaymentIds \ {p} : /\ receipts'[q] = receipts[q]
                                        /\ payments'[q] = payments[q]
        /\ payments'[p] = LeasePayment(l, r.amount) /\ payments'[p] # Null
  BY <1>r, <1>1, CommitTakeStep
<1>3. /\ Receipt(r).lease = l /\ Receipt(r).invoice.balance = r.left
      /\ receipts[p] = Null
  BY <1>1, <1>2, ReceiptType DEF TypeOK
<1>4. ReceiptsOf(l)' = ReceiptsOf(l) \cup {p} /\ p \notin ReceiptsOf(l)
  BY <1>2, <1>3 DEF ReceiptsOf
<1>5. /\ ForLease(l)' = ForLease(l) \cup {p} /\ p \notin ForLease(l)
      /\ payments'[p].amount = r.amount
  BY <1>2 DEF ForLease, LeasePayment
<1>6. PaidForLease(l)' = PaidForLease(l) + r.amount
  <2> DEFINE S == ForLease(l)
  <2>1. IsFiniteSet(S) /\ Amounts(payments, S)
    BY <1>1, PaidTypes DEF TypeOK, PaymentsTyped
  <2>2. \A q \in S : payments[q].amount = payments'[q].amount
    BY <1>2, <1>5 DEF ForLease
  <2>3. Received(payments, S) = Received(payments', S)
    BY <2>1, <2>2, ReceivedSame
  <2>4. Amounts(payments', S \cup {p})
    BY <1>1, <1>5, <2>1, <2>2 DEF Amounts
  <2>5. Received(payments', S \cup {p}) = Received(payments', S) + payments'[p].amount
    BY <1>5, <2>1, <2>4, ReceivedMore
  <2> QED BY <1>5, <2>3, <2>5 DEF PaidForLease
<1>7. leases' = leases /\ Done(slot)
      /\ (raced' = IF \E other \in Slots \ {slot} : TakesOn(other, l)
                    THEN raced \cup {l} ELSE raced)
  BY <1>r, <1>1 DEF CommitTake
<1>8. /\ PaidForLease(l) \in Int /\ leases[l].financed \in OrNull(Int)
      /\ LeaseBalance(l) \in Int
      /\ \A q \in ReceiptsOf(l) : receipts[q].invoice.balance \in Int
  BY <1>1, BalanceTypes
<1>9. LeaseBalance(l)' = AfterTake(l, r)
  BY <1>6, <1>7 DEF LeaseBalance, AfterTake
<1>10. Corrected(l)' <=> Corrected(l) \/ r.amount < 0
  BY <1>2, <1>5 DEF Corrected, ForLease
<1>11. r.amount >= 0 => AfterTake(l, r) <= LeaseBalance(l) /\ AfterTake(l, r) \in Int
  BY <1>1, <1>8 DEF LeaseBalance, AfterTake, Left, OrNull
<1>12. ASSUME NEW t \in Slots, TakesOn(t, l)'
       PROVE  /\ t # slot /\ requests'[t] = requests[t] /\ TakesOn(t, l)
              /\ requests[t].amount \in Int /\ requests[t].left \in Int
  <2>1. t # slot /\ requests'[t] = requests[t]
    BY <1>1, <1>7, <1>12 DEF Done, TypeOK, TakesOn, Idle
  <2>2. TakesOn(t, l)
    BY <1>12, <2>1 DEF TakesOn
  <2>3. requests[t] \in TakeRequests
    BY <1>1, <2>2, RequestTypes DEF TakesOn
  <2> QED BY <2>1, <2>2, <2>3 DEF TakeRequests
<1>13. ASSUME ~Corrected(l)' PROVE NeverLess(l)'
  <2>1. r.amount >= 0 /\ NeverLess(l)
    BY <1>1, <1>10, <1>13 DEF LeaseOK
  <2>2. r.left >= AfterTake(l, r)
    BY <1>r, <1>1, <2>1 DEF NeverLess
  <2>3. ASSUME NEW q \in ReceiptsOf(l)'
        PROVE  receipts'[q].invoice.balance >= LeaseBalance(l)'
    <3>1. CASE q = p
      BY <1>2, <1>3, <1>9, <2>2, <3>1
    <3>2. CASE q # p
      <4>1. q \in ReceiptsOf(l) /\ receipts'[q] = receipts[q]
        BY <1>2, <1>4, <3>2 DEF ReceiptsOf
      <4>2. receipts[q].invoice.balance >= LeaseBalance(l)
        BY <2>1, <4>1 DEF NeverLess
      <4> QED BY <1>8, <1>9, <1>11, <2>1, <4>1, <4>2
    <3> QED BY <3>1, <3>2
  <2>4. ASSUME NEW t \in Slots, TakesOn(t, l)'
        PROVE  requests'[t].left >= AfterTake(l, requests[t])'
    <3>1. requests[t].left >= AfterTake(l, requests[t])
      BY <1>12, <2>1, <2>4 DEF NeverLess
    <3>2. AfterTake(l, requests[t])'
            = Left(leases[l].financed, PaidForLease(l) + r.amount + requests[t].amount)
      BY <1>6, <1>7, <1>12, <2>4 DEF AfterTake
    <3>3. Left(leases[l].financed, PaidForLease(l) + r.amount + requests[t].amount)
            <= Left(leases[l].financed, PaidForLease(l) + requests[t].amount)
      BY <1>1, <1>8, <1>12, <2>1, <2>4 DEF Left, OrNull
    <3>4. /\ Left(leases[l].financed, PaidForLease(l) + r.amount + requests[t].amount) \in Int
          /\ Left(leases[l].financed, PaidForLease(l) + requests[t].amount) \in Int
      BY <1>1, <1>8, <1>12, <2>4, LeftType
    <3> QED BY <1>12, <2>4, <3>1, <3>2, <3>3, <3>4 DEF AfterTake
  <2> QED BY <2>3, <2>4 DEF NeverLess
<1>14. ASSUME l \notin raced' PROVE Exact(l)'
  <2>1. l \notin raced /\ \A t \in Slots \ {slot} : ~TakesOn(t, l)
    BY <1>7, <1>14
  <2>2. r.left = AfterTake(l, r)
    BY <1>r, <1>1, <2>1 DEF LeaseOK, Exact
  <2>3. receipts'[p].invoice.balance = LeaseBalance(l)' /\ p \in ReceiptsOf(l)'
    BY <1>2, <1>3, <1>4, <1>9, <2>2
  <2>4. \A t \in Slots : ~TakesOn(t, l)'
    BY <1>12, <2>1
  <2> QED BY <2>3, <2>4 DEF Exact
<1> QED BY <1>13, <1>14 DEF LeaseOK

\* A step that leaves the leases, their payments and their receipts alone, and
\* starts takings at most.
LEMMA LeasesAlone ==
  ASSUME LInv, TypeOK', UNCHANGED leaseVars,
         \A l \in Dealt : /\ ForLease(l)' = ForLease(l)
                         /\ \A p \in ForLease(l) : payments'[p] = payments[p],
         \A slot \in Slots :
           \/ requests'[slot] = requests[slot]
           \/ requests'[slot].kind # "take"
           \/ /\ requests'[slot].left = AfterTake(requests'[slot].lease, requests'[slot])
              /\ requests'[slot].left \in Int
  PROVE  LInv'
<1>1. /\ UNCHANGED <<leases, receipts, raced, touched>> /\ Dealt' = Dealt /\ TypeOK
  BY LeasesStay DEF leaseVars, LInv
<1>2. ASSUME NEW l \in Dealt \ touched PROVE LeaseOK(l)'
  <2>1. LeaseOK(l) /\ ReceiptsOf(l)' = ReceiptsOf(l)
    BY <1>1 DEF LInv, ReceiptsOf
  <2> QED BY <1>1, <2>1, LeaseStays
<1> QED BY <1>1, <1>2 DEF LInv

LEMMA SamePayments ==
  ASSUME UNCHANGED payments, NEW l
  PROVE  /\ ForLease(l)' = ForLease(l)
         /\ \A p \in ForLease(l) : payments'[p] = payments[p]
BY DEF ForLease

LEMMA DoneTakes ==
  ASSUME TypeOK, NEW slot \in Slots, Done(slot)
  PROVE  \A t \in Slots : \/ requests'[t] = requests[t]
                          \/ requests'[t].kind # "take"
BY DEF TypeOK, Done, Idle

\* The forms of a lease touch it; a new lease has no payments and no takings.
LEMMA LeaseFormLInv ==
  ASSUME LInv, TypeOK', NEW l \in LeaseIds, NEW row \in LeaseRows,
         leases' = [leases EXCEPT ![l] = row],
         UNCHANGED <<receipts, raced, payments, requests>>,
         l \in Dealt => l \in touched', touched \subseteq touched'
  PROVE  LInv'
<1>1. TypeOK /\ row # Null
  BY ReceivablesConstantsOK DEF LInv
<1>2. leases'[l] = row /\ \A k \in LeaseIds \ {l} : leases'[k] = leases[k]
  BY <1>1 DEF TypeOK, LeaseTypeOK
<1>3. Dealt' = Dealt \cup {l}
  BY <1>1, <1>2 DEF Dealt
<1>4. ASSUME NEW k \in Dealt \ touched, k # l PROVE LeaseOK(k)'
  <2>1. LeaseOK(k) /\ ReceiptsOf(k)' = ReceiptsOf(k) /\ leases'[k] = leases[k]
    BY <1>2, <1>4 DEF LInv, ReceiptsOf, Dealt
  <2> QED BY <1>1, <2>1, SamePayments, LeaseStays DEF ReceiptsOf
<1>5. ASSUME l \notin Dealt PROVE LeaseOK(l)'
  <2>1. l # Null
    BY ReceivablesConstantsOK
  <2>2. ForLease(l)' = {} /\ ReceiptsOf(l)' = {}
    BY <1>1, <1>5, <2>1 DEF ForLease, ReceiptsOf, TypeOK, LeaseTypeOK, OrNull
  <2>3. \A slot \in Slots : ~TakesOn(slot, l)'
    BY <1>1, <1>5, RequestTypes DEF TakesOn, TakeRequests
  <2> QED BY <2>2, <2>3 DEF LeaseOK, NeverLess, Exact
<1> QED BY <1>3, <1>4, <1>5 DEF LInv

LEMMA BeginTakeLInv ==
  ASSUME LInv, TypeOK', NEW slot \in Slots, NEW l \in LeaseIds,
         NEW amount \in LeaseAmounts, BeginTake(slot, l, amount)
  PROVE  LInv'
<1> DEFINE left == LeftAfter(leases[l].financed, PaidForLease(l), amount)
           r == [kind |-> "take", lease |-> l, amount |-> amount, left |-> left]
<1>1. /\ TypeOK /\ UNCHANGED <<leaseVars, payments>>
      /\ requests' = [requests EXCEPT ![slot] = r]
  BY DEF LInv, BeginTake, Accept
<1>2. r.left = AfterTake(r.lease, r)
  BY DEF LeftAfter, AfterTake
<1>3. PICK q : q = r
  OBVIOUS
<1>4. q.left = AfterTake(q.lease, q) /\ q.kind = "take"
      /\ requests' = [requests EXCEPT ![slot] = q]
  BY <1>1, <1>2, <1>3
<1> HIDE DEF r
<1>5. requests'[slot] = q /\ \A t \in Slots : requests'[t] = requests[t] \/ requests'[t] = q
  BY <1>1, <1>4 DEF TypeOK
<1>6. q.left \in Int
  <2>1. requests'[slot] \in ({Idle} \cup CloseRequests \cup TakeRequests)'
    BY DEF TypeOK
  <2> QED BY <1>4, <1>5, <2>1 DEF TakeRequests, CloseRequests, Idle
<1> QED BY <1>1, <1>4, <1>5, <1>6, SamePayments, LeasesAlone

LEMMA CommitTakeLInv ==
  ASSUME LInv, TypeOK', NEW slot \in Slots, CommitTake(slot), UNCHANGED jobVars
  PROVE  LInv'
<1>r. PICK r : r = requests[slot]
  OBVIOUS
<1>1. /\ TypeOK /\ leases' = leases /\ touched' = touched /\ Dealt' = Dealt
      /\ Done(slot) /\ raced \subseteq raced'
  BY DEF CommitTake, LInv, Dealt
<1>2. PICK p \in PaymentIds :
        /\ payments[p] = Null /\ receipts'[p] = Receipt(r)
        /\ \A q \in PaymentIds \ {p} : /\ receipts'[q] = receipts[q]
                                        /\ payments'[q] = payments[q]
        /\ payments'[p] = LeasePayment(r.lease, r.amount)
  BY <1>r, <1>1, CommitTakeStep
<1>3. r \in TakeRequests /\ receipts[p] = Null /\ Receipt(r).lease = r.lease
  BY <1>r, <1>1, <1>2, CommitTakeStep, ReceiptType DEF TypeOK
<1>4. ASSUME NEW l \in Dealt \ touched, l # r.lease PROVE LeaseOK(l)'
  <2>1. /\ ForLease(l)' = ForLease(l)
        /\ \A q \in ForLease(l) : payments'[q] = payments[q]
    BY <1>2, <1>4 DEF ForLease, LeasePayment
  <2>2. /\ ReceiptsOf(l)' = ReceiptsOf(l)
        /\ \A q \in ReceiptsOf(l) : receipts'[q] = receipts[q]
    BY <1>2, <1>3, <1>4 DEF ReceiptsOf
  <2>3. LeaseOK(l)
    BY DEF LInv
  <2> QED BY <1>1, <2>1, <2>2, <2>3, DoneTakes, LeaseStays
<1>5. ASSUME r.lease \notin touched PROVE LeaseOK(r.lease)'
  BY <1>r, <1>5, TakeOnLease
<1> QED BY <1>1, <1>4, <1>5 DEF LInv

LEMMA SavePaymentLInv ==
  ASSUME LInv, TypeOK', NEW p \in PaymentIds, NEW row \in PaymentForms, SavePayment(p, row)
  PROVE  LInv'
<1>1. /\ TypeOK /\ UNCHANGED <<leases, receipts, raced, requests>> /\ Dealt' = Dealt
      /\ payments' = [payments EXCEPT ![p] = row]
      /\ touched' = touched \cup {l \in Dealt : l = row.lease \/ p \in ForLease(l)}
  BY DEF LInv, SavePayment, Dealt
<1>2. payments'[p] = row /\ \A q \in PaymentIds \ {p} : payments'[q] = payments[q]
  BY <1>1 DEF TypeOK
<1>3. ASSUME NEW l \in Dealt, l \notin touched' PROVE LeaseOK(l)'
  <2>1. l \notin touched /\ l # row.lease /\ p \notin ForLease(l)
    BY <1>1, <1>3
  <2>2. /\ ForLease(l)' = ForLease(l)
        /\ \A q \in ForLease(l) : payments'[q] = payments[q]
    BY <1>2, <2>1 DEF ForLease
  <2>3. LeaseOK(l) /\ ReceiptsOf(l)' = ReceiptsOf(l)
    BY <1>1, <2>1 DEF LInv, ReceiptsOf
  <2> QED BY <1>1, <2>2, <2>3, LeaseStays
<1> QED BY <1>1, <1>3 DEF LInv

LEMMA PayJobLInv ==
  ASSUME LInv, TypeOK', NEW p \in PaymentIds, NEW j \in JobIds, NEW amount \in JobAmounts,
         PayJob(p, j, amount), UNCHANGED leaseVars
  PROVE  LInv'
<1>1. /\ TypeOK /\ UNCHANGED requests /\ payments[p] = Null
      /\ payments' = [payments EXCEPT ![p] = JobPayment(j, amount)]
  BY DEF LInv, PayJob, InsertPayment
<1>2. /\ payments'[p].lease = Null
      /\ \A q \in PaymentIds \ {p} : payments'[q] = payments[q]
  BY <1>1 DEF TypeOK, JobPayment
<1>3. ASSUME NEW l \in Dealt
      PROVE  /\ ForLease(l)' = ForLease(l)
             /\ \A q \in ForLease(l) : payments'[q] = payments[q]
  <2>1. l # Null
    BY ReceivablesConstantsOK DEF Dealt
  <2> QED BY <1>1, <1>2, <2>1 DEF ForLease
<1> QED BY <1>1, <1>3, LeasesAlone

LEMMA NextLInv == LInv /\ [Next]_vars => LInv'
<1> SUFFICES ASSUME LInv, [Next]_vars PROVE LInv'
  OBVIOUS
<1>1. TypeOK /\ TypeOK'
  BY NextTypeOK DEF LInv
<1>2. ASSUME UNCHANGED <<leaseVars, payments>>,
             \A slot \in Slots : \/ requests'[slot] = requests[slot]
                                \/ requests'[slot].kind # "take"
      PROVE  LInv'
  BY <1>1, <1>2, SamePayments, LeasesAlone
<1>3. ASSUME JobNext, UNCHANGED leaseVars PROVE LInv'
  <2>1. ASSUME NEW j \in JobIds, NEW row \in JobForms,
               CreateJob(j, row) \/ UpdateJob(j, row)
        PROVE  LInv'
    BY <1>2, <1>3, <2>1 DEF CreateJob, UpdateJob
  <2>2. ASSUME NEW slot \in Slots, NEW j \in JobIds, NEW total \in JobTotals,
               BeginClose(slot, j, total)
        PROVE  LInv'
    <3>1. \A t \in Slots : requests'[t] = requests[t] \/ requests'[t].kind # "take"
      BY <1>1, <2>2 DEF BeginClose, Accept, TypeOK
    <3> QED BY <1>2, <1>3, <2>2, <3>1 DEF BeginClose
  <2>3. ASSUME NEW slot \in Slots, CommitClose(slot) PROVE LInv'
    BY <1>1, <1>2, <1>3, <2>3, DoneTakes DEF CommitClose
  <2> QED BY <1>1, <1>3, <2>1, <2>2, <2>3, PayJobLInv DEF JobNext
<1>4. ASSUME LeaseNext, UNCHANGED jobVars PROVE LInv'
  <2>1. ASSUME NEW l \in LeaseIds, NEW d \in Deals, CreateLease(l, d) PROVE LInv'
    <3> DEFINE row == [financed |-> d.agreed - d.down, scheduled |-> d.scheduled,
                       frequency |-> d.frequency]
    <3>1. row \in LeaseRows
      BY <2>1, CreateLeaseRow, ReceivablesConstantsOK DEF CreateLease
    <3>2. /\ leases' = [leases EXCEPT ![l] = row] /\ l \notin Dealt
          /\ UNCHANGED <<receipts, raced, payments, requests, touched>>
      BY <2>1 DEF CreateLease, Dealt
    <3> HIDE DEF row
    <3> QED BY <1>1, <3>1, <3>2, LeaseFormLInv
  <2>2. ASSUME NEW l \in LeaseIds, NEW row \in LeaseForms, UpdateLease(l, row)
        PROVE  LInv'
    <3>1. row \in LeaseRows
      BY ReceivablesConstantsOK
    <3> QED BY <1>1, <2>2, <3>1, LeaseFormLInv DEF UpdateLease
  <2> QED BY <1>1, <1>4, <2>1, <2>2, BeginTakeLInv, CommitTakeLInv DEF LeaseNext
<1>5. ASSUME NEW slot \in Slots, Abandon(slot) PROVE LInv'
  BY <1>1, <1>2, <1>5, DoneTakes DEF Abandon
<1>6. CASE UNCHANGED vars
  BY <1>2, <1>6 DEF vars
<1> QED BY <1>1, <1>3, <1>4, <1>5, <1>6, SavePaymentLInv DEF Next

LEMMA LeaseInvariance == Spec => []LInv
<1>1. Init => LInv
  <2>1. Init => Dealt = {}
    BY DEF Init, LeaseInit, Dealt
  <2> QED BY <2>1, InitTypeOK DEF LInv
<1> QED BY <1>1, NextLInv, PTL DEF Spec

\* However payments overlap, no receipt tells the customer less than the pages
\* of the lease compute, unless a correction was entered or a form changed the
\* deal or a payment (record_rto_payment, _compute_remaining_balance).
THEOREM ReceiptsTellEnough == Spec => []ReceiptsNeverUnderstate
<1>1. LInv => ReceiptsNeverUnderstate
  BY DEF LInv, LeaseOK, NeverLess, ReceiptsNeverUnderstate
<1> QED BY <1>1, LeaseInvariance, PTL

\* As long as payments of a lease did not overlap, one of its receipts states
\* the balance that every page computes (create_invoice_from_rto_payment,
\* calculate_remaining_balance).
THEOREM ReceiptsAgreeWithPages == Spec => []ReceiptStatesBalance
<1>1. LInv => ReceiptStatesBalance
  BY DEF LInv, LeaseOK, Exact, ReceiptStatesBalance
<1> QED BY <1>1, LeaseInvariance, PTL

------------------------------------------------------------------------------
(* The months that are left *)

LEMMA TimesGrows ==
  ASSUME NEW a \in Int, NEW b \in Int, NEW s \in Nat, a <= b
  PROVE  a * s <= b * s
OBVIOUS

LEMMA CeilingIs ==
  ASSUME NEW a \in Int, NEW b \in Nat, b > 0
  PROVE  /\ Ceiling(a, b) \in Int
         /\ Ceiling(a, b) * b >= a /\ (Ceiling(a, b) - 1) * b < a
<1> DEFINE c == (a + b - 1) \div b
<1>1. c \in Int /\ c * b <= a + b - 1 /\ a + b - 1 < (c + 1) * b
  OBVIOUS
<1> HIDE DEF c
<1>2. (c + 1) * b = c * b + b /\ (c - 1) * b = c * b - b /\ c * b \in Int
  BY <1>1
<1>3. Ceiling(a, b) = c
  BY DEF Ceiling, c
<1> QED BY <1>1, <1>2, <1>3

\* The months for n payments have n of them due, and each month less has one
\* payment less at least.
LEMMA MonthsCover ==
  ASSUME NEW n \in Int, NEW f \in Frequencies
  PROVE  LET m == MonthsFor(n, f) IN
         /\ m \in Int /\ DueWithin(m, f) \in Int /\ DueWithin(m - 1, f) \in Int
         /\ DueWithin(m, f) >= n /\ DueWithin(m - 1, f) <= n - 1
<1>1. CASE f = "monthly"
  BY <1>1 DEF MonthsFor, DueWithin
<1>2. CASE f = "bi_weekly"
  BY <1>2 DEF MonthsFor, DueWithin, Ceiling
<1>3. CASE f = "weekly"
  <2> DEFINE m == (n * 7 + 29) \div 30
  <2>1. m \in Int /\ 30 * m <= n * 7 + 29 /\ n * 7 + 29 < 30 * m + 30
    OBVIOUS
  <2>2. MonthsFor(n, f) = m
    BY <1>3 DEF MonthsFor, Ceiling
  <2> HIDE DEF m
  <2>3. \A k \in Int : DueWithin(k, f) = (30 * k) \div 7
    BY <1>3 DEF DueWithin
  <2>4. \A k \in Int : /\ (30 * k) \div 7 \in Int /\ 7 * ((30 * k) \div 7) <= 30 * k
                       /\ 30 * k < 7 * ((30 * k) \div 7) + 7
    OBVIOUS
  <2>5. PICK d0 \in Int : /\ d0 = DueWithin(m, f) /\ 7 * d0 <= 30 * m
                          /\ 30 * m < 7 * d0 + 7
    BY <2>1, <2>3, <2>4
  <2>6. PICK d1 \in Int : d1 = DueWithin(m - 1, f) /\ 7 * d1 <= 30 * (m - 1)
    BY <2>1, <2>3, <2>4
  <2>8. d0 >= n /\ d1 <= n - 1
    <3>1. 7 * n <= 30 * m /\ 30 * m <= 7 * n + 29
      BY <2>1
    <3>2. m \in Int
      BY <2>1
    <3>3. d0 >= n
      BY <2>5, <3>1, <3>2
    <3>4. d1 <= n - 1
      BY <2>6, <3>1, <3>2
    <3> QED BY <3>3, <3>4
  <2>9. /\ DueWithin(m, f) \in Int /\ DueWithin(m - 1, f) \in Int
        /\ DueWithin(m, f) >= n /\ DueWithin(m - 1, f) <= n - 1
    BY <2>5, <2>6, <2>8
  <2> QED BY <2>1, <2>2, <2>9
<1> QED BY <1>1, <1>2, <1>3 DEF Frequencies

\* The months shown for a lease are the fewest that pay it off or, where the
\* division of floats rounds up, the fewest that pay off a scheduled payment
\* more, whatever the deal and the payments are (calculate_remaining_months).
THEOREM MonthsAreEnough == Spec => []MonthsPayOff
<1>1. TypeOK => MonthsPayOff
  <2> SUFFICES ASSUME TypeOK, NEW l \in Dealt,
                      MonthsLeft(leases[l], LeaseBalance(l)) \notin {0, Null}
               PROVE  LET m    == MonthsLeft(leases[l], LeaseBalance(l))
                          owed == Counted(leases[l], LeaseBalance(l))
                      IN  PaysOff(leases[l], m, owed) /\ ~PaysOff(leases[l], m - 1, owed)
    BY DEF MonthsPayOff
  <2>1. PICK b \in Int : b = LeaseBalance(l)
    BY BalanceTypes
  <2>2. PICK s \in OrNull(Nat) : s = leases[l].scheduled
    BY LeaseTypes
  <2>3. PICK f \in Frequencies : f = leases[l].frequency
    BY LeaseTypes
  <2>4. b > 0 /\ s \in Nat /\ s > 0
    BY <2>1, <2>2 DEF MonthsLeft, OrNull
  <2>5. PICK n : n = PaymentsLeft(b, s)
    OBVIOUS
  <2>6. PICK owed : owed = Counted(leases[l], b)
    OBVIOUS
  <2>7. n \in Int /\ owed \in Int /\ n * s >= owed /\ (n - 1) * s < owed
        /\ n * s \in Int /\ (n - 1) * s \in Int
    <3>1. PICK c : c = Ceiling(b, s)
      OBVIOUS
    <3>2. c \in Int /\ c * s >= b /\ (c - 1) * s < b
      BY <2>4, <3>1, CeilingIs
    <3>3. /\ c * s \in Int /\ (c + 1) * s = c * s + s
          /\ (c + 0) * s = c * s /\ ((c + 1) - 1) * s = (c - 1) * s + s
          /\ ((c + 0) - 1) * s = (c - 1) * s /\ (c - 1) * s \in Int
      BY <2>4, <3>2
    <3>4. CASE <<b, s>> \in RoundsUp
      <4>1. n = c + 1 /\ owed = b + s
        BY <2>2, <2>5, <2>6, <3>1, <3>4 DEF PaymentsLeft, Counted
      <4> QED BY <2>4, <3>2, <3>3, <4>1
    <3>5. CASE <<b, s>> \notin RoundsUp
      <4>1. n = c + 0 /\ owed = b + 0
        BY <2>2, <2>5, <2>6, <3>1, <3>5 DEF PaymentsLeft, Counted
      <4> QED BY <2>4, <3>2, <3>3, <4>1
    <3> QED BY <3>4, <3>5
  <2>8. PICK m : m = MonthsFor(n, f)
    OBVIOUS
  <2>9. MonthsLeft(leases[l], LeaseBalance(l)) = m
    BY <2>1, <2>2, <2>3, <2>4, <2>5, <2>8, ReceivablesConstantsOK DEF MonthsLeft
  <2>10. /\ m \in Int /\ DueWithin(m, f) \in Int /\ DueWithin(m - 1, f) \in Int
         /\ DueWithin(m, f) >= n /\ DueWithin(m - 1, f) <= n - 1
    BY <2>7, <2>8, MonthsCover
  <2>11. \A k : PaysOff(leases[l], k, owed) <=> DueWithin(k, f) * s >= owed
    BY <2>2, <2>3 DEF PaysOff
  <2>12. PaysOff(leases[l], m, owed)
    <3>1. n * s <= DueWithin(m, f) * s
      BY <2>4, <2>7, <2>10, TimesGrows
    <3>2. DueWithin(m, f) * s \in Int
      BY <2>4, <2>10
    <3> QED BY <2>7, <2>11, <3>1, <3>2
  <2>13. ~PaysOff(leases[l], m - 1, owed)
    <3>1. DueWithin(m - 1, f) * s <= (n - 1) * s
      BY <2>4, <2>7, <2>10, TimesGrows
    <3>2. DueWithin(m - 1, f) * s \in Int
      BY <2>4, <2>10
    <3> QED BY <2>7, <2>11, <3>1, <3>2
  <2> QED BY <2>1, <2>6, <2>9, <2>12, <2>13
<1> QED BY <1>1, ReceivablesTyped, PTL
=============================================================================
