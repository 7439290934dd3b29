----------------------------- MODULE RepairJobs -----------------------------
(***************************************************************************)
(* Repair jobs: opened, edited, closed with a bill, paid.                  *)
(*                                                                         *)
(* Closing is two steps, the read of the job and the commit; any number of *)
(* closings overlap.  Nothing in it asks whether the job is open.  The     *)
(* edit form decides nothing and is one step.                              *)
(***************************************************************************)
EXTENDS Payments

CONSTANTS
  Customers,
  JobForms,       \* what the job form submits
  JobTotals,      \* total_billed_amount as the close form submits it
  JobAmounts,     \* what is paid on a job
  MaxBills        \* bound: bills of one job

JobTypes == {"customer_repair", "customer_support_repair", "internal_recon"}
JobStatuses == {"open", "in_progress", "waiting_parts", "complete", "cancelled"}
JobRows == [type: JobTypes, status: JobStatuses, customer: OrNull(Customers),
            total: Nat, dated: BOOLEAN]

VARIABLES
  jobs,       \* the repair_jobs rows
  revenue,    \* per job, the amounts of its repair_revenue transactions
  invoices,   \* per job, its invoices
  formed      \* ghost: jobs made complete, or changed, by the job form

jobVars == <<jobs, revenue, invoices, formed>>

Opened == {j \in JobIds : jobs[j] # Null}

JobInit ==
  /\ jobs     = [j \in JobIds |-> Null]
  /\ revenue  = [j \in JobIds |-> <<>>]
  /\ invoices = [j \in JobIds |-> <<>>]
  /\ formed   = {}

\* create_job takes any status.
CreateJob(j, row) ==
  /\ jobs[j] = Null
  /\ jobs' = [jobs EXCEPT ![j] = row]
  /\ formed' = IF row.status = "complete" THEN formed \cup {j} ELSE formed
  /\ UNCHANGED <<revenue, invoices, payments, requests>>

\* update_job overwrites the row, books nothing and leaves what was booked.
UpdateJob(j, row) ==
  /\ j \in Opened /\ row # jobs[j]
  /\ jobs' = [jobs EXCEPT ![j] = row]
  /\ formed' = formed \cup {j}
  /\ UNCHANGED <<revenue, invoices, payments, requests>>

------------------------------------------------------------------------------
(* Closing *)

\* do_close_job loads the job; the form brings the total.
BeginClose(slot, j, total) ==
  /\ j \in Opened
  /\ Accept(slot, [kind |-> "close", job |-> j, seen |-> jobs[j], total |-> total])
  /\ UNCHANGED <<jobVars, payments>>

\* Customer repairs with a billed amount make revenue, other jobs do not.
MakesRevenue(type, total) == type = "customer_repair" /\ total > 0

\* Fault: the bill repeats the total the job had before the close form.
BillAsLoaded(r) == r.seen.total

BillAmount(r) == r.total

\* Fault: the transaction is booked and the invoice is forgotten.
BillNoInvoice(r) ==
  /\ r.seen.customer # Null
  /\ Len(revenue[r.job]) < MaxBills
  /\ revenue' = [revenue EXCEPT ![r.job] = Append(@, BillAmount(r))]
  /\ UNCHANGED invoices

\* close_repair_job: the transaction and create_invoice_from_repair.
Bill(r) ==
  IF MakesRevenue(r.seen.type, r.total)
  THEN /\ r.seen.customer # Null          \* invoices.customer_id is NOT NULL
       /\ Len(invoices[r.job]) < MaxBills
       /\ revenue'  = [revenue  EXCEPT ![r.job] = Append(@, BillAmount(r))]
       /\ invoices' = [invoices EXCEPT ![r.job] = Append(@, Invoice(BillAmount(r), 0))]
  ELSE UNCHANGED <<revenue, invoices>>

\* What do_close_job saves of the job, column by column.
Closed(r, row) ==
  [row EXCEPT !.status = Save(r.seen.status, "complete", @),
              !.total  = Save(r.seen.total, r.total, @),
              !.dated  = Save(r.seen.dated, TRUE, @)]

\* A bill without a customer violates a constraint, and the session rolls back.
CommitClose(slot) ==
  /\ requests[slot].kind = "close"
  /\ LET r == requests[slot] IN
     /\ jobs' = [jobs EXCEPT ![r.job] = Closed(r, @)]
     /\ Bill(r)
  /\ Done(slot)
  /\ UNCHANGED <<formed, payments>>

\* record_repair_payment, whatever the status of the job.
PayJob(p, j, amount) ==
  /\ j \in Opened /\ jobs[j].customer # Null  \* payments.customer_id is NOT NULL
  /\ InsertPayment(p, JobPayment(j, amount))
  /\ UNCHANGED <<jobVars, requests>>

JobNext ==
  \/ \E j \in JobIds, row \in JobForms : CreateJob(j, row) \/ UpdateJob(j, row)
  \/ \E slot \in Slots, j \in JobIds, total \in JobTotals : BeginClose(slot, j, total)
  \/ \E slot \in Slots : CommitClose(slot)
  \/ \E p \in PaymentIds, j \in JobIds, amount \in JobAmounts : PayJob(p, j, amount)

------------------------------------------------------------------------------
CloseRequests == [kind: {"close"}, job: Opened, seen: JobRows, total: Nat]

InvoiceRows == [total: Nat, paid: Nat, balance: Nat, status: {"open", "paid"}]

JobTypeOK ==
  /\ jobs \in [JobIds -> OrNull(JobRows)]
  /\ revenue \in [JobIds -> Seq(Nat)]
  /\ invoices \in [JobIds -> Seq(InvoiceRows)]
  /\ \A j \in JobIds :
       /\ Len(invoices[j]) = Len(revenue[j])
       /\ invoices[j] # <<>> => j \in Opened
  /\ formed \subseteq Opened

\* repair_invoice and edit_job_form: what the pages of the job say is owed.
JobRemaining(j) == jobs[j].total - PaidForJob(j)

\* However closings of a job overlap, a job they completed has a close date,
\* and if it is billed, one of its invoices shows the remaining balance that
\* the page of the job shows, over revenue booked in the same amount, until
\* the job form changes the job (do_close_job, close_repair_job,
\* create_invoice_from_repair, _load_invoice_context).
BilledAsShown ==
  \A j \in Opened \ formed :
    jobs[j].status = "complete" =>
      /\ jobs[j].dated
      /\ MakesRevenue(jobs[j].type, jobs[j].total) =>
           \E i \in DOMAIN invoices[j] :
             /\ revenue[j][i] = jobs[j].total
             /\ Remaining(invoices[j][i], PaidForJob(j)) = OrZero(JobRemaining(j))

\* "The revenue transaction is created once at close time"
\* (repair_service.py).
RevenueOnce == \A j \in JobIds : Len(revenue[j]) <= 1
=============================================================================
