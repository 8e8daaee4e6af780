------------------------------ MODULE Billing ------------------------------
(***************************************************************************)
(* Subscriptions, invoices, disputes and payouts: the handlers and         *)
(* services that work on their rows, and the background tasks that set the *)
(* status of an invoice or a payout.                                       *)
(*                                                                         *)
(* None of these operations runs in a transaction.  A job (a request, a    *)
(* call of the service API or a run of a task handler) reads the row,      *)
(* checks the copy, writes the whole row or a column of it, and announces  *)
(* the change; other jobs step between.  Any statement may fail, with or   *)
(* without effect, and a restart loses every job at work.                  *)
(*                                                                         *)
(* Rows of different tables share nothing, so a behaviour is about one row *)
(* of one table, chosen in Init.  Its identity, owner, money and texts are *)
(* left out: no operation here tells them apart.  Time is counted in       *)
(* units of the interval, from the beginning of the first period; an       *)
(* update may make the interval count zero or negative, as the code lets   *)
(* it.  Renewals stop once a period ends more than Horizon away from 0.    *)
(***************************************************************************)
EXTENDS Integers

CONSTANTS Jobs,     \* jobs at work at the same time
          Steps,    \* interval counts, of either sign
          Urls,     \* evidence a merchant submits
          NoUrl,    \* the evidence column holds '{}'
          Horizon,  \* bound on the end of a period that is renewed
          NoRow     \* a job holds no copy of the row

Subscription == [status : {"active", "past_due", "cancelled", "unpaid", "trialing"},
                 cancelled_at : BOOLEAN, start : Int, end : Int, step : Steps]
Invoice == [status : {"draft", "open", "paid", "void", "uncollectible"}]
Payout == [status : {"pending", "in_transit", "paid", "failed", "cancelled"}]
Dispute == [status : {"warning_needs_response", "under_review", "lost", "won", "closed"},
            evidence : Urls \cup {NoUrl}]

Rows == [subscriptions |-> Subscription, invoices |-> Invoice, payouts |-> Payout,
         disputes |-> Dispute]

AnyRow == Subscription \cup Invoice \cup Payout \cup Dispute

ASSUME BillingAssumption ==
    /\ Horizon \in Nat
    /\ Steps \subseteq Int
    /\ NoUrl \notin Urls
    /\ \A t \in DOMAIN Rows : NoRow \notin Rows[t]

VARIABLES table,     \* the table this behaviour is about
          row,       \* its row
          positive,  \* history: every interval count stored so far is positive
          job        \* where each job stands, and what became of its last one

data == <<table, row, positive>>
vars == <<table, row, positive, job>>

Reading == {"get", "list"}
Tasks == {"payout_task", "invoice_task"}
Ops == Reading \cup Tasks \cup {"create", "update", "cancel", "renew", "send", "paid",
                                "overdue", "evidence"}

\* How many writes an operation makes when all goes well.
Writes(op) == IF op \in Reading THEN 0 ELSE IF op = "evidence" THEN 2 ELSE 1

Busy == {"count", "read", "insert", "write", "status", "publish"}

Job == [at : Busy \cup {"idle", "done"}, op : Ops \cup {"none"},
        read : AnyRow \cup {NoRow},
        stored : 0..2,                        \* history: writes that took effect
        announced : BOOLEAN,                  \* history: its event was published
        faulted : BOOLEAN,                    \* history: a failure hit it
        answer : {"none", "ok", "error"}]

TypeOK ==
    /\ table \in DOMAIN Rows
    /\ row \in Rows[table]
    /\ positive \in BOOLEAN
    /\ job \in [Jobs -> Job]

NewJob(op, at) == [at |-> at, op |-> op, read |-> NoRow, stored |-> 0, announced |-> FALSE,
                   faulted |-> FALSE, answer |-> "none"]

\* The rows the create functions build.
NewSubscription(n) == [status |-> "active", cancelled_at |-> FALSE, start |-> 0, end |-> n,
                       step |-> n]
NewInvoice == [status |-> "draft"]
NewPayout == [status |-> "pending"]
NewDispute == [status |-> "warning_needs_response", evidence |-> NoUrl]

\* A row is as it was created (CreateSubscription makes a count below 1 a
\* one), or in a status only other systems give it.
InitialRows ==
    [subscriptions |-> {[NewSubscription(n) EXCEPT !.status = s] :
                            n \in {k \in Steps : k > 0}, s \in {"active", "past_due"}},
     invoices |-> {NewInvoice, [status |-> "void"]},
     payouts |-> {NewPayout} \cup [status : {"paid", "failed", "cancelled"}],
     disputes |-> {[NewDispute EXCEPT !.status = s] :
                            s \in {"warning_needs_response", "lost", "won"}}]

Init ==
    /\ table \in DOMAIN Rows
    /\ row \in InitialRows[table]
    /\ positive = TRUE
    /\ job = [j \in Jobs |-> NewJob("none", "idle")]

-----------------------------------------------------------------------------
(* How a job moves on and how it ends *)

Goto(j, at) == job' = [job EXCEPT ![j].at = at]

\* The handler answers, or the task handler returns.
Answered(jb, answer) == [jb EXCEPT !.at = "done", !.read = NoRow, !.answer = answer]

Answer(j, answer) == job' = [job EXCEPT ![j] = Answered(@, answer)]

\* A statement of this job failed, having had n effects.
Failed(jb, n) == [Answered(jb, "error") EXCEPT !.stored = jb.stored + n, !.faulted = TRUE]

Fail(j, n) == job' = [job EXCEPT ![j] = Failed(@, n)]

\* A job on a row of table t arrives: malformed ids, bodies and payloads are
\* refused, others reach the first statement.
Arrive(j, t, op, first) ==
    /\ table = t
    /\ job[j].at \in {"idle", "done"}
    /\ job' \in {[job EXCEPT ![j] = NewJob(op, first)],
                 [job EXCEPT ![j] = Answered(NewJob(op, first), "error")]}
    /\ UNCHANGED data

-----------------------------------------------------------------------------
(* The operations: handlers, service calls without a route, tasks *)

CreateSubscription(j) == Arrive(j, "subscriptions", "create", "insert")
ListSubscriptions(j) == Arrive(j, "subscriptions", "list", "count")
GetSubscription(j) == Arrive(j, "subscriptions", "get", "read")
UpdateSubscription(j) == Arrive(j, "subscriptions", "update", "read")
CancelSubscription(j) == Arrive(j, "subscriptions", "cancel", "read")
ProcessRenewal(j) ==
    /\ Arrive(j, "subscriptions", "renew", "read")
    /\ row.end \in -Horizon..Horizon

CreateInvoice(j) == Arrive(j, "invoices", "create", "insert")
ListInvoices(j) == Arrive(j, "invoices", "list", "count")
GetInvoice(j) == Arrive(j, "invoices", "get", "read")
SendInvoice(j) == Arrive(j, "invoices", "send", "read")
MarkPaid(j) == Arrive(j, "invoices", "paid", "read")
MarkOverdue(j) == Arrive(j, "invoices", "overdue", "read")
InvoiceTask(j) == Arrive(j, "invoices", "invoice_task", "write")

CreatePayout(j) == Arrive(j, "payouts", "create", "insert")
GetPayout(j) == Arrive(j, "payouts", "get", "read")
ListPayouts(j) == Arrive(j, "payouts", "list", "count")
PayoutTask(j) == Arrive(j, "payouts", "payout_task", "write")

CreateDispute(j) == Arrive(j, "disputes", "create", "insert")
GetDispute(j) == Arrive(j, "disputes", "get", "read")
ListDisputes(j) == Arrive(j, "disputes", "list", "count")
AddEvidence(j) == Arrive(j, "disputes", "evidence", "read")

-----------------------------------------------------------------------------
(* Statements *)

\* INSERT: no create function sets Metadata, which the driver sends as NULL
\* and the column refuses, so nothing is stored and nothing is announced.
Insert(j) ==
    /\ job[j].at = "insert"
    /\ Answer(j, "error")
    /\ UNCHANGED data

\* SELECT COUNT(*); the page is a second statement.
Count(j) ==
    /\ job[j].at = "count"
    /\ Goto(j, "read") \/ Fail(j, 0)
    /\ UNCHANGED data

\* Mutant: an invoice is paid whatever its status.
Allowed_PaidUnchecked(op, copy) ==
    CASE op = "renew" -> copy.status = "active"
      [] op = "send" -> copy.status = "draft"
      [] op = "overdue" -> copy.status = "open"
      [] OTHER -> TRUE

\* Mutant: an invoice is overdue whatever its status.
Allowed_OverdueUnchecked(op, copy) ==
    CASE op = "renew" -> copy.status = "active"
      [] op = "send" -> copy.status = "draft"
      [] op = "paid" -> copy.status = "open"
      [] OTHER -> TRUE

\* The status an operation insists on, in the copy it has read.
Allowed(op, copy) ==
    CASE op = "renew" -> copy.status = "active"
      [] op = "send" -> copy.status = "draft"
      [] op \in {"paid", "overdue"} -> copy.status = "open"
      [] OTHER -> TRUE

\* SELECT: the row, its absence (an unknown id) or an error.
Read(j) ==
    /\ job[j].at = "read"
    /\ \/ /\ job[j].op \in Reading
          /\ Answer(j, "ok")
       \/ /\ job[j].op \notin Reading
          /\ IF Allowed(job[j].op, row)
             THEN job' = [job EXCEPT ![j].at = "write", ![j].read = row]
             ELSE Answer(j, "error")
       \/ Fail(j, 0)
    /\ UNCHANGED data

\* Mutant: an update makes the subscription active again.
Updated_Reactivates(copy) == {[copy EXCEPT !.step = n, !.status = "active"] : n \in Steps}

Updated(copy) == {[copy EXCEPT !.step = n] : n \in Steps}

\* Mutant: a cancellation ends the period as well.
Cancelled_EndsPeriod(copy) ==
    [copy EXCEPT !.status = "cancelled", !.cancelled_at = TRUE, !.end = copy.start]

Cancelled(copy) == [copy EXCEPT !.status = "cancelled", !.cancelled_at = TRUE]

\* Mutant: the end is moved before it becomes the start.
Renewed_Swapped(copy) ==
    [copy EXCEPT !.start = copy.end + copy.step, !.end = copy.end + copy.step]

\* The next period begins where the last one ends.
Renewed(copy) == [copy EXCEPT !.start = copy.end, !.end = copy.end + copy.step]

\* Mutant: the payout task is a copy of the invoice task.
StatusSet_Copied(op) ==
    CASE op \in {"send", "invoice_task", "payout_task"} -> "open"
      [] op = "paid" -> "paid"
      [] op = "overdue" -> "uncollectible"

\* UPDATE ... SET status, whatever the status is by now.
StatusSet(op) ==
    CASE op \in {"send", "invoice_task"} -> "open"
      [] op = "paid" -> "paid"
      [] op = "overdue" -> "uncollectible"
      [] op = "payout_task" -> "in_transit"

\* Mutant: AddEvidence writes the status before the evidence.
Written_StatusFirst(jb) ==
    CASE jb.op = "update" -> Updated(jb.read)
      [] jb.op = "cancel" -> {Cancelled(jb.read)}
      [] jb.op = "renew" -> {Renewed(jb.read)}
      [] jb.op = "evidence" -> {[row EXCEPT !.status = "under_review"]}
      [] OTHER -> {[row EXCEPT !.status = StatusSet(jb.op)]}

\* The rows a job's write may leave: subscriptions are written whole, from
\* the copy; of the others one column is set.
Written(jb) ==
    CASE jb.op = "update" -> Updated(jb.read)
      [] jb.op = "cancel" -> {Cancelled(jb.read)}
      [] jb.op = "renew" -> {Renewed(jb.read)}
      [] jb.op = "evidence" -> {[row EXCEPT !.evidence = u] : u \in Urls}
      [] OTHER -> {[row EXCEPT !.status = StatusSet(jb.op)]}

\* Mutant: AddEvidence announces the evidence before it writes the status.
AfterWrite_Early(jb) ==
    LET done == [jb EXCEPT !.stored = 1, !.read = NoRow] IN
    CASE jb.op = "evidence" -> [done EXCEPT !.at = "status", !.announced = TRUE]
      [] jb.op \in Tasks -> Answered(done, "ok")
      [] OTHER -> [done EXCEPT !.at = "publish"]

\* What follows the write; a task announces nothing.
AfterWrite(jb) ==
    LET done == [jb EXCEPT !.stored = 1, !.read = NoRow] IN
    CASE jb.op = "evidence" -> [done EXCEPT !.at = "status"]
      [] jb.op \in Tasks -> Answered(done, "ok")
      [] OTHER -> [done EXCEPT !.at = "publish"]

\* The UPDATE, or its failure.
Write(j) ==
    /\ job[j].at = "write"
    /\ \E new \in Written(job[j]) :
        \/ row' = new /\ job' = [job EXCEPT ![j] = AfterWrite(@)]
        \/ row' = new /\ Fail(j, 1)
        \/ UNCHANGED row /\ Fail(j, 0)
    /\ positive' = (positive /\ (table = "subscriptions" => row'.step > 0))
    /\ UNCHANGED table

\* Mutant: the error of the second UPDATE is dropped.
WriteStatus_ErrorDropped(j) ==
    /\ job[j].at = "status"
    /\ row' \in {row, [row EXCEPT !.status = "under_review"]}
    /\ job' = [job EXCEPT ![j].at = "publish",
                          ![j].stored = IF row'.status = "under_review" THEN 2 ELSE 1]
    /\ UNCHANGED <<table, positive>>

\* AddEvidence's second UPDATE.
WriteStatus(j) ==
    /\ job[j].at = "status"
    /\ LET new == [row EXCEPT !.status = "under_review"] IN
        \/ row' = new /\ job' = [job EXCEPT ![j].at = "publish", ![j].stored = 2]
        \/ row' = new /\ Fail(j, 1)
        \/ UNCHANGED row /\ Fail(j, 0)
    /\ UNCHANGED <<table, positive>>

\* Publish; its error is logged and the answer is still a success.
Publish(j) ==
    /\ job[j].at = "publish"
    /\ \E sent \in BOOLEAN :
        job' = [job EXCEPT ![j] = [Answered(@, "ok") EXCEPT !.announced = sent,
                                                           !.faulted = ~ sent]]
    /\ UNCHANGED data

\* The process dies: clients get no answer, tasks no outcome.
Crash ==
    /\ \E j \in Jobs : job[j].at \in Busy
    /\ job' = [j \in Jobs |-> IF job[j].at \notin Busy THEN job[j]
                              ELSE [Answered(job[j], "none") EXCEPT !.faulted = TRUE]]
    /\ UNCHANGED data

Operation(j) ==
    \/ CreateSubscription(j) \/ ListSubscriptions(j) \/ GetSubscription(j)
    \/ UpdateSubscription(j) \/ CancelSubscription(j) \/ ProcessRenewal(j)
    \/ CreateInvoice(j) \/ ListInvoices(j) \/ GetInvoice(j)
    \/ SendInvoice(j) \/ MarkPaid(j) \/ MarkOverdue(j) \/ InvoiceTask(j)
    \/ CreatePayout(j) \/ GetPayout(j) \/ ListPayouts(j) \/ PayoutTask(j)
    \/ CreateDispute(j) \/ GetDispute(j) \/ ListDisputes(j) \/ AddEvidence(j)

JobStep(j) == Insert(j) \/ Count(j) \/ Read(j) \/ Write(j) \/ WriteStatus(j) \/ Publish(j)

Next == (\E j \in Jobs : Operation(j) \/ JobStep(j)) \/ Crash

Spec == Init /\ [][Next]_vars

-----------------------------------------------------------------------------
(* Properties *)

\* The answer tells what happened to the row: a success means that every
\* write of the operation took effect, and an error that no failure explains
\* means that none did.
AnswerTellsTheTruth ==
    \A j \in Jobs : job[j].at = "done" =>
        /\ job[j].answer = "ok" => job[j].stored = Writes(job[j].op)
        /\ job[j].answer = "error" /\ ~ job[j].faulted => job[j].stored = 0

\* The bus tells what happened to the row: an event is published only for a
\* change that is stored completely, and a change that is stored completely
\* is published unless a failure or restart came between.
EventsFollowTheStore ==
    \A j \in Jobs : LET jb == job[j] IN
        /\ jb.announced => jb.stored = Writes(jb.op) /\ jb.stored > 0
        /\ jb.at = "done" /\ ~ jb.faulted /\ jb.stored > 0 /\ jb.op \notin Tasks => jb.announced

\* A dispute is under review only with evidence to look at, wherever
\* AddEvidence is interrupted and however two of them interleave.
ReviewHasEvidence ==
    table = "disputes" /\ row.status = "under_review" => row.evidence # NoUrl

\* A draft invoice is sent before it is settled: no interleaving of checks
\* and writes takes it from draft to anything but open.
DraftIsSentFirst ==
    [][table = "invoices" /\ row.status = "draft" => row'.status \in {"draft", "open"}]_vars

\* A billing period ends after it begins, whatever renewals, updates and
\* cancellations overlap, as long as no update stores an interval count of
\* zero or less.  The database schema's document states the order without that
\* condition, but neither the table nor UpdateSubscription enforces it: with
\* such a count a renewal makes an empty or a backward period.
PeriodInOrder == table = "subscriptions" /\ positive => row.start < row.end

\* The columns an operation is about.
Own(op) == CASE op = "update" -> {"step"}
             [] op = "cancel" -> {"status", "cancelled_at"}
             [] op = "renew" -> {"start", "end"}

\* This step is a job's write of a subscription.
Overwrites(j) ==
    table = "subscriptions" /\ job[j].at = "write" /\ job'[j].at # "write"

\* Whole-row writes lose another job's change only in a race, and then only by
\* putting back what was there: a column that is not the operation's own keeps
\* its value or gets the one the job has read, so that a job whose copy is
\* current changes nothing but its own columns.
OnlyRacesLoseUpdates ==
    [][\A j \in Jobs : Overwrites(j) =>
            \A f \in DOMAIN row \ Own(job[j].op) : row'[f] \in {row[f], job[j].read[f]}]_vars

\* No job at work would write a status other than cancelled.
CancelledForGood ==
    /\ table = "subscriptions" /\ row.status = "cancelled"
    /\ \A j \in Jobs : job[j].at = "write" =>
            job[j].op = "cancel" \/ job[j].read.status = "cancelled"

\* A cancelled subscription comes back only through a job that had read it
\* before the cancellation: once all those are over, nothing revives it.
CancelledStays == [][CancelledForGood => CancelledForGood']_vars

\* No job at work would write a status other than paid.
PaidForGood ==
    /\ table = "invoices" /\ row.status = "paid"
    /\ \A j \in Jobs : job[j].at = "write" => job[j].op = "paid"

\* A paid invoice changes only through a MarkOverdue or SendInvoice that
\* passed its check before the payment, or through a task that opens it.
PaidStays ==
    [][PaidForGood => PaidForGood' \/ \E j \in Jobs : job'[j].op = "invoice_task"
                                                   /\ job'[j].at = "write"]_vars
=============================================================================
