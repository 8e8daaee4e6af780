--------------------------- MODULE BillingProofs ---------------------------
(***************************************************************************)
(* Proofs about Billing, for any number of jobs, any interval counts,      *)
(* negative ones included, and any horizon.  A job's record of what it has *)
(* stored and announced depends on where it stands (Books); what it is     *)
(* about to write next to the row, on what the row has become meanwhile    *)
(* (Agrees).  PeriodInv, which follows from what steps may do, is about    *)
(* the periods in the row and in the copies jobs hold.                     *)
(***************************************************************************)
EXTENDS Billing, TLAPS

\* The operation of a job belongs to the table.
OpFits(op) ==
    /\ op \in {"update", "cancel", "renew"} => table = "subscriptions"
    /\ op \in {"send", "paid", "overdue", "invoice_task"} => table = "invoices"
    /\ op = "payout_task" => table = "payouts"
    /\ op = "evidence" => table = "disputes"

Changing == {"update", "cancel", "renew", "send", "paid", "overdue", "evidence"}

\* What a job has stored and announced, by where it stands.
Books(jb) ==
    /\ OpFits(jb.op)
    /\ jb.at # "done" => ~ jb.announced /\ ~ jb.faulted
    /\ jb.at \in {"idle", "count", "read", "insert", "write"} => jb.stored = 0
    /\ jb.at = "count" => jb.op \in Reading
    /\ jb.at = "read" => jb.op \in Reading \cup Changing
    /\ jb.at = "write" => jb.op \in Changing \cup Tasks
    /\ jb.at = "write" /\ table = "subscriptions" => jb.read \in Subscription
    /\ jb.at = "status" => jb.op = "evidence" /\ jb.stored = 1
    /\ jb.at = "publish" => jb.op \in Changing /\ jb.stored = Writes(jb.op)
    /\ jb.at = "done" =>
        /\ jb.answer = "ok" => jb.stored = Writes(jb.op)
        /\ jb.answer = "error" /\ ~ jb.faulted => jb.stored = 0
        /\ jb.announced => jb.stored = Writes(jb.op) /\ jb.stored > 0
        /\ ~ jb.faulted /\ jb.stored > 0 /\ jb.op \notin Tasks => jb.announced

\* The row a job will write to: evidence stays once it is there, and an
\* invoice that was open is no draft again.
Agrees(jb, rw) ==
    /\ jb.at = "status" => rw.evidence # NoUrl
    /\ jb.at = "write" /\ jb.op \in {"paid", "overdue"} => rw.status # "draft"

IndInv ==
    /\ TypeOK
    /\ ReviewHasEvidence
    /\ \A j \in Jobs : Books(job[j]) /\ Agrees(job[j], row)

-----------------------------------------------------------------------------

\* The four tables and their rows.
LEMMA Tables ==
    /\ DOMAIN Rows = {"subscriptions", "invoices", "payouts", "disputes"}
    /\ Rows["subscriptions"] = Subscription /\ Rows["invoices"] = Invoice
    /\ Rows["payouts"] = Payout /\ Rows["disputes"] = Dispute
  BY DEF Rows

\* The row is a row of its table.
LEMMA RowFacts ==
    ASSUME TypeOK
    PROVE  /\ table \in DOMAIN Rows /\ row \in AnyRow
           /\ table = "subscriptions" => row \in Subscription
           /\ table = "invoices" => row \in Invoice
           /\ table = "payouts" => row \in Payout
           /\ table = "disputes" => row \in Dispute
  BY Tables DEF TypeOK, AnyRow

\* An answered job has its fields, but for where it stands, what it has read
\* and its answer.
LEMMA AnsweredFields ==
    ASSUME NEW jb \in Job, NEW answer \in {"none", "ok", "error"}
    PROVE  /\ Answered(jb, answer) \in Job
           /\ Answered(jb, answer).at = "done" /\ Answered(jb, answer).answer = answer
           /\ Answered(jb, answer).op = jb.op /\ Answered(jb, answer).stored = jb.stored
           /\ Answered(jb, answer).announced = jb.announced
           /\ Answered(jb, answer).faulted = jb.faulted
<1>1. Answered(jb, answer) \in Job
  BY DEF Answered, Job
<1>2. /\ Answered(jb, answer).at = "done" /\ Answered(jb, answer).answer = answer
      /\ Answered(jb, answer).op = jb.op /\ Answered(jb, answer).stored = jb.stored
      /\ Answered(jb, answer).announced = jb.announced
      /\ Answered(jb, answer).faulted = jb.faulted
  BY DEF Answered, Job
<1> QED
  BY <1>1, <1>2

\* The fields of a new job.
LEMMA NewJobFields ==
    ASSUME NEW op \in Ops \cup {"none"}, NEW at \in {"idle", "count", "read", "insert", "write"}
    PROVE  /\ NewJob(op, at) \in Job
           /\ NewJob(op, at).at = at /\ NewJob(op, at).op = op /\ NewJob(op, at).stored = 0
           /\ NewJob(op, at).announced = FALSE /\ NewJob(op, at).faulted = FALSE
<1>1. NewJob(op, at) \in Job
  BY DEF NewJob, Job, Busy
<1>2. /\ NewJob(op, at).at = at /\ NewJob(op, at).op = op /\ NewJob(op, at).stored = 0
      /\ NewJob(op, at).announced = FALSE /\ NewJob(op, at).faulted = FALSE
  BY DEF NewJob
<1> QED
  BY <1>1, <1>2

\* The initial states: a row as created, and no job.
LEMMA InitIndInv == Init => IndInv
<1> SUFFICES ASSUME Init PROVE IndInv
  OBVIOUS
<1> USE BillingAssumption
<1>1. /\ table \in DOMAIN Rows /\ row \in Rows[table] /\ ReviewHasEvidence
  <2>1. CASE table = "subscriptions"
    <3>1. ASSUME NEW n \in Steps, NEW s \in {"active", "past_due"}
          PROVE  [NewSubscription(n) EXCEPT !.status = s] \in Subscription
      <4>1. NewSubscription(n) \in Subscription
        BY DEF NewSubscription, Subscription
      <4> QED
        BY <4>1 DEF Subscription
    <3>2. row \in Subscription
      <4> DEFINE F(n, s) == [NewSubscription(n) EXCEPT !.status = s]
      <4>1. row \in {F(n, s) : n \in {k \in Steps : k > 0}, s \in {"active", "past_due"}}
        BY <2>1 DEF Init, InitialRows
      <4>2. \A n \in Steps, s \in {"active", "past_due"} : F(n, s) \in Subscription
        BY <3>1
      <4> HIDE DEF F
      <4> QED
        BY <4>1, <4>2
    <3> QED
      BY <2>1, <3>2, Tables DEF ReviewHasEvidence
  <2>2. CASE table = "invoices"
    <3>1. row \in {NewInvoice, [status |-> "void"]}
      BY <2>2 DEF Init, InitialRows
    <3>2. row \in Invoice
      BY <3>1 DEF NewInvoice, Invoice
    <3> QED
      BY <2>2, <3>2, Tables DEF ReviewHasEvidence
  <2>3. CASE table = "payouts"
    <3>1. row \in {NewPayout} \cup [status : {"paid", "failed", "cancelled"}]
      BY <2>3 DEF Init, InitialRows
    <3>2. row \in Payout
      BY <3>1 DEF NewPayout, Payout
    <3> QED
      BY <2>3, <3>2, Tables DEF ReviewHasEvidence
  <2>4. CASE table = "disputes"
    <3>1. \A s \in {"warning_needs_response", "lost", "won"} :
            /\ [NewDispute EXCEPT !.status = s] \in Dispute
            /\ [NewDispute EXCEPT !.status = s].status # "under_review"
      BY DEF NewDispute, Dispute
    <3>2. row \in Dispute /\ row.status # "under_review"
      <4>1. row \in {[NewDispute EXCEPT !.status = s] :
                        s \in {"warning_needs_response", "lost", "won"}}
        BY <2>4 DEF Init, InitialRows
      <4> QED
        BY <3>1, <4>1
    <3> QED
      BY <2>4, <3>2, Tables DEF ReviewHasEvidence
  <2> QED
    BY <2>1, <2>2, <2>3, <2>4, Tables DEF Init
<1>2. NewJob("none", "idle") \in Job
  BY NewJobFields
<1>3. ASSUME NEW j \in Jobs PROVE Books(job[j]) /\ Agrees(job[j], row)
  <2>1. job[j] = NewJob("none", "idle")
    BY DEF Init
  <2>2. /\ job[j].at = "idle" /\ job[j].op = "none" /\ job[j].stored = 0
        /\ ~ job[j].announced /\ ~ job[j].faulted
    BY <2>1 DEF NewJob
  <2> QED
    BY <2>2 DEF Books, Agrees, OpFits
<1> QED
  BY <1>1, <1>2, <1>3 DEF IndInv, TypeOK, Init

\* A step of one job: the row may change, but neither loses its evidence nor
\* becomes a draft.
LEMMA OneJob ==
    ASSUME IndInv, NEW j \in Jobs, table' = table, row' \in Rows[table], positive' \in BOOLEAN,
           ReviewHasEvidence',
           table = "disputes" /\ row.evidence # NoUrl => row'.evidence # NoUrl,
           table = "invoices" /\ row.status # "draft" => row'.status # "draft",
           \E jb \in Job : Books(jb) /\ Agrees(jb, row') /\ job' = [job EXCEPT ![j] = jb]
    PROVE  IndInv'
<1>1. PICK jb \in Job : Books(jb) /\ Agrees(jb, row') /\ job' = [job EXCEPT ![j] = jb]
  OBVIOUS
<1>2. job' \in [Jobs -> Job]
  BY <1>1 DEF IndInv, TypeOK
<1>3. ASSUME NEW i \in Jobs PROVE Books(job[i])' /\ Agrees(job[i], row)'
  <2>1. Books(job'[i]) /\ Agrees(job'[i], row')
    <3>1. CASE i = j
      BY <1>1, <3>1 DEF IndInv, TypeOK
    <3>2. CASE i # j
      <4>1. job'[i] = job[i] /\ Books(job[i]) /\ Agrees(job[i], row)
        BY <1>1, <3>2 DEF IndInv, TypeOK
      <4> QED
        BY <4>1 DEF Books, OpFits, Agrees
    <3> QED
      BY <3>1, <3>2
  <2> QED
    BY <2>1 DEF Books, OpFits, Agrees
<1> QED
  BY <1>2, <1>3 DEF IndInv, TypeOK

\* A step of one job that leaves the row alone.
LEMMA SameRow ==
    ASSUME IndInv, NEW j \in Jobs, UNCHANGED data,
           \E jb \in Job : Books(jb) /\ Agrees(jb, row) /\ job' = [job EXCEPT ![j] = jb]
    PROVE  IndInv'
  BY OneJob DEF IndInv, TypeOK, ReviewHasEvidence, data

\* A job that arrives, or is refused on arrival.
LEMMA ArriveStep ==
    ASSUME IndInv, NEW j \in Jobs, NEW t, NEW op \in Ops, NEW first \in {"count", "read", "insert", "write"},
           Arrive(j, t, op, first), table = t => OpFits(op),
           first = "count" => op \in Reading, first = "read" => op \in Reading \cup Changing,
           first = "write" => op \in Tasks /\ t # "subscriptions"
    PROVE  IndInv'
<1> DEFINE jb == NewJob(op, first)
           no == Answered(jb, "error")
<1>1. /\ jb \in Job /\ jb.at = first /\ jb.op = op /\ jb.stored = 0
      /\ jb.announced = FALSE /\ jb.faulted = FALSE
  <2>1. jb \in Job
    BY NewJobFields
  <2> QED
    BY <2>1 DEF NewJob
<1>2. /\ no \in Job /\ no.at = "done" /\ no.op = op /\ no.stored = 0 /\ no.answer = "error"
      /\ no.announced = FALSE /\ no.faulted = FALSE
  BY <1>1, AnsweredFields
<1>3. job' \in {[job EXCEPT ![j] = jb], [job EXCEPT ![j] = no]} /\ UNCHANGED data /\ table = t
  BY DEF Arrive
<1> HIDE DEF jb, no
<1>4. Books(jb) /\ Agrees(jb, row)
  BY <1>1, <1>3 DEF Books, Agrees, Tasks, OpFits
<1>5. Books(no) /\ Agrees(no, row)
  BY <1>2, <1>3 DEF Books, Agrees
<1> QED
  BY <1>1, <1>2, <1>3, <1>4, <1>5, SameRow

\* The first step of every operation.
LEMMA OperationStep ==
    ASSUME IndInv, NEW j \in Jobs, Operation(j)
    PROVE  IndInv'
<1> USE DEF Reading, Changing, Tasks, Ops, OpFits
<1>1. ASSUME NEW t \in DOMAIN Rows,
             \/ Arrive(j, t, "create", "insert") \/ Arrive(j, t, "list", "count")
             \/ Arrive(j, t, "get", "read")
      PROVE  IndInv'
  BY <1>1, ArriveStep
<1>2. ASSUME NEW op \in {"update", "cancel", "renew"}, Arrive(j, "subscriptions", op, "read") PROVE IndInv'
  BY <1>2, ArriveStep
<1>3. ASSUME NEW op \in {"send", "paid", "overdue"}, Arrive(j, "invoices", op, "read") PROVE IndInv'
  BY <1>3, ArriveStep
<1>4. ASSUME Arrive(j, "disputes", "evidence", "read") PROVE IndInv'
  BY <1>4, ArriveStep
<1>5. ASSUME \/ Arrive(j, "invoices", "invoice_task", "write")
             \/ Arrive(j, "payouts", "payout_task", "write")
      PROVE  IndInv'
  BY <1>5, ArriveStep
<1> QED
  BY <1>1, <1>2, <1>3, <1>4, <1>5, Tables
     DEF Operation, CreateSubscription, ListSubscriptions, GetSubscription, UpdateSubscription,
         CancelSubscription, ProcessRenewal, CreateInvoice, ListInvoices, GetInvoice, SendInvoice,
         MarkPaid, MarkOverdue, InvoiceTask, CreatePayout, GetPayout, ListPayouts, PayoutTask,
         CreateDispute, GetDispute, ListDisputes, AddEvidence

\* A failed job makes no claim.
LEMMA FailedFits ==
    ASSUME NEW jb \in Job, Books(jb), jb.at \in Busy, NEW n \in 0..1, jb.stored + n \in 0..2, NEW rw
    PROVE  Failed(jb, n) \in Job /\ Books(Failed(jb, n)) /\ Agrees(Failed(jb, n), rw)
<1> DEFINE a == Answered(jb, "error")
           f == [a EXCEPT !.stored = jb.stored + n, !.faulted = TRUE]
<1>1. /\ a \in Job /\ a.at = "done" /\ a.op = jb.op /\ a.stored = jb.stored
      /\ a.answer = "error" /\ a.announced = jb.announced
  BY AnsweredFields
<1> HIDE DEF a
<1>2. f \in Job
  BY <1>1 DEF Job
<1>3. /\ f.at = "done" /\ f.op = jb.op /\ f.answer = "error" /\ f.faulted = TRUE
      /\ f.announced = jb.announced
  BY <1>1 DEF Job
<1>4. Failed(jb, n) = f
  BY DEF Failed, a
<1> HIDE DEF f
<1>5. ~ jb.announced
  BY DEF Books, Busy
<1> QED
  BY <1>2, <1>3, <1>4, <1>5 DEF Books, Agrees

\* Insert, Count, Read and Publish leave the row alone.
LEMMA StatementSteps ==
    ASSUME IndInv, NEW j \in Jobs, Insert(j) \/ Count(j) \/ Read(j) \/ Publish(j)
    PROVE  IndInv'
<1>0. job[j] \in Job /\ Books(job[j]) /\ UNCHANGED data
  BY DEF IndInv, TypeOK, Insert, Count, Read, Publish
<1>1. ASSUME NEW answer \in {"ok", "error"}, Answer(j, answer), job[j].at \in Busy, job[j].stored = 0,
             answer = "ok" => job[j].op \in Reading
      PROVE  IndInv'
  <2> DEFINE a == Answered(job[j], answer)
  <2>1. /\ a \in Job /\ a.at = "done" /\ a.answer = answer /\ a.op = job[j].op
        /\ a.stored = 0 /\ a.announced = job[j].announced
    BY <1>0, <1>1, AnsweredFields
  <2>2. job' = [job EXCEPT ![j] = a]
    BY <1>1 DEF Answer
  <2> HIDE DEF a
  <2>3. ~ job[j].announced
    BY <1>0, <1>1 DEF Books, Busy
  <2>4. Books(a) /\ Agrees(a, row)
    BY <1>0, <1>1, <2>1, <2>3 DEF Books, Agrees, Writes
  <2> QED
    BY <1>0, <2>1, <2>2, <2>4, SameRow
<1>2. ASSUME Fail(j, 0), job[j].at \in Busy, job[j].stored = 0 PROVE IndInv'
  <2>1. job' = [job EXCEPT ![j] = Failed(job[j], 0)]
    BY <1>2 DEF Fail
  <2>2. Failed(job[j], 0) \in Job /\ Books(Failed(job[j], 0)) /\ Agrees(Failed(job[j], 0), row)
    BY <1>0, <1>2, FailedFits
  <2> QED
    BY <1>0, <2>1, <2>2, SameRow
<1>3. job[j].at \in {"insert", "count", "read"} => job[j].at \in Busy /\ job[j].stored = 0
  BY <1>0 DEF Books, Busy
<1>4. CASE Insert(j)
  BY <1>1, <1>3, <1>4 DEF Insert
<1>5. CASE Count(j)
  <2>1. ASSUME Goto(j, "read") PROVE IndInv'
    <3> DEFINE jb == [job[j] EXCEPT !.at = "read"]
    <3>1. jb \in Job
      BY <1>0 DEF Job, Busy
    <3>2. /\ jb.at = "read" /\ jb.op = job[j].op /\ jb.stored = job[j].stored
          /\ jb.announced = job[j].announced /\ jb.faulted = job[j].faulted
      BY <1>0 DEF Job
    <3>3. job' = [job EXCEPT ![j] = jb]
      BY <2>1 DEF Goto
    <3>4. /\ ~ job[j].announced /\ ~ job[j].faulted /\ job[j].stored = 0 /\ job[j].op \in Reading
          /\ OpFits(job[j].op)
      BY <1>0, <1>5 DEF Count, Books
    <3> HIDE DEF jb
    <3>5. Books(jb) /\ Agrees(jb, row)
      BY <3>2, <3>4 DEF Books, Agrees
    <3> QED
      BY <1>0, <3>1, <3>3, <3>5, SameRow
  <2> QED
    BY <1>2, <1>3, <1>5, <2>1 DEF Count
<1>6. CASE Read(j)
  <2>1. ASSUME job[j].op \notin Reading, Allowed(job[j].op, row),
               job' = [job EXCEPT ![j].at = "write", ![j].read = row]
        PROVE  IndInv'
    <3> DEFINE jb == [job[j] EXCEPT !.at = "write", !.read = row]
    <3>1. /\ ~ job[j].announced /\ ~ job[j].faulted /\ job[j].stored = 0 /\ job[j].op \in Changing
          /\ OpFits(job[j].op)
      BY <1>0, <1>6, <2>1 DEF Read, Books
    <3>2. row \in AnyRow /\ (table = "subscriptions" => row \in Subscription)
      BY RowFacts DEF IndInv
    <3>3. jb \in Job
      BY <1>0, <3>2 DEF Job, Busy
    <3>4. /\ jb.at = "write" /\ jb.op = job[j].op /\ jb.stored = job[j].stored /\ jb.read = row
          /\ jb.announced = job[j].announced /\ jb.faulted = job[j].faulted
      BY <1>0 DEF Job
    <3>5. job' = [job EXCEPT ![j] = jb]
      BY <2>1
    <3>6. job[j].op \in {"paid", "overdue"} => row.status # "draft"
      BY <2>1 DEF Allowed
    <3> HIDE DEF jb
    <3>7. Books(jb) /\ Agrees(jb, row)
      BY <3>1, <3>2, <3>4, <3>6 DEF Books, Agrees
    <3> QED
      BY <1>0, <3>3, <3>5, <3>7, SameRow
  <2> QED
    BY <1>1, <1>2, <1>3, <1>6, <2>1 DEF Read
<1>7. CASE Publish(j)
  <2>1. PICK sent \in BOOLEAN :
            job' = [job EXCEPT ![j] = [Answered(@, "ok") EXCEPT !.announced = sent, !.faulted = ~ sent]]
    BY <1>7 DEF Publish
  <2> DEFINE a == Answered(job[j], "ok")
             lost == ~ sent
             jb == [a EXCEPT !.announced = sent, !.faulted = lost]
  <2>2. a \in Job /\ a.at = "done" /\ a.answer = "ok" /\ a.op = job[j].op /\ a.stored = job[j].stored
    BY <1>0, AnsweredFields
  <2>3. lost \in BOOLEAN /\ (lost <=> ~ sent) /\ job' = [job EXCEPT ![j] = jb]
    BY <2>1
  <2> HIDE DEF a, lost
  <2>4. jb \in Job
    BY <2>2, <2>3 DEF Job
  <2>5. /\ jb.at = "done" /\ jb.answer = "ok" /\ jb.op = job[j].op /\ jb.stored = job[j].stored
        /\ jb.announced = sent /\ jb.faulted = lost
    BY <2>2, <2>3 DEF Job
  <2> HIDE DEF jb
  <2>6. /\ OpFits(job[j].op) /\ job[j].op \in Changing /\ job[j].stored = Writes(job[j].op)
        /\ job[j].stored > 0
    <3>1. /\ OpFits(job[j].op) /\ job[j].op \in Changing /\ job[j].stored = Writes(job[j].op)
      BY <1>0, <1>7 DEF Publish, Books
    <3>2. \A op \in Changing : Writes(op) > 0
      BY DEF Writes, Reading, Changing
    <3> QED
      BY <3>1, <3>2
  <2>7. Books(jb)
    BY <2>3, <2>5, <2>6 DEF Books
  <2>8. Agrees(jb, row)
    BY <2>5 DEF Agrees
  <2> QED
    BY <1>0, <2>3, <2>4, <2>7, <2>8, SameRow
<1> QED
  BY <1>4, <1>5, <1>6, <1>7

\* What a job's UPDATE may leave, table by table.
LEMMA WrittenFits ==
    ASSUME IndInv, NEW j \in Jobs, job[j].at = "write", NEW new \in Written(job[j])
    PROVE  /\ new \in Rows[table]
           /\ table = "invoices" => new.status = StatusSet(job[j].op) /\ new.status # "draft"
           /\ table = "disputes" => new.status = row.status /\ new.evidence # NoUrl
           /\ table = "subscriptions" =>
                \/ job[j].op = "update" /\ \E n \in Steps : new = [job[j].read EXCEPT !.step = n]
                \/ job[j].op = "cancel" /\ new = Cancelled(job[j].read)
                \/ job[j].op = "renew" /\ new = Renewed(job[j].read)
<1> USE BillingAssumption
<1>0. /\ job[j].op \in Changing \cup Tasks /\ OpFits(job[j].op)
      /\ table = "subscriptions" => job[j].read \in Subscription
  BY DEF IndInv, Books
<1>1. CASE job[j].op \in {"update", "cancel", "renew"}
  <2>1. table = "subscriptions" /\ job[j].read \in Subscription
    BY <1>0, <1>1 DEF OpFits
  <2>2. CASE job[j].op = "update"
    <3>1. PICK n \in Steps : new = [job[j].read EXCEPT !.step = n]
      BY <2>2 DEF Written, Updated
    <3>2. new \in Subscription
      BY <2>1, <3>1 DEF Subscription
    <3> QED
      BY <2>1, <2>2, <3>1, <3>2, Tables
  <2>3. CASE job[j].op = "cancel"
    <3>1. new = Cancelled(job[j].read)
      BY <2>3 DEF Written
    <3>2. new \in Subscription
      BY <2>1, <3>1 DEF Subscription, Cancelled
    <3> QED
      BY <2>1, <2>3, <3>1, <3>2, Tables
  <2>4. CASE job[j].op = "renew"
    <3>1. new = Renewed(job[j].read)
      BY <2>4 DEF Written
    <3>2. job[j].read.end \in Int /\ job[j].read.step \in Int
      BY <2>1 DEF Subscription
    <3>3. job[j].read.end + job[j].read.step \in Int
      BY <3>2
    <3>4. new \in Subscription
      BY <2>1, <3>1, <3>2, <3>3 DEF Subscription, Renewed
    <3> QED
      BY <2>1, <2>4, <3>1, <3>4, Tables
  <2> QED
    BY <1>1, <2>2, <2>3, <2>4
<1>2. CASE job[j].op = "evidence"
  <2>1. table = "disputes" /\ row \in Dispute
    BY <1>0, <1>2, RowFacts DEF OpFits, IndInv
  <2>2. PICK u \in Urls : new = [row EXCEPT !.evidence = u]
    BY <1>2 DEF Written
  <2>3. new \in Dispute /\ new.status = row.status /\ new.evidence = u
    BY <2>1, <2>2 DEF Dispute
  <2> QED
    BY <2>1, <2>3, Tables
<1>3. CASE job[j].op \in {"send", "paid", "overdue", "invoice_task"}
  <2>1. table = "invoices" /\ row \in Invoice
    BY <1>0, <1>3, RowFacts DEF OpFits, IndInv
  <2>2. new = [row EXCEPT !.status = StatusSet(job[j].op)]
    BY <1>3 DEF Written
  <2>3. StatusSet(job[j].op) \in {"open", "paid", "uncollectible"}
    BY <1>3 DEF StatusSet
  <2>4. new \in Invoice /\ new.status = StatusSet(job[j].op)
    BY <2>1, <2>2, <2>3 DEF Invoice
  <2> QED
    BY <2>1, <2>3, <2>4, Tables
<1>4. CASE job[j].op = "payout_task"
  <2>1. table = "payouts" /\ row \in Payout
    BY <1>0, <1>4, RowFacts DEF OpFits, IndInv
  <2>2. new = [row EXCEPT !.status = "in_transit"]
    BY <1>4 DEF Written, StatusSet
  <2>3. new \in Payout
    BY <2>1, <2>2 DEF Payout
  <2> QED
    BY <2>1, <2>3, Tables
<1> QED
  BY <1>0, <1>1, <1>2, <1>3, <1>4 DEF Changing, Tasks

\* A job after its UPDATE.
LEMMA AfterWriteFits ==
    ASSUME NEW jb \in Job, Books(jb), jb.at = "write", NEW rw,
           jb.op = "evidence" => rw.evidence # NoUrl
    PROVE  /\ AfterWrite(jb) \in Job /\ Books(AfterWrite(jb)) /\ Agrees(AfterWrite(jb), rw)
           /\ AfterWrite(jb).at # "write"
<1> DEFINE d == [jb EXCEPT !.stored = 1, !.read = NoRow]
<1>1. d \in Job
  <2>1. 1 \in 0..2
    OBVIOUS
  <2> QED
    BY <2>1 DEF Job
<1>2. /\ d.stored = 1 /\ d.op = jb.op /\ d.announced = jb.announced /\ d.faulted = jb.faulted
      /\ ~ jb.announced /\ ~ jb.faulted /\ OpFits(jb.op) /\ jb.op \in Changing \cup Tasks
  BY DEF Job, Books
<1>3. AfterWrite(jb) = CASE jb.op = "evidence" -> [d EXCEPT !.at = "status"]
                         [] jb.op \in Tasks -> Answered(d, "ok")
                         [] OTHER -> [d EXCEPT !.at = "publish"]
  BY DEF AfterWrite
<1> HIDE DEF d
<1>4. CASE jb.op = "evidence"
  <2> DEFINE a == [d EXCEPT !.at = "status"]
  <2>1. a \in Job
    BY <1>1 DEF Job, Busy
  <2>2. /\ a.at = "status" /\ a.stored = 1 /\ a.op = jb.op /\ a.announced = d.announced
        /\ a.faulted = d.faulted
    BY <1>1, <1>2 DEF Job
  <2>3. AfterWrite(jb) = a
    BY <1>3, <1>4 DEF Tasks
  <2> HIDE DEF a
  <2> QED
    BY <1>2, <1>4, <2>1, <2>2, <2>3 DEF Books, Agrees
<1>5. CASE jb.op \in Tasks
  <2> DEFINE a == Answered(d, "ok")
  <2>1. /\ a \in Job /\ a.at = "done" /\ a.stored = 1 /\ a.op = jb.op /\ a.announced = d.announced
        /\ a.faulted = d.faulted /\ a.answer = "ok"
    BY <1>1, <1>2, AnsweredFields
  <2>2. AfterWrite(jb) = a /\ Writes(jb.op) = 1
    BY <1>3, <1>5 DEF Tasks, Writes, Reading
  <2> HIDE DEF a
  <2> QED
    BY <1>2, <1>5, <2>1, <2>2 DEF Books, Agrees
<1>6. CASE jb.op \in Changing \ {"evidence"}
  <2> DEFINE a == [d EXCEPT !.at = "publish"]
  <2>1. a \in Job
    BY <1>1 DEF Job, Busy
  <2>2. /\ a.at = "publish" /\ a.stored = 1 /\ a.op = jb.op /\ a.announced = d.announced
        /\ a.faulted = d.faulted
    BY <1>1, <1>2 DEF Job
  <2>3. AfterWrite(jb) = a /\ Writes(jb.op) = 1
    BY <1>3, <1>6 DEF Tasks, Changing, Writes, Reading
  <2> HIDE DEF a
  <2> QED
    BY <1>2, <1>6, <2>1, <2>2, <2>3 DEF Books, Agrees
<1> QED
  BY <1>2, <1>4, <1>5, <1>6

\* The UPDATE, complete, half done or failed.
LEMMA WriteStep ==
    ASSUME IndInv, NEW j \in Jobs, Write(j)
    PROVE  IndInv'
<1>0. job[j] \in Job /\ Books(job[j]) /\ job[j].at = "write" /\ table' = table /\ job[j].stored = 0
  BY DEF IndInv, TypeOK, Write, Books
<1>1. PICK new \in Written(job[j]) :
        \/ row' = new /\ job' = [job EXCEPT ![j] = AfterWrite(job[j])]
        \/ row' = new /\ job' = [job EXCEPT ![j] = Failed(job[j], 1)]
        \/ row' = row /\ job' = [job EXCEPT ![j] = Failed(job[j], 0)]
  BY DEF Write, Fail
<1>7. positive' \in BOOLEAN
  BY DEF Write
<1>2. /\ new \in Rows[table] /\ (table = "invoices" => new.status # "draft")
      /\ table = "disputes" => new.status = row.status /\ new.evidence # NoUrl
  BY <1>0, WrittenFits
<1>3. /\ Failed(job[j], 0) \in Job /\ Books(Failed(job[j], 0)) /\ \A rw : Agrees(Failed(job[j], 0), rw)
      /\ Failed(job[j], 1) \in Job /\ Books(Failed(job[j], 1)) /\ \A rw : Agrees(Failed(job[j], 1), rw)
  <2>1. job[j].at \in Busy /\ job[j].stored + 0 \in 0..2 /\ job[j].stored + 1 \in 0..2
    BY <1>0 DEF Busy
  <2> QED
    BY <1>0, <2>1, FailedFits
<1>4. AfterWrite(job[j]) \in Job /\ Books(AfterWrite(job[j])) /\ Agrees(AfterWrite(job[j]), new)
  <2>1. job[j].op = "evidence" => new.evidence # NoUrl
    BY <1>0, <1>2 DEF Books, OpFits
  <2> QED
    BY <1>0, <2>1, AfterWriteFits
<1>5. CASE row' = new
  <2>1. PICK jb \in {AfterWrite(job[j]), Failed(job[j], 1), Failed(job[j], 0)} :
                job' = [job EXCEPT ![j] = jb]
    BY <1>1, <1>5, <1>3
  <2>2. jb \in Job /\ Books(jb) /\ Agrees(jb, row')
    BY <1>3, <1>4, <1>5, <2>1
  <2>3. ReviewHasEvidence'
    BY <1>0, <1>2, <1>5 DEF ReviewHasEvidence
  <2> QED
    BY <1>0, <1>2, <1>5, <1>7, <2>1, <2>2, <2>3, OneJob
<1>6. CASE row' = row /\ job' = [job EXCEPT ![j] = Failed(job[j], 0)]
  BY <1>0, <1>3, <1>6, <1>7, OneJob DEF IndInv, TypeOK, ReviewHasEvidence
<1> QED
  BY <1>1, <1>5, <1>6

\* AddEvidence's second UPDATE.
LEMMA WriteStatusStep ==
    ASSUME IndInv, NEW j \in Jobs, WriteStatus(j)
    PROVE  IndInv'
<1> DEFINE new == [row EXCEPT !.status = "under_review"]
           p == [job[j] EXCEPT !.at = "publish", !.stored = 2]
<1>0. /\ job[j] \in Job /\ Books(job[j]) /\ job[j].at = "status" /\ table' = table
      /\ job[j].op = "evidence" /\ job[j].stored = 1 /\ table = "disputes" /\ row.evidence # NoUrl
      /\ OpFits(job[j].op) /\ ~ job[j].announced /\ ~ job[j].faulted
  BY DEF IndInv, TypeOK, WriteStatus, Books, Agrees, OpFits
<1>1. \/ row' = new /\ job' = [job EXCEPT ![j] = p]
      \/ row' = new /\ job' = [job EXCEPT ![j] = Failed(job[j], 1)]
      \/ row' = row /\ job' = [job EXCEPT ![j] = Failed(job[j], 0)]
  BY DEF WriteStatus, Fail
<1>2. /\ Failed(job[j], 0) \in Job /\ Books(Failed(job[j], 0)) /\ \A rw : Agrees(Failed(job[j], 0), rw)
      /\ Failed(job[j], 1) \in Job /\ Books(Failed(job[j], 1)) /\ \A rw : Agrees(Failed(job[j], 1), rw)
  <2>1. job[j].at \in Busy /\ job[j].stored + 0 \in 0..2 /\ job[j].stored + 1 \in 0..2
    BY <1>0 DEF Busy
  <2> QED
    BY <1>0, <2>1, FailedFits
<1>9. positive' = positive /\ positive \in BOOLEAN
  BY DEF WriteStatus, IndInv, TypeOK
<1>3. new \in Dispute /\ new.evidence = row.evidence
  BY <1>0, RowFacts DEF IndInv, Dispute
<1>4. p \in Job
  <2>1. 2 \in 0..2 /\ "publish" \in Busy
    BY DEF Busy
  <2> QED
    BY <1>0, <2>1 DEF Job
<1>5. /\ p.at = "publish" /\ p.stored = 2 /\ p.op = job[j].op /\ p.announced = job[j].announced
      /\ p.faulted = job[j].faulted
  BY <1>0 DEF Job
<1> HIDE DEF p, new
<1>6. Books(p) /\ Agrees(p, new)
  <2>1. Writes(p.op) = 2
    BY <1>0, <1>5 DEF Writes, Reading
  <2> QED
    BY <1>0, <1>5, <2>1 DEF Books, Agrees, Changing
<1>7. CASE row' = new
  <2>1. PICK jb \in {p, Failed(job[j], 1), Failed(job[j], 0)} : job' = [job EXCEPT ![j] = jb]
    BY <1>1, <1>7, <1>2
  <2>2. jb \in Job /\ Books(jb) /\ Agrees(jb, row')
    BY <1>2, <1>4, <1>6, <1>7, <2>1
  <2>3. ReviewHasEvidence' /\ row' \in Rows[table]
    BY <1>0, <1>3, <1>7, Tables DEF ReviewHasEvidence
  <2> QED
    BY <1>0, <1>3, <1>7, <1>9, <2>1, <2>2, <2>3, OneJob
<1>8. CASE row' = row /\ job' = [job EXCEPT ![j] = Failed(job[j], 0)]
  BY <1>0, <1>2, <1>8, <1>9, SameRow DEF data
<1> QED
  BY <1>1, <1>7, <1>8

\* A restart: the jobs at work make no claim.
LEMMA CrashStep ==
    ASSUME IndInv, Crash
    PROVE  IndInv'
<1>1. ASSUME NEW j \in Jobs
      PROVE  job'[j] \in Job /\ Books(job'[j]) /\ Agrees(job'[j], row)
  <2>0. job[j] \in Job /\ Books(job[j]) /\ Agrees(job[j], row)
    BY DEF IndInv, TypeOK
  <2>1. CASE job[j].at \notin Busy
    BY <2>0, <2>1 DEF Crash
  <2>2. CASE job[j].at \in Busy
    <3> DEFINE a == Answered(job[j], "none")
               f == [a EXCEPT !.faulted = TRUE]
    <3>1. /\ a \in Job /\ a.at = "done" /\ a.op = job[j].op /\ a.answer = "none"
          /\ a.announced = job[j].announced
      BY <2>0, AnsweredFields
    <3>2. job'[j] = f
      BY <2>2 DEF Crash
    <3> HIDE DEF a
    <3>3. f \in Job
      BY <3>1 DEF Job
    <3>4. /\ f.at = "done" /\ f.op = job[j].op /\ f.answer = "none" /\ f.faulted = TRUE
          /\ f.announced = job[j].announced
      BY <3>1 DEF Job
    <3> HIDE DEF f
    <3>5. ~ job[j].announced
      BY <2>0, <2>2 DEF Books, Busy
    <3> QED
      BY <2>0, <3>2, <3>3, <3>4, <3>5 DEF Books, Agrees
  <2> QED
    BY <2>1, <2>2
<1>2. job' \in [Jobs -> Job]
  BY <1>1 DEF Crash
<1>3. ASSUME NEW j \in Jobs PROVE Books(job[j])' /\ Agrees(job[j], row)'
  BY <1>1 DEF Crash, Books, Agrees, OpFits, data
<1> QED
  BY <1>2, <1>3 DEF Crash, IndInv, TypeOK, ReviewHasEvidence, data

\* Every step keeps the invariant.
LEMMA NextIndInv == IndInv /\ [Next]_vars => IndInv'
<1> SUFFICES ASSUME IndInv, [Next]_vars PROVE IndInv'
  OBVIOUS
<1>1. CASE UNCHANGED vars
  BY <1>1 DEF vars, IndInv, TypeOK, ReviewHasEvidence, Books, Agrees, OpFits
<1> QED
  BY <1>1, OperationStep, StatementSteps, WriteStep, WriteStatusStep, CrashStep DEF Next, JobStep

-----------------------------------------------------------------------------

\* Jobs and the row always fit together.
THEOREM Invariance == Spec => []IndInv
  BY InitIndInv, NextIndInv, PTL DEF Spec

\* TypeOK holds in every reachable state: no operation writes a status or a
\* period its table does not have.
THEOREM TypeCorrect == Spec => []TypeOK
<1>1. IndInv => TypeOK
  BY DEF IndInv
<1> QED
  BY <1>1, Invariance, PTL

\* The answer of every handler, service call and task tells what became of
\* its writes.
THEOREM TruthfulAnswers == Spec => []AnswerTellsTheTruth
<1>1. IndInv => AnswerTellsTheTruth
  BY DEF IndInv, Books, AnswerTellsTheTruth
<1> QED
  BY <1>1, Invariance, PTL

\* The services publish after the last write, and then only a failure keeps
\* the event from the bus.
THEOREM TruthfulEvents == Spec => []EventsFollowTheStore
<1>1. IndInv => EventsFollowTheStore
  <2> SUFFICES ASSUME IndInv, NEW j \in Jobs
               PROVE  /\ job[j].announced => job[j].stored = Writes(job[j].op) /\ job[j].stored > 0
                      /\ job[j].at = "done" /\ ~ job[j].faulted /\ job[j].stored > 0
                            /\ job[j].op \notin Tasks => job[j].announced
    BY DEF EventsFollowTheStore
  <2> QED
    BY DEF IndInv, Books
<1> QED
  BY <1>1, Invariance, PTL

\* AddEvidence never leaves a dispute under review without evidence.
THEOREM ReviewsHaveEvidence == Spec => []ReviewHasEvidence
<1>1. IndInv => ReviewHasEvidence
  BY DEF IndInv
<1> QED
  BY <1>1, Invariance, PTL

-----------------------------------------------------------------------------
(* What a step may do *)

\* An operation begins when its job is free, and only tasks begin with their
\* write.
LEMMA Arrivals ==
    ASSUME IndInv, NEW j \in Jobs, Operation(j)
    PROVE  /\ UNCHANGED data /\ job[j].at \in {"idle", "done"}
           /\ \A i \in Jobs : i # j => job'[i] = job[i]
           /\ job'[j].at = "write" => job'[j].op \in Tasks
<1>1. ASSUME NEW t, NEW op \in Ops, NEW first \in {"count", "read", "insert", "write"},
             Arrive(j, t, op, first), first = "write" => op \in Tasks
      PROVE  /\ UNCHANGED data /\ job[j].at \in {"idle", "done"}
             /\ \A i \in Jobs : i # j => job'[i] = job[i]
             /\ job'[j].at = "write" => job'[j].op \in Tasks
  <2>1. job \in [Jobs -> Job]
    BY DEF IndInv, TypeOK
  <2>2. /\ NewJob(op, first).at = first /\ NewJob(op, first).op = op
        /\ Answered(NewJob(op, first), "error").at = "done"
    BY DEF NewJob, Answered
  <2> QED
    BY <1>1, <2>1, <2>2 DEF Arrive
<1> QED
  BY <1>1
     DEF Operation, CreateSubscription, ListSubscriptions, GetSubscription, UpdateSubscription,
         CancelSubscription, ProcessRenewal, CreateInvoice, ListInvoices, GetInvoice, SendInvoice,
         MarkPaid, MarkOverdue, InvoiceTask, CreatePayout, GetPayout, ListPayouts, PayoutTask,
         CreateDispute, GetDispute, ListDisputes, AddEvidence, Ops, Reading, Tasks

\* A statement belongs to one job.
LEMMA Statements ==
    ASSUME IndInv, NEW j \in Jobs, JobStep(j)
    PROVE  /\ table' = table
           /\ \A i \in Jobs : i # j => job'[i] = job[i]
           /\ row' # row => Write(j) \/ WriteStatus(j)
  BY DEF IndInv, TypeOK, JobStep, Insert, Count, Read, Write, WriteStatus, Publish, Answer, Fail, Goto, data

\* A job comes to its write by a SELECT that let it through, or as a task.
LEMMA WriteEntries ==
    ASSUME IndInv, [Next]_vars, NEW i \in Jobs, job'[i].at = "write", job'[i] # job[i]
    PROVE  \/ job'[i].op \in Changing /\ job'[i].read = row /\ Allowed(job'[i].op, row)
           \/ job'[i].op \in Tasks
<1>0. job \in [Jobs -> Job] /\ job[i] \in Job /\ Books(job[i])
  BY DEF IndInv, TypeOK
<1>1. ~ UNCHANGED vars
  BY DEF vars
<1>2. ~ Crash
  <2>1. Crash => job'[i] = job[i] \/ job'[i].at = "done"
    <3>1. Answered(job[i], "none") \in Job /\ Answered(job[i], "none").at = "done"
      BY <1>0, AnsweredFields
    <3>2. [Answered(job[i], "none") EXCEPT !.faulted = TRUE].at = "done"
      BY <3>1 DEF Job
    <3> QED
      BY <3>2 DEF Crash
  <2> QED
    BY <2>1
<1>3. CASE Operation(i)
  BY <1>3, Arrivals
<1>4. CASE JobStep(i)
  <2>1. \A answer \in {"ok", "error", "none"} : Answered(job[i], answer).at = "done"
    BY <1>0, AnsweredFields
  <2>2. \A n : Failed(job[i], n).at = "done"
    BY <1>0, <2>1, AnsweredFields DEF Failed, Job
  <2>3. ~ Insert(i)
    BY <1>0, <2>1 DEF Insert, Answer
  <2>4. ~ Count(i)
    BY <1>0, <2>2 DEF Count, Goto, Fail, Job
  <2>5. ~ Publish(i)
    <3>1. Publish(i) => job'[i].at = "done"
      BY <1>0, AnsweredFields DEF Publish, Job
    <3> QED
      BY <3>1
  <2>6. ~ WriteStatus(i)
    <3>1. WriteStatus(i) => job'[i].at \in {"publish", "done"}
      BY <1>0, <2>2 DEF WriteStatus, Fail, Job
    <3> QED
      BY <3>1
  <2>7. ~ Write(i)
    <3>1. Write(i) => job'[i] = AfterWrite(job[i]) \/ job'[i].at = "done"
      BY <1>0, <2>2 DEF Write, Fail
    <3>2. ASSUME Write(i) PROVE AfterWrite(job[i]).at # "write"
      <4>1. job[i].at = "write"
        BY <3>2 DEF Write
      <4>2. PICK new \in Written(job[i]) : TRUE
        BY <3>2 DEF Write
      <4>3. job[i].op = "evidence" => new.evidence # NoUrl
        BY <1>0, <4>1, WrittenFits DEF Books, OpFits
      <4> QED
        BY <1>0, <4>1, <4>3, AfterWriteFits
    <3> QED
      BY <3>1, <3>2
  <2>8. ASSUME Read(i)
        PROVE  job'[i].op \in Changing /\ job'[i].read = row /\ Allowed(job'[i].op, row)
    <3>1. /\ job[i].op \notin Reading /\ Allowed(job[i].op, row)
          /\ job' = [job EXCEPT ![i].at = "write", ![i].read = row]
      BY <1>0, <2>1, <2>2, <2>8 DEF Read, Answer, Fail
    <3>2. job'[i].op = job[i].op /\ job'[i].read = row
      BY <1>0, <3>1 DEF Job
    <3>3. job[i].op \in Changing
      BY <1>0, <2>8, <3>1 DEF Read, Books
    <3> QED
      BY <3>1, <3>2, <3>3
  <2> QED
    BY <1>4, <2>3, <2>4, <2>5, <2>6, <2>7, <2>8 DEF JobStep
<1> QED
  BY <1>1, <1>2, <1>3, <1>4, Arrivals, Statements DEF Next

\* A row changes only by a job's write.
LEMMA RowSteps ==
    ASSUME IndInv, [Next]_vars
    PROVE  /\ table' = table
           /\ \/ row' = row
              \/ \E j \in Jobs : job[j].at = "write" /\ row' \in Written(job[j])
              \/ table = "disputes"
<1>1. CASE UNCHANGED vars \/ Crash
  BY <1>1 DEF vars, Crash, data
<1>2. CASE \E j \in Jobs : Operation(j)
  BY <1>2, Arrivals DEF data
<1>3. ASSUME NEW j \in Jobs, JobStep(j), row' # row
      PROVE  (job[j].at = "write" /\ row' \in Written(job[j])) \/ table = "disputes"
  <2>1. CASE Write(j)
    BY <1>3, <2>1 DEF Write
  <2>2. CASE WriteStatus(j)
    BY <2>2 DEF WriteStatus, IndInv, Books, OpFits
  <2> QED
    BY <1>3, <2>1, <2>2, Statements
<1> QED
  BY <1>1, <1>2, <1>3, Statements DEF Next

\* SendInvoice, MarkPaid, MarkOverdue and the invoice task take a draft to
\* open or leave it: whoever is about to settle an invoice has seen it open.
THEOREM DraftsAreSentFirst == Spec => DraftIsSentFirst
<1>1. IndInv /\ [Next]_vars =>
        [table = "invoices" /\ row.status = "draft" => row'.status \in {"draft", "open"}]_vars
  <2> SUFFICES ASSUME IndInv, [Next]_vars, table = "invoices", row.status = "draft", row' # row
               PROVE  row'.status = "open"
    OBVIOUS
  <2>1. PICK j \in Jobs : job[j].at = "write" /\ row' \in Written(job[j])
    BY RowSteps
  <2>2. row'.status = StatusSet(job[j].op)
    BY <2>1, WrittenFits
  <2>3. job[j].op \in {"send", "invoice_task"}
    BY <2>1 DEF IndInv, Books, OpFits, Agrees, Changing, Tasks
  <2> QED
    BY <2>2, <2>3 DEF StatusSet
<1> QED
  BY <1>1, Invariance, PTL DEF Spec, DraftIsSentFirst

\* Once no job holds an older copy, nothing revives a cancelled subscription.
THEOREM CancelledForever == Spec => CancelledStays
<1>1. IndInv /\ [Next]_vars => [CancelledForGood => CancelledForGood']_vars
  <2> SUFFICES ASSUME IndInv, [Next]_vars, CancelledForGood PROVE CancelledForGood'
    OBVIOUS
  <2>0. table = "subscriptions" /\ table' = table /\ row.status = "cancelled"
    BY RowSteps DEF CancelledForGood
  <2>1. row'.status = "cancelled"
    <3>1. ASSUME NEW j \in Jobs, job[j].at = "write", row' \in Written(job[j])
          PROVE  row'.status = "cancelled"
      <4>1. job[j].read \in Subscription
        BY <2>0, <3>1 DEF IndInv, Books
      <4>2. \/ job[j].op = "update" /\ \E n \in Steps : row' = [job[j].read EXCEPT !.step = n]
            \/ job[j].op = "cancel" /\ row' = Cancelled(job[j].read)
            \/ job[j].op = "renew" /\ row' = Renewed(job[j].read)
        BY <2>0, <3>1, WrittenFits
      <4>3. job[j].op = "cancel" \/ job[j].read.status = "cancelled"
        BY <3>1 DEF CancelledForGood
      <4> QED
        BY <4>1, <4>2, <4>3 DEF Subscription, Cancelled, Renewed
    <3> QED
      BY <2>0, <3>1, RowSteps
  <2>2. ASSUME NEW i \in Jobs, job'[i].at = "write"
        PROVE  job'[i].op = "cancel" \/ job'[i].read.status = "cancelled"
    <3>1. CASE job'[i] = job[i]
      BY <2>2, <3>1 DEF CancelledForGood
    <3>2. CASE job'[i] # job[i]
      <4>1. job'[i].op \notin Tasks
        <5>1. Books(job[i])'
          BY NextIndInv DEF IndInv
        <5> QED
          BY <2>0, <5>1 DEF Books, OpFits, Tasks
      <4> QED
        BY <2>0, <2>2, <3>2, <4>1, WriteEntries
    <3> QED
      BY <3>1, <3>2
  <2> QED
    BY <2>0, <2>1, <2>2 DEF CancelledForGood
<1> QED
  BY <1>1, Invariance, PTL DEF Spec, CancelledStays

\* Once no job holds an older copy, only the invoice task changes a paid
\* invoice.
THEOREM PaidForever == Spec => PaidStays
<1>1. IndInv /\ [Next]_vars =>
        [PaidForGood => PaidForGood' \/ \E j \in Jobs : job'[j].op = "invoice_task"
                                                      /\ job'[j].at = "write"]_vars
  <2> SUFFICES ASSUME IndInv, [Next]_vars, PaidForGood,
                      ~ \E j \in Jobs : job'[j].op = "invoice_task" /\ job'[j].at = "write"
               PROVE  PaidForGood'
    OBVIOUS
  <2>0. table = "invoices" /\ table' = table /\ row.status = "paid"
    BY RowSteps DEF PaidForGood
  <2>1. row'.status = "paid"
    <3>1. ASSUME NEW j \in Jobs, job[j].at = "write", row' \in Written(job[j])
          PROVE  row'.status = "paid"
      BY <2>0, <3>1, WrittenFits DEF PaidForGood, StatusSet
    <3> QED
      BY <2>0, <3>1, RowSteps
  <2>2. ASSUME NEW i \in Jobs, job'[i].at = "write" PROVE job'[i].op = "paid"
    <3>1. CASE job'[i] = job[i]
      BY <2>2, <3>1 DEF PaidForGood
    <3>2. CASE job'[i] # job[i]
      <4>1. Books(job[i])'
        BY NextIndInv DEF IndInv
      <4>2. job'[i].op \notin Tasks
        BY <2>0, <2>2, <4>1 DEF Books, OpFits, Tasks
      <4>3. job'[i].op \in {"send", "paid", "overdue"} /\ Allowed(job'[i].op, row)
        BY <2>0, <2>2, <3>2, <4>1, <4>2, WriteEntries DEF Books, OpFits, Changing
      <4> QED
        BY <2>0, <4>3 DEF Allowed
    <3> QED
      BY <3>1, <3>2
  <2> QED
    BY <2>0, <2>1, <2>2 DEF PaidForGood
<1> QED
  BY <1>1, Invariance, PTL DEF Spec, PaidStays

\* A whole-row UPDATE gives the columns outside its operation no value but
\* the one they have or the one the job has read.
THEOREM UpdatesLostOnlyInRaces == Spec => OnlyRacesLoseUpdates
<1>1. IndInv /\ [Next]_vars =>
        [\A j \in Jobs : Overwrites(j) =>
            \A f \in DOMAIN row \ Own(job[j].op) : row'[f] \in {row[f], job[j].read[f]}]_vars
  <2> SUFFICES ASSUME IndInv, [Next]_vars, NEW j \in Jobs, Overwrites(j),
                      NEW f \in DOMAIN row \ Own(job[j].op), row' # row
               PROVE  row'[f] = job[j].read[f]
    OBVIOUS
  <2>0. /\ table = "subscriptions" /\ job[j].at = "write" /\ job'[j] # job[j]
        /\ row \in Subscription /\ job[j].read \in Subscription
    BY RowFacts DEF Overwrites, IndInv, Books
  <2>1. Write(j)
    <3>1. ~ UNCHANGED vars /\ ~ Crash
      BY DEF vars, Crash, data
    <3>2. \A i \in Jobs : ~ Operation(i)
      BY Arrivals DEF data
    <3>3. PICK i \in Jobs : JobStep(i)
      BY <3>1, <3>2 DEF Next
    <3>4. i = j
      BY <2>0, <3>3, Statements
    <3> QED
      BY <2>0, <3>3, <3>4, Statements DEF WriteStatus
  <2>2. row' \in Written(job[j])
    BY <2>1 DEF Write
  <2>3. \/ job[j].op = "update" /\ \E n \in Steps : row' = [job[j].read EXCEPT !.step = n]
        \/ job[j].op = "cancel" /\ row' = Cancelled(job[j].read)
        \/ job[j].op = "renew" /\ row' = Renewed(job[j].read)
    BY <2>0, <2>2, WrittenFits
  <2>4. CASE job[j].op = "update"
    <3>1. Own(job[j].op) = {"step"}
      BY <2>4 DEF Own
    <3> QED
      BY <2>0, <2>3, <2>4, <3>1 DEF Subscription
  <2>5. CASE job[j].op = "cancel"
    <3>1. Own(job[j].op) = {"status", "cancelled_at"}
      BY <2>5 DEF Own
    <3> QED
      BY <2>0, <2>3, <2>5, <3>1 DEF Subscription, Cancelled
  <2>6. CASE job[j].op = "renew"
    <3>1. Own(job[j].op) = {"start", "end"}
      BY <2>6 DEF Own
    <3> QED
      BY <2>0, <2>3, <2>6, <3>1 DEF Subscription, Renewed
  <2> QED
    BY <2>3, <2>4, <2>5, <2>6
<1> QED
  BY <1>1, Invariance, PTL DEF Spec, OnlyRacesLoseUpdates

-----------------------------------------------------------------------------
(* Billing periods *)

InOrder(rw) == rw.step > 0 /\ rw.start < rw.end

\* While every count was positive, the row and every copy that a job is about
\* to write back have their period in order and a positive count.
PeriodInv ==
    table = "subscriptions" /\ positive =>
        /\ InOrder(row)
        /\ \A j \in Jobs : job[j].at = "write" => InOrder(job[j].read)

LEMMA InitPeriod == Init => PeriodInv
<1> SUFFICES ASSUME Init, table = "subscriptions" PROVE PeriodInv
  BY DEF PeriodInv
<1>1. ASSUME NEW n \in {k \in Steps : k > 0}, NEW s \in {"active", "past_due"}
      PROVE  InOrder([NewSubscription(n) EXCEPT !.status = s])
  BY DEF NewSubscription, InOrder
<1>2. PICK n \in {k \in Steps : k > 0}, s \in {"active", "past_due"} :
        row = [NewSubscription(n) EXCEPT !.status = s]
  BY DEF Init, InitialRows
<1>3. InOrder(row)
  BY <1>1, <1>2
<1>4. \A j \in Jobs : job[j].at = "idle"
  BY DEF Init, NewJob
<1> QED
  BY <1>3, <1>4 DEF PeriodInv

\* Once a count was not positive the history says so, and a write says it.
LEMMA PositiveSteps ==
    ASSUME IndInv, [Next]_vars, positive'
    PROVE  positive /\ (table = "subscriptions" /\ row' # row => row'.step > 0)
<1>1. CASE UNCHANGED data
  BY <1>1 DEF data
<1>2. ASSUME NEW j \in Jobs, Write(j)
      PROVE  positive /\ (table = "subscriptions" => row'.step > 0)
  BY <1>2 DEF Write
<1>3. ASSUME NEW j \in Jobs, WriteStatus(j) PROVE positive /\ table = "disputes"
  BY <1>3 DEF WriteStatus, IndInv, Books, OpFits
<1>4. CASE UNCHANGED vars \/ Crash
  BY <1>1, <1>4 DEF vars, data, Crash
<1>5. ASSUME NEW j \in Jobs, Operation(j) PROVE UNCHANGED data
  BY <1>5, Arrivals
<1>6. ASSUME NEW j \in Jobs, Insert(j) \/ Count(j) \/ Read(j) \/ Publish(j) PROVE UNCHANGED data
  BY <1>6 DEF Insert, Count, Read, Publish
<1> QED
  BY <1>1, <1>2, <1>3, <1>4, <1>5, <1>6 DEF Next, JobStep

LEMMA NextPeriod == IndInv /\ PeriodInv /\ [Next]_vars => PeriodInv'
<1> SUFFICES ASSUME IndInv, PeriodInv, [Next]_vars, table' = "subscriptions", positive'
             PROVE  InOrder(row') /\ \A j \in Jobs : job'[j].at = "write" => InOrder(job'[j].read)
  BY DEF PeriodInv, InOrder
<1>1. /\ table = "subscriptions" /\ positive /\ InOrder(row)
      /\ \A j \in Jobs : job[j].at = "write" => InOrder(job[j].read)
  BY RowSteps, PositiveSteps DEF PeriodInv
<1>2. InOrder(row')
  <2>1. ASSUME NEW j \in Jobs, job[j].at = "write", row' \in Written(job[j]), row' # row
        PROVE  InOrder(row')
    <3> DEFINE c == job[j].read
    <3>1. c \in Subscription /\ InOrder(c)
      BY <1>1, <2>1 DEF IndInv, Books
    <3>2. \/ \E n \in Steps : row' = [c EXCEPT !.step = n]
          \/ row' = Cancelled(c)
          \/ row' = Renewed(c)
      BY <1>1, <2>1, WrittenFits
    <3>3. row'.step > 0
      BY <1>1, <2>1, PositiveSteps
    <3>4. c.start \in Int /\ c.end \in Int /\ c.step \in Int
      BY <3>1, BillingAssumption DEF Subscription
    <3> HIDE DEF c
    <3>5. \/ row'.start = c.start /\ row'.end = c.end
          \/ row'.start = c.end /\ row'.end = c.end + c.step
      BY <3>1, <3>2 DEF Subscription, Cancelled, Renewed
    <3> QED
      BY <3>1, <3>3, <3>4, <3>5 DEF InOrder
  <2> QED
    BY <1>1, <2>1, RowSteps
<1>3. ASSUME NEW i \in Jobs, job'[i].at = "write" PROVE InOrder(job'[i].read)
  <2>1. CASE job'[i] = job[i]
    BY <1>1, <1>3, <2>1
  <2>2. CASE job'[i] # job[i]
    <3>1. Books(job[i])'
      BY NextIndInv DEF IndInv
    <3>2. job'[i].op \notin Tasks
      BY <1>3, <3>1 DEF Books, OpFits, Tasks
    <3> QED
      BY <1>1, <1>3, <2>2, <3>2, WriteEntries
  <2> QED
    BY <2>1, <2>2
<1> QED
  BY <1>2, <1>3

\* A period ends after it begins, however updates, cancellations and renewals
\* overwrite each other, unless some update has stored a count below one.
THEOREM PeriodsInOrder == Spec => []PeriodInOrder
<1>1. Spec => []PeriodInv
  BY InitPeriod, NextPeriod, Invariance, PTL DEF Spec
<1>2. PeriodInv => PeriodInOrder
  BY DEF PeriodInv, PeriodInOrder, InOrder
<1> QED
  BY <1>1, <1>2, PTL
=============================================================================
