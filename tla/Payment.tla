------------------------------ MODULE Payment ------------------------------
(***************************************************************************)
(* The payment path of the server: PaymentService.ProcessPayment and       *)
(* PaymentService.Refund (internal/service/payment.go) as the HTTP         *)
(* handlers run them, one goroutine per request, over the tables           *)
(* idempotency_keys and transactions, the provider adapters chosen by      *)
(* provider.Factory, and the event bus.                                    *)
(*                                                                         *)
(* Every database, provider and bus call is one step, so requests          *)
(* interleave at exactly these points.  A database call may be performed,  *)
(* may fail, or may be performed and still be reported as failed (the      *)
(* connection or the request context ends after the statement ran).  The   *)
(* request context belongs to the client's connection: once the client is  *)
(* gone every later database, bus and Stripe call of its request fails.    *)
(*                                                                         *)
(* A request is used once; the uuid of the row it inserts and the id the   *)
(* provider gives its charge or refund are fresh, and both are the request *)
(* here.  Currency, reason, metadata, fees and error texts are left out.   *)
(***************************************************************************)
EXTENDS Naturals

CONSTANTS Requests,   \* HTTP requests, each a charge or a refund
          Keys,       \* idempotency keys clients use
          Amounts,    \* amounts in minor units
          Methods,    \* provider names that stored payment methods carry
          NoKey,      \* the empty idempotency key
          NoRequest,  \* no request, no provider transaction id
          NoRow       \* no row with this id

ASSUME PaymentAssumption ==
    /\ NoKey \notin Keys
    /\ NoRequest \notin Requests
    /\ Amounts \subseteq Nat \ {0}
    /\ Methods \subseteq {"mock", "stripe", "paypal", "square", "other"}

VARIABLES pc,        \* the next call of each request
          req,       \* the decoded body of each request
          tx,        \* the *model.Transaction the service holds
          reply,     \* what the handler answered
          gone,      \* requests whose client has disconnected
          idem,      \* idempotency_keys: the request that inserted the key
          rows,      \* transactions
          factory,   \* provider.Factory of the running process
          charged,   \* provider side: charges for which money was taken
          refunded,  \* provider side: refund requests that returned money
          returned,  \* provider side: money returned per transaction
          events,    \* requests whose event reached the bus
          faults     \* history: requests hit by an infrastructure failure

tables == <<idem, rows>>
outside == <<charged, refunded, returned, events>>
vars == <<pc, req, tx, reply, gone, idem, rows, factory,
          charged, refunded, returned, events, faults>>

-----------------------------------------------------------------------------
(* Data *)

\* Provider names a payment method may carry; "other" stands for any name
\* that no factory registers.
ProviderNames == {"mock", "stripe", "paypal", "square", "other"}

Status == {"pending", "succeeded", "failed", "reversed"}

Row == [type : {"charge", "refund"}, status : Status, amount : Amounts,
        provider : ProviderNames, ptx : Requests \cup {NoRequest},
        metadata : {"object", "null"}]

ASSUME NoRowAssumption == NoRow \notin Row

\* A charge names the provider of its payment method ("none": no such
\* method), a refund the transaction it refunds.
Charges == [kind : {"charge"}, key : Keys \cup {NoKey}, amount : Amounts,
            method : Methods \cup {"none"}, orig : {NoRequest}]
Refunds == [kind : {"refund"}, key : {NoKey}, amount : Amounts,
            method : {"none"}, orig : Requests]
NotYet == [kind |-> "none", key |-> NoKey, amount |-> 0,
           method |-> "none", orig |-> NoRequest]

PCs == {"idle", "check", "method", "create", "charge", "fail", "record",
        "load", "refund", "store", "publish", "done"}

\* NewFactory: the adapter behind each name.  The mock serves every name
\* when it is asked for or no real key is configured; otherwise Stripe is
\* there if it has a key, and the PayPal and Square stubs always are.
MockFactory == [n \in ProviderNames |-> IF n = "other" THEN "unknown" ELSE "mock"]
RealFactory(stripeKey) ==
    [n \in ProviderNames |->
        IF n = "stripe" /\ stripeKey THEN "stripe"
        ELSE IF n \in {"paypal", "square"} THEN "stub" ELSE "unknown"]
Factories == {MockFactory, RealFactory(TRUE), RealFactory(FALSE)}

TypeOK ==
    /\ pc \in [Requests -> PCs]
    /\ req \in [Requests -> Charges \cup Refunds \cup {NotYet}]
    /\ tx \in [Requests -> Row \cup {NoRow}]
    /\ reply \in [Requests -> {"none", "created", "error", "lost"}]
    /\ gone \subseteq Requests
    /\ idem \in [Keys -> Requests \cup {NoRequest}]
    /\ rows \in [Requests -> Row \cup {NoRow}]
    /\ factory \in [ProviderNames -> {"mock", "stripe", "stub", "unknown"}]
    /\ charged \subseteq Requests
    /\ refunded \subseteq Requests
    /\ returned \in [Requests -> Nat]
    /\ events \subseteq Requests
    /\ faults \subseteq Requests

Init ==
    /\ pc = [r \in Requests |-> "idle"]
    /\ req = [r \in Requests |-> NotYet]
    /\ tx = [r \in Requests |-> NoRow]
    /\ reply = [r \in Requests |-> "none"]
    /\ gone = {}
    /\ idem = [k \in Keys |-> NoRequest]
    /\ rows = [r \in Requests |-> NoRow]
    /\ factory \in Factories
    /\ charged = {}
    /\ refunded = {}
    /\ returned = [r \in Requests |-> 0]
    /\ events = {}
    /\ faults = {}

-----------------------------------------------------------------------------
(* Control *)

InFlight(r) == pc[r] \notin {"idle", "done"}

\* r goes on to its next call with t as the transaction it holds.
Goto(r, label, t) == /\ pc' = [pc EXCEPT ![r] = label]
                     /\ tx' = [tx EXCEPT ![r] = t]
                     /\ UNCHANGED <<reply, gone>>
\* r answers; its goroutine, locals and context end.
Finish(r, answer) == /\ pc' = [pc EXCEPT ![r] = "done"]
                     /\ reply' = [reply EXCEPT ![r] = answer]
                     /\ tx' = [tx EXCEPT ![r] = NoRow]
                     /\ gone' = gone \ {r}

\* The call of r is performed: its context is still alive.
Performed(r) == /\ r \notin gone
                /\ UNCHANGED faults
\* The call of r fails for a reason outside the program.
Fault(r) == faults' = faults \cup {r}
\* What a failed statement may leave behind: nothing, or its full effect
\* when it had been sent before the context or the connection ended.
AfterError(r, before, after) ==
    {before} \cup (IF r \in gone THEN {} ELSE {after})

\* The handler decodes and validates the body and calls the service.
Arrive(r) ==
    /\ pc[r] = "idle"
    /\ \E b \in Charges \cup Refunds :
        /\ req' = [req EXCEPT ![r] = b]
        /\ Goto(r, IF b.kind = "refund" THEN "load"
                   ELSE IF b.key = NoKey THEN "method" ELSE "check", NoRow)
    /\ UNCHANGED <<tables, factory, outside, faults>>

-----------------------------------------------------------------------------
(* PaymentService.ProcessPayment *)

\* Mutant: the insert reports one affected row for a taken key as well.
KeyIsFree_Always(k) == TRUE

\* ON CONFLICT (key_hash) DO NOTHING inserts a row.
KeyIsFree(k) == idem[k] = NoRequest

\* Mutant: ON CONFLICT DO UPDATE.
KeyRowAfter_Upsert(r, k) == [idem EXCEPT ![k] = r]

KeyRowAfter(r, k) == IF KeyIsFree(k) THEN [idem EXCEPT ![k] = r] ELSE idem

\* Mutant: wait until the key is free (an advisory lock never released).
CheckAndSave_Waits(r) ==
    /\ pc[r] = "check"
    /\ KeyIsFree(req[r].key)
    /\ Performed(r)
    /\ idem' = KeyRowAfter(r, req[r].key)
    /\ Goto(r, "method", NoRow)
    /\ UNCHANGED <<req, rows, factory, outside>>

CheckAndSave(r) ==
    /\ pc[r] = "check"
    /\ LET k == req[r].key IN
        \/ /\ Performed(r)
           /\ idem' = KeyRowAfter(r, k)
           /\ IF KeyIsFree(k) THEN Goto(r, "method", NoRow) ELSE Finish(r, "error")
        \/ /\ Fault(r)
           /\ idem' \in AfterError(r, idem, KeyRowAfter(r, k))
           /\ Finish(r, "error")
    /\ UNCHANGED <<req, rows, factory, outside>>

LoadMethod(r) ==
    /\ pc[r] = "method"
    /\ \/ /\ Performed(r)
          /\ IF req[r].method # "none" THEN Goto(r, "create", NoRow) ELSE Finish(r, "error")
       \/ /\ Fault(r)
          /\ Finish(r, "error")
    /\ UNCHANGED <<req, tables, factory, outside>>

\* Mutant: the row is created as if the charge had already succeeded.
PendingRow_Optimistic(r) ==
    [type |-> "charge", status |-> "succeeded", amount |-> req[r].amount,
     provider |-> req[r].method, ptx |-> NoRequest, metadata |-> "object"]

PendingRow(r) == [type |-> "charge", status |-> "pending", amount |-> req[r].amount,
                  provider |-> req[r].method, ptx |-> NoRequest, metadata |-> "object"]

\* The table's NOT NULL columns; of those only metadata is ever left nil.
Insertable(t) == t.metadata # "null"

\* txRepo.Create of the row t, after which r goes on to label.
Insert(r, t, label) ==
    /\ LET after == IF Insertable(t) THEN [rows EXCEPT ![r] = t] ELSE rows IN
        \/ /\ Performed(r)
           /\ rows' = after
           /\ IF Insertable(t) THEN Goto(r, label, t) ELSE Finish(r, "error")
        \/ /\ Fault(r)
           /\ rows' \in AfterError(r, rows, after)
           /\ Finish(r, "error")
    /\ UNCHANGED <<req, idem, factory, outside>>

CreatePending(r) == pc[r] = "create" /\ Insert(r, PendingRow(r), "charge")

\* The transaction after a failed lookup or charge.
ChargeFailed(r) == [tx[r] EXCEPT !.status = "failed"]

\* Mutant: Stripe's own status word goes into the row.
ChargeAnswer_Raw(r, status) ==
    [type |-> "charge", amount |-> tx[r].amount,
     status |-> IF status = "failed" THEN "requires_action" ELSE status,
     provider |-> factory[tx[r].provider], ptx |-> r, metadata |-> tx[r].metadata]

\* tx.Status, tx.Provider and tx.ProviderTransactionID from the answer.
ChargeAnswer(r, status) ==
    [type |-> "charge", status |-> status, amount |-> tx[r].amount,
     provider |-> factory[tx[r].provider], ptx |-> r, metadata |-> tx[r].metadata]

\* providerFactory.Get and prov.Charge.  An unknown name, a stub, a refused
\* or unreachable Stripe: an error, no money.  Stripe may also take the
\* money and its answer be lost.  The mock always succeeds.
ChargeRefused(r) ==
    /\ factory[req[r].method] # "mock"
    /\ Goto(r, "fail", ChargeFailed(r))
    /\ UNCHANGED <<charged, faults>>
ChargeAnswerLost(r) ==
    /\ factory[req[r].method] = "stripe"
    /\ r \notin gone
    /\ charged' = charged \cup {r}
    /\ Goto(r, "fail", ChargeFailed(r))
    /\ Fault(r)
ChargeSucceeded(r) ==
    /\ \/ factory[req[r].method] = "mock"
       \/ factory[req[r].method] = "stripe" /\ r \notin gone
    /\ charged' = charged \cup {r}
    /\ Goto(r, "record", ChargeAnswer(r, "succeeded"))
    /\ UNCHANGED faults
\* Stripe answers 200 with a status other than "succeeded".
ChargeNotSucceeded(r) ==
    /\ factory[req[r].method] = "stripe"
    /\ r \notin gone
    /\ Goto(r, "record", ChargeAnswer(r, "failed"))
    /\ UNCHANGED <<charged, faults>>

Charge(r) ==
    /\ pc[r] = "charge"
    /\ \/ ChargeRefused(r)
       \/ ChargeAnswerLost(r)
       \/ ChargeSucceeded(r)
       \/ ChargeNotSucceeded(r)
    /\ UNCHANGED <<req, tables, factory, refunded, returned, events>>

\* Mutant: return the charge error without updating the row.
RecordFailure_Skipped(r) ==
    /\ pc[r] = "fail"
    /\ Finish(r, "error")
    /\ UNCHANGED <<req, tables, factory, outside, faults>>

\* txRepo.Update after a failed lookup or charge; its error is only logged.
RecordFailure(r) ==
    /\ pc[r] = "fail"
    /\ LET after == [rows EXCEPT ![r] = tx[r]] IN
        \/ /\ Performed(r)
           /\ rows' = after
        \/ /\ Fault(r)
           /\ rows' \in AfterError(r, rows, after)
    /\ Finish(r, "error")
    /\ UNCHANGED <<req, idem, factory, outside>>

\* Mutant: the error of the final Update is only logged as well.
RecordCharge_ErrorLogged(r) ==
    /\ pc[r] = "record"
    /\ LET after == [rows EXCEPT ![r] = tx[r]] IN
        \/ /\ Performed(r)
           /\ rows' = after
        \/ /\ Fault(r)
           /\ rows' \in AfterError(r, rows, after)
    /\ Goto(r, "publish", tx[r])
    /\ UNCHANGED <<req, idem, factory, outside>>

\* txRepo.Update with the provider's answer.
RecordCharge(r) ==
    /\ pc[r] = "record"
    /\ LET after == [rows EXCEPT ![r] = tx[r]] IN
        \/ /\ Performed(r)
           /\ rows' = after
           /\ Goto(r, "publish", tx[r])
        \/ /\ Fault(r)
           /\ rows' \in AfterError(r, rows, after)
           /\ Finish(r, "error")
    /\ UNCHANGED <<req, idem, factory, outside>>

-----------------------------------------------------------------------------
(* PaymentService.Refund *)

\* txRepo.GetByID copies the row as it is now.
LoadOriginal(r) ==
    /\ pc[r] = "load"
    /\ LET orig == rows[req[r].orig] IN
        \/ /\ Performed(r)
           /\ IF orig = NoRow THEN Finish(r, "error") ELSE Goto(r, "refund", orig)
        \/ /\ Fault(r)
           /\ Finish(r, "error")
    /\ UNCHANGED <<req, tables, factory, outside>>

\* The refund transaction; its Metadata is left nil, which pgx sends as NULL.
RefundRow(r) == [type |-> "refund", status |-> "reversed", amount |-> req[r].amount,
                 provider |-> factory[tx[r].provider], ptx |-> r, metadata |-> "null"]

\* Stripe's own rule: the id names a charge it made, and the refunds of a
\* charge stay within it.
StripeAccepts(r) ==
    LET c == tx[r].ptx IN
        /\ c \in charged
        /\ returned[c] + req[r].amount <= req[c].amount

MoneyReturned(r) ==
    /\ refunded' = refunded \cup {r}
    /\ returned' = [returned EXCEPT ![req[r].orig] = @ + req[r].amount]

\* providerFactory.Get and prov.Refund, with the outcomes of a charge.
RefundRefused(r) ==
    /\ factory[tx[r].provider] # "mock"
    /\ Finish(r, "error")
    /\ UNCHANGED <<refunded, returned, faults>>
RefundAnswerLost(r) ==
    /\ factory[tx[r].provider] = "stripe"
    /\ r \notin gone
    /\ StripeAccepts(r)
    /\ MoneyReturned(r)
    /\ Finish(r, "error")
    /\ Fault(r)
RefundSucceeded(r) ==
    /\ \/ factory[tx[r].provider] = "mock"
       \/ factory[tx[r].provider] = "stripe" /\ r \notin gone /\ StripeAccepts(r)
    /\ MoneyReturned(r)
    /\ Goto(r, "store", RefundRow(r))
    /\ UNCHANGED faults
\* 200 with another status: the service drops refundResp.Status.
RefundNotSucceeded(r) ==
    /\ factory[tx[r].provider] = "stripe"
    /\ r \notin gone
    /\ StripeAccepts(r)
    /\ Goto(r, "store", RefundRow(r))
    /\ UNCHANGED <<refunded, returned, faults>>

Refund(r) ==
    /\ pc[r] = "refund"
    /\ \/ RefundRefused(r)
       \/ RefundAnswerLost(r)
       \/ RefundSucceeded(r)
       \/ RefundNotSucceeded(r)
    /\ UNCHANGED <<req, tables, factory, charged, events>>

StoreRefund(r) == pc[r] = "store" /\ Insert(r, tx[r], "publish")

-----------------------------------------------------------------------------
(* Both operations end by publishing; an error is only logged, and the      *)
(* no-op bus of a server without NATS reports success.                      *)
Publish(r) ==
    /\ pc[r] = "publish"
    /\ events' \in {events, events \cup {r}}
    /\ Finish(r, "created")
    /\ UNCHANGED <<req, tables, factory, charged, refunded, returned, faults>>

(* Environment *)

\* The client goes away: net/http cancels the request context.
Disconnect(r) ==
    /\ InFlight(r)
    /\ r \notin gone
    /\ gone' = gone \cup {r}
    /\ Fault(r)
    /\ UNCHANGED <<pc, req, tx, reply, tables, factory, outside>>

\* Mutant: the restart marks the transactions of the lost requests failed.
Crash_FailsRows ==
    /\ \E r \in Requests : InFlight(r)
    /\ pc' = [r \in Requests |-> IF InFlight(r) THEN "done" ELSE pc[r]]
    /\ reply' = [r \in Requests |-> IF InFlight(r) THEN "lost" ELSE reply[r]]
    /\ faults' = faults \cup {r \in Requests : InFlight(r)}
    /\ tx' = [r \in Requests |-> NoRow]
    /\ gone' = {}
    /\ rows' = [r \in Requests |-> IF InFlight(r) /\ rows[r] # NoRow
                                   THEN [rows[r] EXCEPT !.status = "failed"] ELSE rows[r]]
    /\ UNCHANGED <<req, idem, factory, outside>>

\* The process dies, or is killed when Shutdown's 30 seconds are over, and
\* is started again with the same configuration: every request in flight
\* is lost.
Crash ==
    /\ \E r \in Requests : InFlight(r)
    /\ pc' = [r \in Requests |-> IF InFlight(r) THEN "done" ELSE pc[r]]
    /\ reply' = [r \in Requests |-> IF InFlight(r) THEN "lost" ELSE reply[r]]
    /\ faults' = faults \cup {r \in Requests : InFlight(r)}
    /\ tx' = [r \in Requests |-> NoRow]
    /\ gone' = {}
    /\ UNCHANGED <<req, tables, factory, outside>>

Step(r) ==
    \/ CheckAndSave(r) \/ LoadMethod(r) \/ CreatePending(r) \/ Charge(r)
    \/ RecordFailure(r) \/ RecordCharge(r)
    \/ LoadOriginal(r) \/ Refund(r) \/ StoreRefund(r)
    \/ Publish(r)

\* Every request has been answered or lost.
AllDone == /\ \A r \in Requests : pc[r] = "done"
           /\ UNCHANGED vars

Next == \/ \E r \in Requests : Arrive(r) \/ Step(r) \/ Disconnect(r)
        \/ Crash
        \/ AllDone

Spec == Init /\ [][Next]_vars

\* Database, bus and provider calls return (the Stripe client gives up after
\* 30 seconds), so a request in flight keeps taking steps.
FairSpec == Spec /\ \A r \in Requests : WF_vars(Step(r))
-----------------------------------------------------------------------------
(* The inductive invariant behind the properties: what is known of a request *)
(* at each of its calls.                                                     *)

\* What the body must be for the request to stand at this call.
BodyFits(r) ==
    /\ pc[r] = "idle" => req[r] = NotYet
    /\ pc[r] = "check" => req[r] \in Charges /\ req[r].key \in Keys
    /\ pc[r] = "method" => req[r] \in Charges
    /\ pc[r] \in {"create", "charge", "fail", "record"} =>
            req[r] \in Charges /\ req[r].method \in Methods
    /\ pc[r] \in {"load", "refund", "store"} => req[r] \in Refunds

\* The stored row follows the calls made so far.
RowFits(r) ==
    /\ pc[r] \in {"idle", "check", "method", "create", "load", "refund", "store"} =>
            rows[r] = NoRow
    /\ pc[r] \in {"charge", "fail", "record"} =>
            rows[r] # NoRow /\ rows[r].status = "pending"
    /\ rows[r] # NoRow => rows[r].amount = req[r].amount
    /\ rows[r] # NoRow /\ rows[r].status = "succeeded" => r \in charged

\* So does the transaction the service holds ...
HeldFits(r) ==
    /\ pc[r] = "charge" => tx[r] = PendingRow(r)
    /\ pc[r] \in {"fail", "record", "store"} => tx[r] # NoRow /\ tx[r].amount = req[r].amount
    /\ pc[r] = "refund" => tx[r] # NoRow
    /\ pc[r] = "fail" => tx[r].status = "failed"
    /\ pc[r] = "record" =>
            /\ tx[r].status \in {"succeeded", "failed"}
            /\ tx[r].status = "succeeded" <=> r \in charged
    /\ pc[r] = "store" => ~ Insertable(tx[r])

\* ... and what the provider did for the request.
ProviderFits(r) ==
    /\ r \in charged => pc[r] \in {"fail", "record", "publish", "done"} /\ req[r] \in Charges
    /\ r \in refunded => pc[r] \in {"store", "publish", "done"} /\ req[r] \in Refunds
    /\ pc[r] = "fail" /\ r \in charged => r \in faults
    /\ pc[r] \in {"publish", "done"} /\ (r \notin faults \/ pc[r] = "publish"
                                            \/ reply[r] = "created" \/ r \in events) =>
            /\ rows[r] # NoRow => rows[r].status # "pending"
            /\ r \in charged <=> rows[r] # NoRow /\ rows[r].status = "succeeded"
    /\ r \in events \/ reply[r] = "created" => pc[r] = "done"
    /\ r \in events \/ reply[r] = "created" \/ pc[r] = "publish" => rows[r] # NoRow

\* A request that passed CheckAndSave, or was charged, owns its key.
OwnsKey(r) ==
    /\ pc[r] = "idle" => \A k \in Keys : idem[k] # r
    /\ (\/ pc[r] \in {"method", "create", "charge", "fail", "record", "publish"}
        \/ r \in charged) => req[r].key = NoKey \/ idem[req[r].key] = r

IndInv ==
    /\ TypeOK
    /\ \A r \in Requests :
        BodyFits(r) /\ RowFits(r) /\ HeldFits(r) /\ ProviderFits(r) /\ OwnsKey(r)

-----------------------------------------------------------------------------
(* Properties *)

\* An idempotency key buys at most one charge: whatever the interleaving of
\* two requests with the same key, the failures and the restarts between
\* them, CheckAndSave lets at most one of them take money at a provider
\* (without help from the provider's own Idempotency-Key handling).
AtMostOneChargePerKey ==
    \A r, s \in charged : r # s => req[r].key = NoKey \/ req[r].key # req[s].key

\* A row that says "succeeded" is backed by money the provider took for this
\* very request, for the amount the row shows.
SucceededMeansCharged ==
    \A r \in Requests : rows[r] # NoRow /\ rows[r].status = "succeeded" =>
        r \in charged /\ rows[r].amount = req[r].amount

\* Books and provider disagree only after an infrastructure failure: a
\* request that met none leaves no pending row behind, and its row says
\* "succeeded" exactly when its money was taken.
CleanRequestBalances ==
    \A r \in Requests : pc[r] = "done" /\ r \notin faults =>
        /\ rows[r] # NoRow => rows[r].status # "pending"
        /\ r \in charged <=> rows[r] # NoRow /\ rows[r].status = "succeeded"

\* The bus and the client are told the truth: an event is published and 201
\* is answered only for a row already stored in its final state, and a charge
\* row then says "succeeded" if and only if the money was taken.
AnnouncedMeansStored ==
    \A r \in Requests : r \in events \/ reply[r] = "created" =>
        /\ rows[r] # NoRow
        /\ rows[r].status # "pending"
        /\ req[r].kind = "charge" => (rows[r].status = "succeeded" <=> r \in charged)

\* No step rewrites a settled row: late writers, refunds of it and restarts
\* leave a succeeded, failed or reversed transaction as it is.  The documents
\* disagree on refunds: database/schema.md calls a settled transaction
\* immutable, the quickstart expects "original transaction updated".  The code
\* does what the schema says; that the quickstart's refund is not what happens
\* is shown by RefundsAreRecorded.
SettledRowsAreFinal ==
    [][\A r \in Requests : rows[r] # NoRow /\ rows[r].status # "pending"
                              => rows'[r] = rows[r]]_vars

\* No request hangs: each one that arrived is answered or lost with its
\* process, whatever other requests hold the same key.
EveryRequestEnds == \A r \in Requests : InFlight(r) ~> pc[r] = "done"

\* The charge path implements the abstract promise about keys.
Promise == INSTANCE ChargeOnce WITH
    keyOf <- [r \in Requests |-> req[r].key], owner <- idem
ImplementsPromise == Promise!Spec

\* What the specification says of a duplicate: the same key and parameters
\* get the first request's result (stated here for requests that met no
\* failure).  The code answers an error instead.
DuplicateGetsFirstResult ==
    \A r, s \in Requests :
        (/\ req[r] = req[s]
         /\ req[r].key # NoKey
         /\ pc[r] = "done" /\ pc[s] = "done"
         /\ r \notin faults /\ s \notin faults)
            => reply[r] = reply[s]

\* What the documents say of a refund (stated for requests that met no
\* failure), each in its own way: the API documentation answers 201 with the
\* refund transaction, the quickstart has the original transaction updated.
\* The code returns the money, cannot insert the row and leaves the original
\* alone, so that neither is true.
RefundsAreRecorded ==
    \A r \in refunded : pc[r] = "done" /\ r \notin faults =>
        \/ rows[r] # NoRow /\ reply[r] = "created"
        \/ rows[req[r].orig].status = "reversed"

\* What the API documentation says of refunds: they never exceed the
\* original transaction.  The service checks neither amount nor status and
\* leaves it to the provider; the mock accepts everything.
RefundsWithinOriginal == \A c \in charged : returned[c] <= req[c].amount
=============================================================================
