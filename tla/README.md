# A TLA+ model of Helix Seller

Helix Seller is one Go server (`cmd/server/main.go`) on PostgreSQL, Redis and NATS. HTTP
handlers call services, services call repositories (one SQL statement per method),
payment providers and the event bus; background workers poll a task table; goroutines
post outgoing webhooks. There are almost no multi-statement transactions, so every
statement is a point where another request, worker, handler or a crash may come between.
That is what these modules model. Paths below are relative to the repository.

## Inventory

| component | state | operations | what is hard | what makes it correct |
|---|---|---|---|---|
| payments (`internal/service/payment.go`, `internal/handler/payment.go`) | `idempotency_keys`, `transactions` | ProcessPayment, Refund | duplicates racing, money taken but not recorded, disconnects, restarts | one charge per key; rows, events and answers tell the truth |
| providers (`internal/provider`) | the factory's map; money at the provider | Charge, Refund | lost answers | an error is never read as success |
| background queue (`internal/service/background.go`) | `background_tasks` | Enqueue, worker loop, retries | two workers, lost commit or write, crash | exclusive claim, bounded effects, no task dropped |
| outgoing webhooks (`internal/service/webhook.go`, `internal/handler/webhook.go`) | `webhook_configs`, `webhook_deliveries`, goroutines | Deliver, sendWithRetry, update, delete | lost answers, dropped write errors, deletes while sending | delivery rows are truthful and settle; deleted stays deleted |
| subscriptions, invoices, disputes, payouts (`internal/service/subscription.go`, `invoice.go`, `dispute.go`, `payout.go`) | one table each | create, update, cancel, renew, send, pay, overdue, evidence; two background tasks | read-modify-write without guards, two writes without a transaction, tasks changing the same rows | answers and events tell the truth; a stale write undoes something only in a race |
| sessions, API keys, MFA, audit (`internal/handler/auth.go`, `internal/middleware`) | users, `api_keys`, Redis blacklist | register, login, refresh, logout, verify, validate, revoke; the middleware chain | expiry and revocation against requests in flight, Redis failing | a revoked token or key is refused |
| rate limit (`internal/middleware/rate_limit.go`) | Redis counters | count a request, give a new counter its expiry, decide | key, INCR and EXPIRE are separate moments; the minute turns, Redis fails or the server restarts between them | the limit of a window is exact; counters go away |
| merchants, customers, payment methods, provider configurations, products (`internal/handler`, `internal/repository`) | one table each | create, list, get, update, delete | updates write back a copy that others have changed or deleted | prices stay positive; deleted and archived rows stay so |
| websocket hub (`internal/websocket/hub.go`) | clients, rooms, channels | register, unregister, broadcast | full buffers, channels closed twice | no send on a closed channel |
| event bus and webhook ingress | NATS stream | publish, subscribe, ingest | acknowledgement without effect | at-least-once handling |

`PROJECT.json` lists the remaining parts (analytics, billing reports, the command line
client, SDKs, web front end, scripts) and why they are left out, and the hazards of the
code, each with the properties that are about it.

## Modules

| module | models |
|---|---|
| `ChargeOnce` | what the payment API promises about idempotency keys, without tables or failures |
| `Payment` | `PaymentService.ProcessPayment` and `Refund` with their repositories and adapters |
| `PaymentProofs` | theorems about `Payment` |
| `TaskQueue` | `BackgroundService` and its workers |
| `TaskQueueProofs` | theorems about `TaskQueue` |
| `Webhook` | `WebhookService` and the configuration handlers |
| `WebhookProofs` | theorems about `Webhook` |
| `Billing` | subscriptions, invoices, payouts and disputes: handlers, services, repositories, tasks |
| `BillingProofs` | theorems about `Billing` |
| `Session` | tokens, logout, the middleware chain, MFA verification, API keys |
| `SessionProofs` | theorems about `Session` |
| `RateLimit` | the rate limit's counters in Redis |
| `RateLimitProofs` | theorems about `RateLimit` |
| `Catalog` | the handlers of merchants, customers, payment methods, provider configurations, products |
| `CatalogProofs` | theorems about `Catalog` |
| `MCPayment`, `MCTaskQueue`, `MCWebhook`, `MCBilling`, `MCSession`, `MCRateLimit`, `MCCatalog` | the instances TLC checks |

An operator whose name ends in `_Something` and whose comment starts with "Mutant" is a
broken variant of the definition after it. Replacing the definition by it must violate
the property `PROJECT.json` pairs it with; it takes no part in the specification.

### Payment

One `pc` value per call the service makes: `check` (CheckAndSave), `method` (GetByID of
the payment method), `create` (the pending row), `charge` (the adapter), `fail` or
`record` (the Update), `load`, `refund`, `store` for refunds, `publish`. `tx` is the
`*model.Transaction` in the goroutine's hands, `rows` and `idem` are the tables,
`charged`, `refunded` and `returned` are the provider's own books, `faults` remembers
which requests met a failure outside the program.

* A database call is performed, fails, or is performed and reported as failed. The last
  case and the first failure also stand for statements that PostgreSQL refuses (foreign
  keys, over-long values).
* The request context is the client's connection: after `Disconnect` every database and
  Stripe call of the request fails. The mock adapter and `Publish` ignore the context.
* `factory` is chosen in `Init`: the mock for every name, or Stripe and the stubs, or the
  stubs alone. Configuration does not change over a restart.
* Stripe may refuse, succeed, take the money and lose the answer, or answer 200 with
  another status (read as failed, no money). Charges that Stripe completes later are not
  modelled. Stripe's own duplicate suppression is not assumed.
* The refund row's `Metadata` stays nil, pgx sends NULL, and the column is NOT NULL: the
  insert never succeeds (`Insertable`).
* The documents disagree about the original of a refund. `quickstart.md:97` (under
  `specs/001-helix-seller-platform`) expects "Partial refund created, original transaction
  updated"; `docs/public/research/mvp/database/schema.md:198` says that a transaction is
  immutable once its status is terminal. The code never writes the original.
  `SettledRowsAreFinal` states what the schema says and the code does, and
  `RefundsAreRecorded` accepts either record: a row of its own, or an original marked
  `reversed`. The code leaves neither.
* The documents give idempotency keys a life of 24 hours. The code never removes one.
* The id of a row and the provider's id of a charge are the request itself, which is sound
  because both are fresh. Fees, currency, descriptions and error texts are left out.

### TaskQueue

`Lock` is the UPDATE of `claimTask` with its row lock still held, `Commit` its commit,
`Handle` the handler, `Settle` the final UPDATE. `due` abstracts `next_run_at`. A handler
is its effect on the business row, counted in `applied`; it may report an error before or
after that effect. `Crash` ends all workers; open transactions roll back. `prio` orders
claims; the order within one priority is left open. All instances of the server share the
table, so `Workers` may be read as the workers of several processes, except that `Crash`
stops all of them.

### Webhook

`List` is `ListByMerchant`, `CreateDelivery` one turn of Deliver's loop, `Send` one post,
`Record` the `UpdateStatus` after it. `Read` and `Update` or `Delete` are the two
statements of a handler. `acks` and `inbox` are what the endpoint saw. `Deliver` has no
caller in the server yet; it is the service's public operation. Notes:

* Configurations exist at the start: `CreateWebhook` leaves Metadata nil and the table
  refuses the row.
* `typed` says whether the connection string puts pgx into a mode that sends parameter
  types. In its default mode the server has to deduce the type of `$2` in
  `UpdateStatus`, finds varchar and text, and refuses the statement; the caller drops the
  error, so rows stay `pending` for ever. Both cases are initial states. In the refused case
  every `Record` counts as a failure, and `StuckNeedsFault` and `DeliveriesSettle` excuse
  deliveries a failure hit: they say nothing about that configuration, which no property
  covers. What is left there is that a row never claims anything untrue.
* The loop's order over configurations is left open (the database's order by
  `created_at` is one of them).

### Billing

A job is a request, a call of a service operation that has no route yet (SendInvoice,
MarkPaid, MarkOverdue, ProcessRenewal), or a run of a task handler. `job[j].at` is the
statement it is about to perform: `insert`, `count`, `read`, `write`, `status` (the second
UPDATE of AddEvidence), `publish`. `read` is the copy in its hands. Subscriptions are
written whole from that copy, of the other tables one column is set without looking at it
again. `stored`, `announced` and `faulted` are history: what took effect, whether the event
went out, whether something outside the program failed.

* Rows of different tables share nothing here, so a behaviour is about one row of one table.
* The four create functions leave `Metadata` nil. pgx sends NULL, the columns are NOT NULL,
  and the INSERT is refused: those handlers answer 500 and no row appears (`Insert`). Rows
  are therefore there at the start, as another system would have inserted them.
* The payout and invoice tasks set the status unconditionally: a paid payout goes back to
  `in_transit`, a paid invoice to `open`. `PaidStays` names that exception.
* AddEvidence does not look at the status: evidence takes a lost or won dispute back to
  `under_review`. Its event carries the dispute with the status it had when it was read;
  event payloads are not modelled.
* `start` and `end` are integers and a period is `interval_count` units long (`step`), whatever
  the unit. `UpdateSubscription` stores any `interval_count`, zero and negative ones too, and a
  renewal then makes an empty period or one that runs backwards. `schema.md:237` says that
  `current_period_end` must be greater than `current_period_start`, and nothing enforces it.
  `PeriodInOrder` states what does hold: the order can only break after a count of zero or less
  was stored (`positive` remembers that none was), however renewals, updates and
  cancellations overwrite each other. Subscriptions start with a positive count, since
  `CreateSubscription` makes a count below 1 a one.
* `OnlyRacesLoseUpdates` says what a whole-row write does to the columns its operation is not
  about: it leaves them, or puts back what the job has read. A cancellation or renewal can
  be undone by a stale copy; a column never gets a value out of nowhere.

### Session

`now` is the clock; tokens live for whole units. A pair of tokens has one time of issue.
`req[r].at` follows the chain of `router.go`: the token is validated (`Call`), `exists`
(blacklist), role, `limit`, `handle`, `audit`. Each Redis call may fail with or without
effect, and then the code lets the request through. The rate limit is one step here, which
lets the request on or answers 429 whatever came before; its counting is `RateLimit`.

* A token is blacklisted for the rest of its life. Between the check of its signature and
  the EXISTS both may expire, so a request that starts in the last moment of a revoked token
  may be served; `LoggedOutIsRefused` states this exception and a failing Redis as the only
  ones.
* Refresh does not ask the blacklist and accepts any valid token of the user, also an access
  token or a revoked one: logging out one token does not end the session.
* A refresh token has no role, so `RequireRole` is what keeps it away from the handlers.
* The middleware looks for `user_id`, which the issued tokens do not carry (they have `sub`).
  GET and PUT `/users/me` and POST `/api-keys` therefore answer 400 (calls of kind `own`);
  `/auth/mfa/setup` is outside the protected group and answers 400 as well. Users with a
  secret are initial states.
* `ApiKeyService.Validate` has no caller in the server; it is the service's operation.
* The audit INSERT names columns `audit_logs` does not have: every request passes through
  `Audit` and none leaves a row, although `specs/001-helix-seller-platform/spec.md` asks for
  an audit trail of all actions.

### RateLimit

One client address. A unit of time is the window, a minute (`time.Now().Unix()/60`). `Ask`
makes the key from the time, `Incr` is the INCR and, unless the answer is 1, the decision;
`Expire` is the EXPIRE of the request that created the counter, with its decision. In between
other requests step, the minute turns (`Tick`), the server restarts. `Lapse` is Redis dropping
a key at some moment of the minute in which its two minutes are over. `IncrFails` is an error
of the INCR, with or without effect: the request passes uncounted. `passed` counts those a
counter let through, `orphan` remembers the windows whose counter lost its EXPIRE.

* `.env.example:43` ("requests per second per IP"), `deployment/environment-setup.md:187`
  ("Requests per second per IP") and `api/README.md:32` ("Default: 100 requests per second
  per merchant"), the latter two under `docs/public/research/mvp`, give `RATE_LIMIT_RPS` per
  second. The code grants that number per minute, a sixtieth of the documented rate, and per
  address. `LimitIsExact` is about the code's minute.
* The limit of a window holds to the end of the window after it. A request whose INCR is held
  up for longer meets a lapsed counter and starts it anew.
* A counter whose EXPIRE was lost stays in Redis for ever; its key is not used again.
* go-redis may repeat an INCR whose answer was lost, which counts one request twice, and Redis
  may evict keys under memory pressure: neither is modelled.

### Catalog

A behaviour is about one row, which may still have to be created. `copy` is the patched copy
an update carries from its SELECT to its UPDATE; for products the service reads the row a
second time in between (`Check`) and refuses archived ones.

* CreateMerchant never sets the slug. The unique index accepts one merchant with the empty
  slug and refuses every other (`InsertRefused`).
* CreateCustomer stores a NULL `external_id`, which `GetByID` and `ListByMerchant` cannot
  scan into a string: a customer made through the API cannot be read, listed or updated.
* CreateProvider leaves `Metadata` nil and is refused every time.
* UpdateProduct stores any text as the status; merchants and provider configurations have
  enum columns, which refuse one (`EnumRefuses`).

## Runs

| run | checks | instance |
|---|---|---|
| `payment` | `TypeOK`, `AtMostOneChargePerKey`, `SucceededMeansCharged`, `CleanRequestBalances`, `AnnouncedMeansStored`, `SettledRowsAreFinal`, `ImplementsPromise`, `EveryRequestEnds` | 2 requests, 1 key, 2 amounts, Stripe and PayPal methods, all factories |
| `payment_duplicate` | violates `DuplicateGetsFirstResult` | 2 requests |
| `payment_refund` | violates `RefundsWithinOriginal` | 2 requests, amounts 1 and 2 |
| `payment_refund_record` | violates `RefundsAreRecorded` | 2 requests |
| `taskqueue` | `TypeOK`, `OneWorkerPerTask`, `EffectsAreBounded`, `OutcomeIsJustified`, `OrphanNeedsFault`, `TerminalIsFinal`, `TasksSettle` | 2 tasks, 2 workers, 2 priorities, 3 retries, 2 failures |
| `task_stale` | violates `StaleLocksRecover` | as above, 1 failure |
| `webhook` | `TypeOK`, `RowTellsTheTruth`, `StuckNeedsFault`, `EveryMatchIsServed`, `SettledIsFinal`, `DeletedStaysDeleted`, `DeliveriesSettle` | 2 configurations, 1 call, 2 handlers, 2 tries, 1 failure |
| `webhook_order` | violates `OrderedPerSubscription` | 1 configuration, 2 calls, 2 event types |
| `billing` | `TypeOK`, `AnswerTellsTheTruth`, `EventsFollowTheStore`, `ReviewHasEvidence`, `DraftIsSentFirst`, `OnlyRacesLoseUpdates`, `PeriodInOrder`, `CancelledStays`, `PaidStays` | 2 jobs at a time, all four tables, interval counts -1, 0 and 1, horizon 1, symmetric jobs |
| `session` | `TypeOK`, `LoggedOutIsRefused`, `OnlyAccessTokensServed`, `RevokedKeyIsRefused` | 2 requests at a time, 1 token pair, lives 1 and 2, 2 ticks, symmetric requests |
| `rate_limit` | `LimitIsExact` | 3 requests at a time, limit 2, 3 requests a window, 3 windows, symmetric requests |
| `catalog` | `TypeOK`, `PriceIsPositive`, `OnlyRacesUnarchive`, `DeletedIsFinal` | 2 requests at a time, all five tables, prices -1 to 2, symmetric requests |

Why the bounds are enough. Payment requests interact only through one key and through the
row a refund names, and two requests are two rivals for a key, or a charge and its refund; the
theorems cover any number. A request has a fixed number of steps and needs no bound. In the queue, two workers are
what a race for one row needs, a second task lets one worker retry while the other claims,
three attempts have a first, a middle and a last. `MaxFailures` bounds crashes and failed
writes; two failures include a second one during the recovery from the first. Two
configurations show that one does not hold up the other, two handlers race an update with
a delete. `MaxRetries` is 5 in the code; the theorems about the queue hold for every value.
In `Billing`, `Session` and `Catalog` a slot is used again when its request is answered, so
two slots give any number of requests with two at work at a time, which is what a race over
one row or one token needs. A subscription is renewed while its period ends within `Horizon`
of the start, on either side; the counts are one below, at and above zero. Within two ticks an
access token and its refresh token expire, in this order. At the limiter three requests with
a limit of 2 are one that passes, the last that passes and one that does not, all at the same
time; three windows let a counter lapse while a request still holds its key. Symmetry is used
in `billing`, `session`, `rate_limit` and `catalog`, which check no liveness.

Every passing run checks deadlock (in `Billing`, `Session` and `Catalog` a new request can always come):
the stuttering actions `AllDone`, `Idle` and `Rest` are
enabled only where the program really has nothing left to do.

### Fairness

* Payment: weak fairness of each request's own step. A goroutine keeps running, statements
  return or fail, and the Stripe client gives up after 30 seconds. Arrival, disconnects and
  crashes are not fair.
* TaskQueue: weak fairness of each worker (a loop without exit) and of the clock. There are
  finitely many failures.
* Webhook: weak fairness of the loop of a call that runs and of each sending goroutine (the
  client has a 30 second timeout). Calls and handlers need not come, and failures are
  finitely many.
* Billing, Session, RateLimit and Catalog state no fairness: their properties are safety.

### What the violations show

* A client that repeats a request with the same key gets an error, not the first result,
  although the specification promises the cached result.
* Refunds are not compared with the original charge; with the mock adapter they exceed it.
* A refund returns the money and answers 500, because its row cannot be inserted, and the
  original does not show it either.
* A task that is `running` with no worker on it stays so; nothing reads `locked_at`. In TLC's
  trace the commit of the claim took effect but reported an error, and the worker went on
  polling. A restart while a task runs ends the same way.
* Two events of one subscription may arrive in either order.

## Proofs

The seven `...Proofs` modules are checked by TLAPS to the last leaf. Between them they state
every invariant and every action property that a passing run checks, and the refinement, for
every value of the constants that satisfies the modules' assumptions:

* the "no such value" constants (`NoRow`, `NoHook`, `NoUrl`, `Absent`, ...) differ from real
  values;
* `Payment`: amounts are positive, method names are among the known ones;
* `TaskQueue` and `Webhook`: `MaxRetries` is at least 1, event lists hold event types or `*`;
* `Billing`: interval counts are integers, negative ones included, and `Horizon` is a natural
  number;
* `Session`: tokens live for at least one unit of time;
* `RateLimit`: the limit and the bounds are natural numbers;
* `Catalog`: prices are integers and at least one of them is positive.

Each module proves that its `IndInv` (`AccessInv` in `Session`) holds
initially and is kept by every action, and derives the properties. TLC checked each of these
invariants on the instance of the module's run before it was proved. The type invariant of
`RateLimit` is part of its `IndInv` and has no run of its own.

**Payment.** None of the properties is inductive: that a key buys one charge needs to know
that whoever stands past `CheckAndSave` owns its key, and that a settled row is final needs
to know that a request about to write still has a pending row. `IndInv` is `TypeOK` and, for
each request, what is known at each of its calls: `BodyFits` (the body that leads there),
`RowFits` (its row), `HeldFits` (the transaction it holds), `ProviderFits` (what the
provider did for it) and `OwnsKey`. These five mention only one request, so the proof has a
frame lemma (a request whose state did not change keeps its invariant), one lemma per action
for the request that moves, and one for the crash, which moves all. `Refinement` maps
`keyOf` to the keys in the request bodies and `owner` to `idem`; steps of `Arrive`,
`CheckAndSave` and `Charge` become `Submit`, `Claim` and `Charge`, all others stutter.

**TaskQueue.** `OneWorkerPerTask` is inductive only with the relation between a worker's
place and its row: `WorkerFits` says that a lock implies a pending row and a claim implies a
running one, so no second worker can get to it, and ties the attempts the worker saw to
those in the row. `TaskFits` bounds attempts and effects by status and contains the orphan
property.

**Webhook.** The row, the goroutine that sends and the loop that started it are tied per
delivery: `SenderFits` relates the row's attempts and status to the goroutine's turn and to
what the endpoint saw, `LoopFits` says that a delivery is started once and only for a
configuration the call had to serve, `GoneFits` that a deleted configuration has no rows;
`CallFits` describes each call. `RowTellsTheTruth` alone is not inductive: a goroutine
between post and `UpdateStatus` knows an answer the row does not show yet. The lemmas
`RowSteps` and `HookSteps` say which steps change a row or a configuration, and give
`SettledIsFinal` and `DeletedStaysDeleted`.

**Billing.** `Books` says, for each statement a job can stand at, how many of its writes are
stored, whether its event is out, and that its operation belongs to the table. `Agrees`
relates a job to the row as it is now: at AddEvidence's second UPDATE the evidence is
there, whatever other jobs did since the first; a MarkPaid or MarkOverdue about to write has
read an invoice that was no draft, and none becomes a draft again. `WriteEntries`
(with what a job comes to a write) and `RowSteps` (what a write does) give the four action
properties. `PeriodInv` carries `PeriodInOrder`: with `positive` set the row and every copy in
a job's hands have a positive count and a period in order, so that a stale copy written back is
no worse than the row it replaces.

**Session.** `AccessInv` follows a request through the chain (`AccessFits`) and remembers the
past (`Remembered`): a logout carried out left a blacklist entry that lasts at least as long
as the token, a revoked key is inactive. This is where the lifetime of the blacklist entry
matters: an entry that ended before its token would break the invariant. Time and history
only go `Forward`, so what a request that came late knows stays true while it waits.

**RateLimit.** `LimitIsExact` is not inductive: the request that created a counter is decided
on the answer 1 it got long before. `CreatorFits` says that there is one such request at most,
that it was counted and that a place among the RPS is left for it; `PassedWereCounted` that a
counter is at least the number of those it let through, until the window after its own is
over; `ExpiryIsFarOff` that a counter ends two windows after its own at the earliest, which is
where the two minutes of the code are needed (with one, a late INCR would start the count
again); `WindowsHaveBegun` that no key is ahead of the clock.

**Catalog.** `RequestFits` says what the copy carried by an update is: it fits the table, its
price is positive once the service has checked it, and if the product is archived by now the
request counts as overtaken. The handler's copy may hold any price before that check, so
`PriceIsPositive` needs the distinction. `PatchFits` types the patches.

### Only model-checked

* `EveryRequestEnds`, `TasksSettle` and `DeliveriesSettle`: liveness under
  fairness is outside what TLAPS does here.
* The five violations, which are counterexamples.

## Plan

The tables, tokens, counters and tasks listed above are modelled and every safety property of
the runs is proved; the exchange-rate upsert and the websocket hub also change state and are
not modelled. What is left:

1. A run for the configuration in which `UpdateStatus` is refused (`typed` is FALSE), to show
   that no delivery ever settles there.
2. Shorter proofs: the frame arguments (a request whose state did not change keeps its part
   of the invariant) have the same form in all seven proof modules.
3. The websocket hub, once something in the server broadcasts.
4. Subscriptions and the payout and invoice tasks composed with `TaskQueue`, so that a retried
   task meets the row it has already changed.

## Not modelled

* Cryptography (JWT signatures, password hashes, TOTP, webhook signatures, encryption),
  SQL reports, HTTP parsing, metrics and logging, the migration command, the command line
  client, SDKs, front end and scripts: stateless, read-only, or clients of the API.
* The websocket hub: nothing in the server calls its broadcasts, so in the program it only
  adds and removes clients in one goroutine.
* `Subscribe` of the event bus has no caller, and the webhook ingress checks a signature and
  publishes: neither has state that a property could relate.
* The contents of events and answers, beyond whether they are sent and what kind they are.
