------------------------------ MODULE Webhook ------------------------------
(***************************************************************************)
(* Outgoing webhooks of one merchant: WebhookService (service/webhook.go)  *)
(* over webhook_configs and webhook_deliveries, and the handlers that      *)
(* change or delete a configuration meanwhile (handler/webhook.go).        *)
(*                                                                         *)
(* A call of Deliver lists the merchant's configurations once, then        *)
(* inserts a delivery row per active and matching one and starts a         *)
(* goroutine for it, which posts the event up to MaxRetries times and      *)
(* writes the outcome after every try; nobody looks at the error of that   *)
(* write.  Statements, posts and the two steps of each handler interleave, *)
(* and a restart loses every call, goroutine and handler in flight.        *)
(*                                                                         *)
(* A configuration is its is_active flag and its events; URL, secret,      *)
(* payload and response texts are left out, and the pauses between tries   *)
(* are the points where others step.  Configurations exist at the start:   *)
(* CreateWebhook leaves Metadata nil, which the table's NOT NULL refuses.  *)
(***************************************************************************)
EXTENDS Naturals, Sequences

CONSTANTS Hooks,       \* webhook configuration ids
          Calls,       \* calls of Deliver
          Admins,      \* update and delete requests
          Types,       \* event types
          EventLists,  \* values of the events column
          MaxRetries,  \* maxRetries (5 in the code)
          MaxFailures, \* bound on restarts and on failed writes to a row
          NoHook,      \* no configuration with this id
          NoRow        \* no delivery row with this id

Config == [state : {"active", "inactive"}, events : EventLists]
Row == [status : {"pending", "retrying", "delivered", "failed"}, attempts : 0..MaxRetries]

ASSUME WebhookAssumption ==
    /\ EventLists \subseteq SUBSET (Types \cup {"*"})
    /\ MaxRetries \in Nat \ {0}
    /\ MaxFailures \in Nat
    /\ NoHook \notin Config
    /\ NoRow \notin Row

\* The delivery of a call's event to a hook.
Deliveries == Calls \X Hooks

VARIABLES hook,      \* webhook_configs
          typed,     \* the connection string makes the driver send parameter types
          row,       \* webhook_deliveries
          call,      \* where each call of Deliver stands
          todo,      \* configurations its loop has still to serve
          sender,    \* where each goroutine stands
          tries,     \* posts a goroutine has made
          admin,     \* where each handler stands, and what it read
          wanted,    \* history: the configurations a call had to serve
          acks,      \* endpoint: posts it took
          inbox,     \* endpoint: events in the order it first took them
          earlier,   \* history: calls that had returned before this one began
          faults,    \* history: deliveries hit by a failure
          failures   \* history: how many failures there were

callers == <<call, todo, wanted, earlier>>
senders == <<sender, tries, acks, inbox>>
blame == <<faults, failures>>
vars == <<hook, typed, row, call, todo, sender, tries, admin, wanted, acks, inbox, earlier,
          faults, failures>>

Idle == [at |-> "idle"]
Done == [at |-> "done"]
Editing == [at : {"update", "delete"}, id : Hooks, read : Config]

TypeOK ==
    /\ hook \in [Hooks -> Config \cup {NoHook}]
    /\ typed \in BOOLEAN
    /\ row \in [Deliveries -> Row \cup {NoRow}]
    /\ call \in [Calls -> {"idle", "loop", "done"}]
    /\ todo \in [Calls -> SUBSET Hooks]
    /\ sender \in [Deliveries -> {"none", "send", "ok", "err", "end"}]
    /\ tries \in [Deliveries -> 0..MaxRetries]
    /\ admin \in [Admins -> Editing \cup {Idle, Done}]
    /\ wanted \in [Calls -> SUBSET Hooks]
    /\ acks \in [Deliveries -> 0..MaxRetries]
    /\ inbox \in [Hooks -> Seq(Calls)]
    /\ earlier \in [Calls -> SUBSET Calls]
    /\ faults \subseteq Deliveries
    /\ failures \in 0..MaxFailures

Init ==
    /\ hook \in [Hooks -> Config]
    /\ typed \in BOOLEAN
    /\ row = [d \in Deliveries |-> NoRow]
    /\ call = [c \in Calls |-> "idle"]
    /\ todo = [c \in Calls |-> {}]
    /\ sender = [d \in Deliveries |-> "none"]
    /\ tries = [d \in Deliveries |-> 0]
    /\ admin = [a \in Admins |-> Idle]
    /\ wanted = [c \in Calls |-> {}]
    /\ acks = [d \in Deliveries |-> 0]
    /\ inbox = [h \in Hooks |-> <<>>]
    /\ earlier = [c \in Calls |-> {}]
    /\ faults = {}
    /\ failures = 0

\* One more failure, which hits these deliveries.
Failure(ds) ==
    /\ failures < MaxFailures
    /\ failures' = failures + 1
    /\ faults' = faults \cup ds

-----------------------------------------------------------------------------
(* Deliver *)

eventMatches(events, type) == "*" \in events \/ type \in events

\* The configurations a call for this type has to serve.
Matching(type) ==
    {h \in Hooks : /\ hook[h] # NoHook
                   /\ hook[h].state = "active"
                   /\ eventMatches(hook[h].events, type)}

\* Up to the loop: ListByMerchant, or its error, which ends the call.
List(c) ==
    /\ call[c] = "idle"
    /\ earlier' = [earlier EXCEPT ![c] = {b \in Calls : call[b] = "done"}]
    /\ \/ \E type \in Types :
            /\ todo' = [todo EXCEPT ![c] = Matching(type)]
            /\ wanted' = [wanted EXCEPT ![c] = Matching(type)]
            /\ call' = [call EXCEPT ![c] = IF Matching(type) = {} THEN "done" ELSE "loop"]
       \/ /\ call' = [call EXCEPT ![c] = "done"]
          /\ UNCHANGED <<todo, wanted>>
    /\ UNCHANGED <<hook, typed, row, senders, admin, blame>>

NewRow == [status |-> "pending", attempts |-> 0]

\* The loop is done with h.
Served(c, h) ==
    /\ todo' = [todo EXCEPT ![c] = @ \ {h}]
    /\ call' = [call EXCEPT ![c] = IF todo[c] = {h} THEN "done" ELSE "loop"]

\* Mutant: the first row that cannot be inserted ends the loop.
CreateDelivery_ReturnsError(c, h) ==
    /\ h \in todo[c]
    /\ IF hook[h] # NoHook
       THEN /\ row' = [row EXCEPT ![<<c, h>>] = NewRow]
            /\ sender' = [sender EXCEPT ![<<c, h>>] = "send"]
            /\ Served(c, h)
       ELSE /\ UNCHANGED <<row, sender>>
            /\ todo' = [todo EXCEPT ![c] = {}]
            /\ call' = [call EXCEPT ![c] = "done"]
    /\ UNCHANGED <<hook, typed, tries, admin, wanted, acks, inbox, earlier, blame>>

\* One turn of the loop.  A configuration deleted since the list fails the
\* foreign key; a failed insert is logged and the loop goes on.
CreateDelivery(c, h) ==
    /\ h \in todo[c]
    /\ LET d == <<c, h>> IN
        \/ /\ hook[h] # NoHook
           /\ row' = [row EXCEPT ![d] = NewRow]
           /\ sender' = [sender EXCEPT ![d] = "send"]
           /\ UNCHANGED blame
        \/ /\ hook[h] = NoHook
           /\ UNCHANGED <<row, sender, blame>>
        \/ /\ Failure({d})
           /\ row' \in {row} \cup (IF hook[h] = NoHook THEN {} ELSE {[row EXCEPT ![d] = NewRow]})
           /\ UNCHANGED sender
    /\ Served(c, h)
    /\ UNCHANGED <<hook, typed, tries, admin, wanted, acks, inbox, earlier>>

-----------------------------------------------------------------------------
(* sendWithRetry *)

\* The endpoint takes the post (again).
Taken(d) ==
    /\ acks' = [acks EXCEPT ![d] = @ + 1]
    /\ inbox' = [inbox EXCEPT ![d[2]] = IF acks[d] = 0 THEN Append(@, d[1]) ELSE @]

\* Mutant: every answer counts as success.
Send_AnyAnswer(d) ==
    /\ sender[d] = "send"
    /\ tries' = [tries EXCEPT ![d] = @ + 1]
    /\ sender' = [sender EXCEPT ![d] = "ok"]
    /\ Taken(d) \/ UNCHANGED <<acks, inbox>>
    /\ UNCHANGED <<hook, typed, row, callers, admin, blame>>

\* s.send: a 2xx answer; a post that was refused, answered otherwise or
\* never arrived; a post that was taken although its answer was lost.
Send(d) ==
    /\ sender[d] = "send"
    /\ tries' = [tries EXCEPT ![d] = @ + 1]
    /\ \/ /\ sender' = [sender EXCEPT ![d] = "ok"]
          /\ Taken(d)
       \/ /\ sender' = [sender EXCEPT ![d] = "err"]
          /\ Taken(d) \/ UNCHANGED <<acks, inbox>>
    /\ UNCHANGED <<hook, typed, row, callers, admin, blame>>

\* Mutant: > for >= in the loop's bound.
LastTry_OffByOne(d) == tries[d] > MaxRetries

\* i == maxRetries-1
LastTry(d) == tries[d] >= MaxRetries

NewStatus(d) == IF sender[d] = "ok" THEN "delivered"
                ELSE IF LastTry(d) THEN "failed" ELSE "retrying"

\* UpdateStatus: no row, no effect.  The statement uses $2 both as the
\* varchar status and as a text; left to deduce its type, the server refuses
\* it.
Updated(d) ==
    IF row[d] = NoRow \/ ~ typed THEN row
    ELSE [row EXCEPT ![d] = [status |-> NewStatus(d), attempts |-> @.attempts + 1]]

\* Mutant: no return after the first success.
AfterTry_NoReturn(d) == IF LastTry(d) THEN "end" ELSE "send"

\* Mutant: return instead of the next turn of the loop.
AfterTry_GivesUp(d) == "end"

\* Return after a success or the last try, else sleep and try again.
AfterTry(d) == IF sender[d] = "ok" \/ LastTry(d) THEN "end" ELSE "send"

\* Mutant: a successful try returns before it is recorded.
Record_OnlyErrors(d) ==
    /\ sender[d] \in {"ok", "err"}
    /\ row' = IF sender[d] = "ok" THEN row ELSE Updated(d)
    /\ sender' = [sender EXCEPT ![d] = AfterTry(d)]
    /\ UNCHANGED <<hook, typed, callers, tries, admin, acks, inbox, blame>>

\* The write after a try; its error is dropped.
Record(d) ==
    /\ sender[d] \in {"ok", "err"}
    /\ \/ /\ row' = Updated(d)
          /\ faults' = IF typed THEN faults ELSE faults \cup {d}
          /\ UNCHANGED failures
       \/ /\ row' \in {row, Updated(d)}
          /\ Failure({d})
    /\ sender' = [sender EXCEPT ![d] = AfterTry(d)]
    /\ UNCHANGED <<hook, typed, callers, tries, admin, acks, inbox>>

-----------------------------------------------------------------------------
(* UpdateWebhook and DeleteWebhook read the configuration, then write. *)

Read(a, h) ==
    /\ admin[a] = Idle
    /\ IF hook[h] = NoHook
       THEN admin' = [admin EXCEPT ![a] = Done]
       ELSE \E op \in {"update", "delete"} :
                admin' = [admin EXCEPT ![a] = [at |-> op, id |-> h, read |-> hook[h]]]
    /\ UNCHANGED <<hook, typed, row, callers, senders, blame>>

\* The configuration read, with the fields the request carries in place of
\* its own.
Edited(read) == {[state |-> s, events |-> es] : s \in {read.state, "active", "inactive"},
                                                es \in {read.events} \cup EventLists}

\* Mutant: the update is an upsert.
Update_Upsert(a) ==
    /\ admin[a].at = "update"
    /\ \E new \in Edited(admin[a].read) : hook' = [hook EXCEPT ![admin[a].id] = new]
    /\ admin' = [admin EXCEPT ![a] = Done]
    /\ UNCHANGED <<typed, row, callers, senders, blame>>

\* UPDATE ... WHERE id = $1 writes all columns, or finds no row.
Update(a) ==
    /\ admin[a].at = "update"
    /\ LET h == admin[a].id IN
        \E new \in Edited(admin[a].read) :
            hook' = IF hook[h] = NoHook THEN hook ELSE [hook EXCEPT ![h] = new]
    /\ admin' = [admin EXCEPT ![a] = Done]
    /\ UNCHANGED <<typed, row, callers, senders, blame>>

\* DELETE cascades to the delivery rows; the goroutines know nothing of it.
Delete(a) ==
    /\ admin[a].at = "delete"
    /\ LET h == admin[a].id IN
        /\ hook' = [hook EXCEPT ![h] = NoHook]
        /\ row' = [d \in Deliveries |-> IF d[2] = h THEN NoRow ELSE row[d]]
    /\ admin' = [admin EXCEPT ![a] = Done]
    /\ UNCHANGED <<typed, callers, senders, blame>>

\* A statement of the handler fails: it answers 404 or 500.
AdminFails(a) ==
    /\ admin[a].at \in {"update", "delete"}
    /\ admin' = [admin EXCEPT ![a] = Done]
    /\ UNCHANGED <<hook, typed, row, callers, senders, blame>>

-----------------------------------------------------------------------------

Sending(d) == sender[d] \in {"send", "ok", "err"}

\* The process dies or is stopped; nothing resumes a delivery afterwards.
Crash ==
    /\ \/ \E c \in Calls : call[c] = "loop"
       \/ \E d \in Deliveries : Sending(d)
       \/ \E a \in Admins : admin[a].at \in {"update", "delete"}
    /\ Failure({d \in Deliveries : Sending(d) \/ d[2] \in todo[d[1]]})
    /\ sender' = [d \in Deliveries |-> IF Sending(d) THEN "end" ELSE sender[d]]
    /\ call' = [c \in Calls |-> IF call[c] = "loop" THEN "done" ELSE call[c]]
    /\ todo' = [c \in Calls |-> {}]
    /\ admin' = [a \in Admins |-> IF admin[a] = Idle THEN Idle ELSE Done]
    /\ UNCHANGED <<hook, typed, row, tries, wanted, acks, inbox, earlier>>

CallStep(c) == \E h \in Hooks : CreateDelivery(c, h)
SenderStep(d) == Send(d) \/ Record(d)

\* Nothing is left to do.
Rest == /\ \A c \in Calls : call[c] = "done"
        /\ \A d \in Deliveries : ~ Sending(d)
        /\ \A a \in Admins : admin[a] = Done
        /\ UNCHANGED vars

Next == \/ \E c \in Calls : List(c) \/ CallStep(c)
        \/ \E d \in Deliveries : SenderStep(d)
        \/ \E a \in Admins : \/ \E h \in Hooks : Read(a, h)
                             \/ Update(a) \/ Delete(a) \/ AdminFails(a)
        \/ Crash
        \/ Rest

Spec == Init /\ [][Next]_vars

\* A running call and its goroutines keep going: statements return and a
\* post ends after the client's 30 seconds.  Handlers need not come.
FairSpec == /\ Spec
            /\ \A c \in Calls : WF_vars(CallStep(c))
            /\ \A d \in Deliveries : WF_vars(SenderStep(d))

-----------------------------------------------------------------------------
(* Properties *)

Settled(d) == row[d] # NoRow /\ row[d].status \in {"delivered", "failed"}

\* The row tells the truth about the endpoint: "delivered" only if it took a
\* post, "failed" only after all MaxRetries posts, and never more attempts
\* than posts; without a failure the attempts are exactly the posts recorded.
RowTellsTheTruth ==
    \A d \in Deliveries : row[d] # NoRow =>
        /\ row[d].status = "delivered" => acks[d] > 0
        /\ row[d].status = "failed" => tries[d] = MaxRetries
        /\ row[d].attempts <= tries[d]
        /\ Settled(d) /\ d \notin faults => row[d].attempts = tries[d]

\* A row still pending or retrying has a goroutine at work, unless a restart
\* or a failed write hit it: the retry loop itself abandons nothing.
StuckNeedsFault ==
    \A d \in Deliveries :
        row[d] # NoRow /\ ~ Settled(d) /\ ~ Sending(d) => d \in faults

\* One configuration's trouble is not another's: when a call is over, every
\* configuration it had to serve has a delivery row, unless that very row
\* met a failure or its configuration was deleted meanwhile; and no other
\* configuration has one.
EveryMatchIsServed ==
    \A d \in Deliveries : LET c == d[1] h == d[2] IN
        /\ call[c] = "done" /\ h \in wanted[c] =>
                row[d] # NoRow \/ d \in faults \/ hook[h] = NoHook
        /\ row[d] # NoRow => h \in wanted[c]

\* A settled row changes no more, except that it is deleted with its hook.
SettledIsFinal ==
    [][\A d \in Deliveries : Settled(d) => row'[d] = row[d] \/ hook'[d[2]] = NoHook]_vars

\* Deleted means deleted: neither an update that read the configuration
\* earlier nor a call that listed it nor a goroutine still sending brings the
\* configuration or a row of it back.
DeletedStaysDeleted ==
    [][\A h \in Hooks : hook[h] = NoHook =>
            hook'[h] = NoHook /\ \A c \in Calls : row'[<<c, h>>] = NoRow]_vars

\* Every delivery row ends delivered or failed, unless it is deleted or hit
\* by a failure.
DeliveriesSettle ==
    \A d \in Deliveries :
        row[d] # NoRow ~> Settled(d) \/ row[d] = NoRow \/ d \in faults

\* What ADR-002 says of outgoing webhooks: they are ordered per subscription.
\* If one call had returned before another began, an endpoint that takes both
\* events takes them in that order.
OrderedPerSubscription ==
    \A h \in Hooks : \A i, j \in DOMAIN inbox[h] :
        i < j => inbox[h][j] \notin earlier[inbox[h][i]]
=============================================================================
