--------------------------- MODULE WebhookProofs ---------------------------
(***************************************************************************)
(* Proofs about Webhook, for any number of configurations, calls, handlers *)
(* and retries.  What a delivery row may say depends on where its          *)
(* goroutine stands (SenderFits), and that a goroutine is started once and *)
(* for a configuration its call had to serve depends on the loop           *)
(* (LoopFits, CallFits).  Both need that the rows of a deleted             *)
(* configuration are gone (GoneFits).                                      *)
(***************************************************************************)
EXTENDS Webhook, TLAPS

\* The row of a delivery and its goroutine: a goroutine that is to post has
\* a try left, one that has posted has a try to record, and only a failure
\* makes row and goroutine disagree.
SenderFits(d) ==
    /\ acks[d] <= tries[d]
    /\ sender[d] = "none" => tries[d] = 0
    /\ sender[d] = "send" => tries[d] < MaxRetries
    /\ sender[d] \in {"ok", "err"} => tries[d] > 0
    /\ sender[d] = "ok" => acks[d] > 0
    /\ row[d] # NoRow =>
        /\ row[d].status = "delivered" => acks[d] > 0
        /\ row[d].status = "failed" => tries[d] = MaxRetries
        /\ row[d].attempts <= tries[d]
        /\ Settled(d) => sender[d] = "end"
        /\ sender[d] \in {"ok", "err"} => row[d].attempts < tries[d]
        /\ d \notin faults =>
            /\ sender[d] \in {"send", "ok", "err"} \/ Settled(d)
            /\ row[d].attempts = IF sender[d] \in {"ok", "err"} THEN tries[d] - 1 ELSE tries[d]

\* The delivery in its call's loop: it is started at most once, and the loop
\* is not over before it was started, hit by a failure or deleted.
LoopFits(d) ==
    /\ call[d[1]] = "idle" \/ d[2] \in todo[d[1]] => sender[d] = "none" /\ row[d] = NoRow
    /\ row[d] # NoRow => d[2] \in wanted[d[1]]
    /\ d[2] \in wanted[d[1]] =>
            d[2] \in todo[d[1]] \/ row[d] # NoRow \/ d \in faults \/ hook[d[2]] = NoHook

\* A deleted configuration has no rows.
GoneFits(d) == hook[d[2]] = NoHook => row[d] = NoRow

\* The loop of a call.
CallFits(c) ==
    /\ todo[c] \subseteq wanted[c]
    /\ call[c] # "loop" => todo[c] = {}
    /\ call[c] = "idle" => wanted[c] = {}

IndInv ==
    /\ TypeOK
    /\ \A d \in Deliveries : SenderFits(d) /\ LoopFits(d) /\ GoneFits(d)
    /\ \A c \in Calls : CallFits(c)

-----------------------------------------------------------------------------

\* A delivery is a call and a configuration.
LEMMA Pairs ==
    /\ \A d \in Deliveries : d[1] \in Calls /\ d[2] \in Hooks /\ d = <<d[1], d[2]>>
    /\ \A c \in Calls, h \in Hooks : <<c, h>> \in Deliveries
  BY DEF Deliveries

\* The initial states: nothing has been listed, inserted or posted.
LEMMA InitIndInv == Init => IndInv
<1> SUFFICES ASSUME Init PROVE IndInv
  OBVIOUS
<1> USE WebhookAssumption DEF Init
<1>1. TypeOK
  BY DEF TypeOK
<1>2. ASSUME NEW d \in Deliveries PROVE SenderFits(d) /\ LoopFits(d) /\ GoneFits(d)
  BY Pairs DEF SenderFits, LoopFits, GoneFits, Config
<1>3. ASSUME NEW c \in Calls PROVE CallFits(c)
  BY DEF CallFits
<1> QED
  BY <1>1, <1>2, <1>3 DEF IndInv

\* List gives a call its loop.
LEMMA ListStep ==
    ASSUME IndInv, NEW c \in Calls, List(c)
    PROVE  IndInv'
<1> USE WebhookAssumption, Pairs DEF IndInv, List, senders, blame
<1>1. TypeOK'
  <2>1. /\ call' \in [Calls -> {"idle", "loop", "done"}]
        /\ earlier' \in [Calls -> SUBSET Calls]
    BY DEF TypeOK
  <2>2. todo' \in [Calls -> SUBSET Hooks] /\ wanted' \in [Calls -> SUBSET Hooks]
    <3>1. todo \in [Calls -> SUBSET Hooks] /\ wanted \in [Calls -> SUBSET Hooks]
      BY DEF TypeOK
    <3>2. \A type \in Types : Matching(type) \in SUBSET Hooks
      BY DEF Matching
    <3> QED
      BY <3>1, <3>2
  <2> QED
    BY <2>1, <2>2 DEF TypeOK
<1>2. ASSUME NEW d \in Deliveries PROVE SenderFits(d)'
  BY DEF TypeOK, SenderFits, Settled
<1>3. ASSUME NEW d \in Deliveries PROVE LoopFits(d)'
  BY DEF TypeOK, LoopFits, CallFits, Matching
<1>4. ASSUME NEW d \in Deliveries PROVE GoneFits(d)'
  BY DEF GoneFits
<1>5. ASSUME NEW b \in Calls PROVE CallFits(b)'
  <2>1. CASE b = c
    BY <2>1 DEF TypeOK, CallFits
  <2>2. CASE b # c
    BY <2>2 DEF TypeOK, CallFits
  <2> QED
    BY <2>1, <2>2
<1> QED
  BY <1>1, <1>2, <1>3, <1>4, <1>5

\* One turn of the loop starts at most the goroutine of its delivery.
LEMMA CreateDeliveryStep ==
    ASSUME IndInv, NEW c \in Calls, NEW h \in Hooks, CreateDelivery(c, h)
    PROVE  IndInv'
<1> DEFINE e == <<c, h>>
<1> USE WebhookAssumption, Pairs DEF IndInv, blame
<1>1. /\ h \in todo[c] /\ e \in Deliveries /\ e[1] = c /\ e[2] = h
      /\ sender[e] = "none" /\ row[e] = NoRow /\ call[c] = "loop"
  BY DEF CreateDelivery, LoopFits, CallFits, TypeOK
<1>2. /\ todo' = [todo EXCEPT ![c] = @ \ {h}]
      /\ call' = [call EXCEPT ![c] = IF todo[c] = {h} THEN "done" ELSE "loop"]
      /\ UNCHANGED <<hook, typed, tries, admin, wanted, acks, inbox, earlier>>
  BY DEF CreateDelivery, Served
<1>3. /\ \/ row' = [row EXCEPT ![e] = NewRow] /\ hook[h] # NoHook
         \/ row' = row /\ (hook[h] = NoHook \/ e \in faults')
      /\ \/ sender' = [sender EXCEPT ![e] = "send"] /\ row'[e] # NoRow /\ UNCHANGED blame
         \/ sender' = sender /\ (row'[e] = NoRow \/ e \in faults')
      /\ faults' \in {faults, faults \cup {e}}
      /\ failures' \in 0..MaxFailures
  BY <1>1 DEF CreateDelivery, Failure, TypeOK, NewRow, Row
<1> HIDE DEF e
<1>4. NewRow \in Row /\ NewRow # NoRow
  BY DEF NewRow, Row
<1>5. TypeOK'
  <2>1. row' \in [Deliveries -> Row \cup {NoRow}]
    <3>1. row \in [Deliveries -> Row \cup {NoRow}]
      BY DEF TypeOK
    <3>2. [row EXCEPT ![e] = NewRow] \in [Deliveries -> Row \cup {NoRow}]
      BY <1>4, <3>1
    <3> QED
      BY <1>3, <3>1, <3>2
  <2>2. /\ sender' \in [Deliveries -> {"none", "send", "ok", "err", "end"}]
        /\ faults' \subseteq Deliveries
    BY <1>1, <1>3 DEF TypeOK
  <2>3. /\ todo' \in [Calls -> SUBSET Hooks]
        /\ call' \in [Calls -> {"idle", "loop", "done"}]
    BY <1>2 DEF TypeOK
  <2> QED
    BY <1>2, <1>3, <2>1, <2>2, <2>3 DEF TypeOK
<1>6. ASSUME NEW d \in Deliveries PROVE SenderFits(d)' /\ LoopFits(d)' /\ GoneFits(d)'
  <2>1. CASE d = e
    <3>1. SenderFits(e)'
      BY <1>1, <1>2, <1>3, <1>4 DEF TypeOK, SenderFits, Settled, NewRow
    <3>2. LoopFits(e)' /\ GoneFits(e)'
      BY <1>1, <1>2, <1>3, <1>4 DEF TypeOK, LoopFits, GoneFits, CallFits
    <3> QED
      BY <2>1, <3>1, <3>2
  <2>2. CASE d # e
    <3>1. /\ row'[d] = row[d] /\ sender'[d] = sender[d] /\ (d \in faults' <=> d \in faults)
      BY <1>1, <1>3, <2>2 DEF TypeOK
    <3>2. /\ d[2] \in todo'[d[1]] <=> d[2] \in todo[d[1]]
          /\ call'[d[1]] = "idle" <=> call[d[1]] = "idle"
      BY <1>1, <1>2, <2>2 DEF TypeOK, e
    <3>3. SenderFits(d)'
      BY <1>2, <3>1 DEF SenderFits, Settled
    <3>4. LoopFits(d)' /\ GoneFits(d)'
      BY <1>2, <3>1, <3>2 DEF LoopFits, GoneFits
    <3> QED
      BY <3>3, <3>4
  <2> QED
    BY <2>1, <2>2
<1>7. ASSUME NEW b \in Calls PROVE CallFits(b)'
  BY <1>1, <1>2 DEF TypeOK, CallFits
<1> QED
  BY <1>5, <1>6, <1>7

\* A post is counted, and the goroutine turns to recording it.
LEMMA SendStep ==
    ASSUME IndInv, NEW e \in Deliveries, Send(e)
    PROVE  IndInv'
<1> USE WebhookAssumption, Pairs DEF IndInv, callers, blame
<1>1. /\ sender[e] = "send" /\ tries[e] \in 0..MaxRetries /\ acks[e] \in 0..MaxRetries
      /\ tries[e] < MaxRetries /\ acks[e] <= tries[e]
  BY DEF Send, SenderFits, TypeOK
<1>2. /\ tries' = [tries EXCEPT ![e] = @ + 1]
      /\ UNCHANGED <<hook, typed, row, call, todo, wanted, earlier, admin, faults, failures>>
  BY DEF Send
<1>3. /\ acks' \in {acks, [acks EXCEPT ![e] = @ + 1]}
      /\ \/ sender' = [sender EXCEPT ![e] = "ok"] /\ acks' = [acks EXCEPT ![e] = @ + 1]
         \/ sender' = [sender EXCEPT ![e] = "err"]
  BY DEF Send, Taken
<1>4. TypeOK'
  <2>1. tries' \in [Deliveries -> 0..MaxRetries] /\ acks' \in [Deliveries -> 0..MaxRetries]
    <3>1. tries \in [Deliveries -> 0..MaxRetries] /\ acks \in [Deliveries -> 0..MaxRetries]
      BY DEF TypeOK
    <3>2. tries[e] + 1 \in 0..MaxRetries /\ acks[e] + 1 \in 0..MaxRetries
      BY <1>1
    <3> QED
      BY <1>2, <1>3, <3>1, <3>2
  <2>2. sender' \in [Deliveries -> {"none", "send", "ok", "err", "end"}]
    BY <1>3 DEF TypeOK
  <2>3. inbox' \in [Hooks -> Seq(Calls)]
    <3>1. inbox \in [Hooks -> Seq(Calls)]
      BY DEF TypeOK
    <3>2. Append(inbox[e[2]], e[1]) \in Seq(Calls)
      BY <3>1
    <3> QED
      BY <3>1, <3>2 DEF Send, Taken
  <2> QED
    BY <1>2, <2>1, <2>2, <2>3 DEF TypeOK
<1>5. ASSUME NEW d \in Deliveries PROVE SenderFits(d)'
  <2>1. CASE d = e
    <3>1. tries'[e] = tries[e] + 1 /\ acks'[e] \in {acks[e], acks[e] + 1}
      BY <1>2, <1>3 DEF TypeOK
    <3>2. sender'[e] \in {"ok", "err"} /\ (sender'[e] = "ok" => acks'[e] = acks[e] + 1)
      BY <1>3 DEF TypeOK
    <3>3. row[e] # NoRow =>
            /\ row[e].attempts \in 0..MaxRetries /\ row[e].attempts <= tries[e]
            /\ ~ Settled(e)
            /\ e \notin faults => row[e].attempts = tries[e]
      BY <1>1 DEF SenderFits, TypeOK, Row
    <3>4. (Settled(e) <=> Settled(e)') /\ row'[e] = row[e]
      BY <1>2 DEF Settled
    <3> QED
      BY <1>1, <1>2, <2>1, <3>1, <3>2, <3>3, <3>4 DEF SenderFits, Settled
  <2>2. CASE d # e
    <3>1. tries'[d] = tries[d] /\ acks'[d] = acks[d] /\ sender'[d] = sender[d]
      BY <1>2, <1>3, <2>2 DEF TypeOK
    <3> QED
      BY <1>2, <3>1 DEF SenderFits, Settled
  <2> QED
    BY <2>1, <2>2
<1>6. ASSUME NEW d \in Deliveries PROVE LoopFits(d)'
  <2>1. d = e => call[d[1]] # "idle" /\ d[2] \notin todo[d[1]]
    BY <1>1 DEF LoopFits
  <2>2. d # e => sender'[d] = sender[d]
    BY <1>3 DEF TypeOK
  <2> QED
    BY <1>2, <2>1, <2>2 DEF LoopFits
<1>7. ASSUME NEW d \in Deliveries PROVE GoneFits(d)'
  BY <1>2 DEF GoneFits
<1>8. ASSUME NEW c \in Calls PROVE CallFits(c)'
  BY <1>2 DEF CallFits
<1> QED
  BY <1>4, <1>5, <1>6, <1>7, <1>8

\* The try is recorded, or a failure or a refused statement is to blame.
LEMMA RecordStep ==
    ASSUME IndInv, NEW e \in Deliveries, Record(e)
    PROVE  IndInv'
<1> USE WebhookAssumption, Pairs DEF IndInv, callers
<1>1. /\ sender[e] \in {"ok", "err"} /\ tries[e] \in 1..MaxRetries
      /\ sender[e] = "ok" => acks[e] > 0
  BY DEF Record, SenderFits, TypeOK
<1>2. /\ sender' = [sender EXCEPT ![e] = AfterTry(e)]
      /\ UNCHANGED <<hook, typed, call, todo, wanted, earlier, tries, admin, acks, inbox>>
  BY DEF Record
<1>3. /\ row' \in {row, Updated(e)}
      /\ faults' \in {faults, faults \cup {e}}
      /\ e \notin faults' => typed /\ row' = Updated(e)
      /\ failures' \in 0..MaxFailures
  BY DEF Record, Failure, TypeOK
<1> DEFINE new == [status |-> NewStatus(e), attempts |-> row[e].attempts + 1]
<1>4. row[e] # NoRow => /\ new \in Row /\ new # NoRow /\ ~ Settled(e)
                        /\ row[e].attempts \in Nat /\ row[e].attempts < tries[e]
                        /\ new.attempts = row[e].attempts + 1
                        /\ new.status = NewStatus(e)
  BY <1>1 DEF SenderFits, TypeOK, Row, NewStatus
<1>5. row' \in {row, [row EXCEPT ![e] = new]} /\ (row[e] = NoRow => row' = row)
  BY <1>3 DEF Updated
<1>6. row[e] # NoRow /\ typed => Updated(e) = [row EXCEPT ![e] = new]
  BY DEF Updated
<1> HIDE DEF new
<1>7. TypeOK'
  <2>1. row' \in [Deliveries -> Row \cup {NoRow}]
    <3>1. row \in [Deliveries -> Row \cup {NoRow}]
      BY DEF TypeOK
    <3>2. row[e] # NoRow => [row EXCEPT ![e] = new] \in [Deliveries -> Row \cup {NoRow}]
      BY <1>4, <3>1
    <3> QED
      BY <1>5, <3>1, <3>2
  <2>2. /\ sender' \in [Deliveries -> {"none", "send", "ok", "err", "end"}]
        /\ faults' \subseteq Deliveries
    BY <1>2, <1>3 DEF TypeOK, AfterTry
  <2> QED
    BY <1>2, <1>3, <2>1, <2>2 DEF TypeOK
<1>8. ASSUME NEW d \in Deliveries PROVE SenderFits(d)'
  <2>1. CASE d = e
    <3>1. sender'[e] = IF sender[e] = "ok" \/ tries[e] = MaxRetries THEN "end" ELSE "send"
      BY <1>1, <1>2 DEF TypeOK, AfterTry, LastTry
    <3>2. row'[e] = row[e] \/ (row[e] # NoRow /\ row'[e] = new)
      BY <1>5 DEF TypeOK
    <3>3. row[e] # NoRow /\ e \notin faults' => row'[e] = new
      BY <1>3, <1>6 DEF TypeOK
    <3>4. NewStatus(e) = IF sender[e] = "ok" THEN "delivered"
                         ELSE IF tries[e] = MaxRetries THEN "failed" ELSE "retrying"
      BY <1>1 DEF NewStatus, LastTry
    <3>5. /\ row'[e] # NoRow => row[e] # NoRow
          /\ row'[e] = row[e] => ~ Settled(e)'
      BY <1>4, <3>2 DEF Settled
    <3>6. e \notin faults' => e \notin faults
      BY <1>3
    <3>7. acks[e] <= tries[e] /\ acks[e] \in Nat
      BY DEF SenderFits, TypeOK
    <3>8. row[e] # NoRow /\ e \notin faults => row[e].attempts = tries[e] - 1
      BY <1>1 DEF SenderFits
    <3>9. ASSUME row'[e] # NoRow, row'[e] = new PROVE SenderFits(e)'
      BY <1>1, <1>2, <1>4, <3>1, <3>4, <3>5, <3>6, <3>7, <3>8, <3>9 DEF SenderFits, Settled
    <3>10. ASSUME row'[e] = row[e], row[e] # NoRow => row[e] # new PROVE SenderFits(e)'
      BY <1>1, <1>2, <1>4, <3>1, <3>3, <3>5, <3>7, <3>10 DEF SenderFits, Settled
    <3> QED
      BY <1>4, <2>1, <3>2, <3>9, <3>10
  <2>2. CASE d # e
    <3>1. row'[d] = row[d] /\ sender'[d] = sender[d] /\ (d \in faults' <=> d \in faults)
      BY <1>2, <1>3, <1>5, <2>2 DEF TypeOK
    <3> QED
      BY <1>2, <3>1 DEF SenderFits, Settled
  <2> QED
    BY <2>1, <2>2
<1>9. ASSUME NEW d \in Deliveries PROVE LoopFits(d)' /\ GoneFits(d)'
  <2>1. d = e => call[d[1]] # "idle" /\ d[2] \notin todo[d[1]]
    BY <1>1 DEF LoopFits
  <2>2. d # e => sender'[d] = sender[d] /\ row'[d] = row[d] /\ (d \in faults' <=> d \in faults)
    BY <1>2, <1>3, <1>5 DEF TypeOK
  <2>3. d = e => (row'[d] # NoRow <=> row[d] # NoRow) /\ (d \in faults => d \in faults')
    BY <1>3, <1>4, <1>5 DEF TypeOK
  <2> QED
    BY <1>2, <2>1, <2>2, <2>3 DEF LoopFits, GoneFits
<1>10. ASSUME NEW c \in Calls PROVE CallFits(c)'
  BY <1>2 DEF CallFits
<1> QED
  BY <1>7, <1>8, <1>9, <1>10

\* What a handler leaves alone: the calls and their goroutines.
LEMMA AdminLeaves ==
    ASSUME IndInv, UNCHANGED <<typed, call, todo, wanted, earlier, sender, tries, acks, inbox,
                               faults, failures>>,
           hook' \in [Hooks -> Config \cup {NoHook}], row' \in [Deliveries -> Row \cup {NoRow}],
           admin' \in [Admins -> Editing \cup {Idle, Done}],
           \A h \in Hooks : hook[h] = NoHook => hook'[h] = NoHook,
           \A d \in Deliveries : row'[d] = row[d] \/ (row'[d] = NoRow /\ hook'[d[2]] = NoHook),
           \A d \in Deliveries : hook'[d[2]] = NoHook => row'[d] = NoRow
    PROVE  IndInv'
<1> USE Pairs DEF IndInv
<1>1. TypeOK'
  BY DEF TypeOK
<1>2. ASSUME NEW d \in Deliveries PROVE SenderFits(d)'
  BY DEF SenderFits, Settled
<1>3. ASSUME NEW d \in Deliveries PROVE LoopFits(d)' /\ GoneFits(d)'
  BY DEF LoopFits, GoneFits
<1>4. ASSUME NEW c \in Calls PROVE CallFits(c)'
  BY DEF CallFits
<1> QED
  BY <1>1, <1>2, <1>3, <1>4

\* The two steps of a handler, and its failure.
LEMMA AdminStep ==
    ASSUME IndInv, NEW a \in Admins,
           \/ \E h \in Hooks : Read(a, h)
           \/ Update(a) \/ Delete(a) \/ AdminFails(a)
    PROVE  IndInv'
<1> USE DEF IndInv, callers, senders, blame
<1>1. /\ hook \in [Hooks -> Config \cup {NoHook}] /\ row \in [Deliveries -> Row \cup {NoRow}]
      /\ admin \in [Admins -> Editing \cup {Idle, Done}]
      /\ \A d \in Deliveries : hook[d[2]] = NoHook => row[d] = NoRow
  BY DEF TypeOK, GoneFits
<1>2. [admin EXCEPT ![a] = Done] \in [Admins -> Editing \cup {Idle, Done}]
  BY <1>1
<1>3. ASSUME NEW h \in Hooks, Read(a, h) PROVE IndInv'
  <2>1. hook[h] # NoHook => hook[h] \in Config
    BY <1>1
  <2>2. ASSUME NEW op \in {"update", "delete"}, hook[h] # NoHook
        PROVE  [admin EXCEPT ![a] = [at |-> op, id |-> h, read |-> hook[h]]]
                    \in [Admins -> Editing \cup {Idle, Done}]
    <3>1. [at |-> op, id |-> h, read |-> hook[h]] \in Editing
      BY <2>1, <2>2 DEF Editing
    <3> QED
      BY <1>1, <3>1
  <2>3. admin' \in [Admins -> Editing \cup {Idle, Done}]
    BY <1>2, <1>3, <2>2 DEF Read
  <2> QED
    BY <1>1, <1>3, <2>3, AdminLeaves DEF Read
<1>4. ASSUME admin[a].at \in {"update", "delete"}
      PROVE  admin[a] \in Editing /\ admin[a].id \in Hooks /\ admin[a].read \in Config
  BY <1>1, <1>4 DEF Editing, Idle, Done
<1>5. ASSUME Update(a) PROVE IndInv'
  <2>1. PICK new \in Edited(admin[a].read) :
            hook' = IF hook[admin[a].id] = NoHook THEN hook
                    ELSE [hook EXCEPT ![admin[a].id] = new]
    BY <1>5 DEF Update
  <2>2. admin[a].id \in Hooks /\ new \in Config
    BY <1>4, <1>5 DEF Update, Edited, Config
  <2>3. new # NoHook
    BY <2>2, WebhookAssumption
  <2>4. hook' \in [Hooks -> Config \cup {NoHook}]
    BY <1>1, <2>1, <2>2
  <2>5. \A h \in Hooks : hook[h] = NoHook <=> hook'[h] = NoHook
    BY <1>1, <2>1, <2>2, <2>3
  <2>6. \A d \in Deliveries : hook'[d[2]] = NoHook => row[d] = NoRow
    BY <1>1, <2>5, Pairs
  <2> QED
    BY <1>1, <1>2, <1>5, <2>4, <2>5, <2>6, AdminLeaves DEF Update
<1>6. ASSUME Delete(a) PROVE IndInv'
  <2> DEFINE h == admin[a].id
  <2>1. /\ h \in Hooks
        /\ hook' = [hook EXCEPT ![h] = NoHook]
        /\ row' = [d \in Deliveries |-> IF d[2] = h THEN NoRow ELSE row[d]]
    BY <1>4, <1>6 DEF Delete
  <2> HIDE DEF h
  <2>2. hook' \in [Hooks -> Config \cup {NoHook}] /\ row' \in [Deliveries -> Row \cup {NoRow}]
    BY <1>1, <2>1
  <2>3. /\ \A g \in Hooks : hook[g] = NoHook => hook'[g] = NoHook
        /\ \A d \in Deliveries : row'[d] = row[d] \/ (row'[d] = NoRow /\ hook'[d[2]] = NoHook)
        /\ \A d \in Deliveries : hook'[d[2]] = NoHook => row'[d] = NoRow
    BY <1>1, <2>1, Pairs
  <2> QED
    BY <1>2, <1>6, <2>2, <2>3, AdminLeaves DEF Delete
<1>7. ASSUME AdminFails(a) PROVE IndInv'
  BY <1>1, <1>2, <1>7, AdminLeaves DEF AdminFails
<1> QED
  BY <1>3, <1>5, <1>6, <1>7

\* A restart blames every delivery it stops.
LEMMA CrashStep ==
    ASSUME IndInv, Crash
    PROVE  IndInv'
<1> USE WebhookAssumption, Pairs DEF IndInv
<1>1. /\ UNCHANGED <<hook, typed, row, tries, wanted, acks, inbox, earlier>>
      /\ sender' = [d \in Deliveries |-> IF Sending(d) THEN "end" ELSE sender[d]]
      /\ call' = [c \in Calls |-> IF call[c] = "loop" THEN "done" ELSE call[c]]
      /\ todo' = [c \in Calls |-> {}]
  BY DEF Crash
<1>2. /\ faults' = faults \cup {d \in Deliveries : Sending(d) \/ d[2] \in todo[d[1]]}
      /\ failures' \in 0..MaxFailures
  BY DEF Crash, Failure, TypeOK
<1>3. TypeOK'
  <2>1. admin' \in [Admins -> Editing \cup {Idle, Done}]
    BY DEF Crash
  <2>2. /\ sender' \in [Deliveries -> {"none", "send", "ok", "err", "end"}]
        /\ call' \in [Calls -> {"idle", "loop", "done"}]
        /\ todo' \in [Calls -> SUBSET Hooks]
    BY <1>1 DEF TypeOK
  <2>3. faults' \subseteq Deliveries
    BY <1>2 DEF TypeOK
  <2> QED
    BY <1>1, <1>2, <2>1, <2>2, <2>3 DEF TypeOK
<1>4. ASSUME NEW d \in Deliveries PROVE SenderFits(d)'
  <2>1. /\ sender'[d] = IF Sending(d) THEN "end" ELSE sender[d]
        /\ Sending(d) => d \in faults'
        /\ d \in faults => d \in faults'
    BY <1>1, <1>2
  <2> QED
    BY <1>1, <2>1 DEF SenderFits, Settled, Sending
<1>5. ASSUME NEW d \in Deliveries PROVE LoopFits(d)' /\ GoneFits(d)'
  <2>1. /\ sender'[d] = IF Sending(d) THEN "end" ELSE sender[d]
        /\ d[2] \notin todo'[d[1]]
        /\ call'[d[1]] = "idle" => call[d[1]] = "idle"
        /\ d[2] \in todo[d[1]] \/ d \in faults => d \in faults'
    BY <1>1, <1>2
  <2> QED
    BY <1>1, <2>1 DEF LoopFits, GoneFits, Sending
<1>6. ASSUME NEW c \in Calls PROVE CallFits(c)'
  <2>1. todo'[c] = {} /\ (call'[c] = "idle" => call[c] = "idle")
    BY <1>1
  <2> QED
    BY <1>1, <2>1 DEF CallFits
<1> QED
  BY <1>3, <1>4, <1>5, <1>6

\* Every step keeps the invariant.
LEMMA NextIndInv == IndInv /\ [Next]_vars => IndInv'
<1> SUFFICES ASSUME IndInv, [Next]_vars PROVE IndInv'
  OBVIOUS
<1>1. CASE UNCHANGED vars
  BY <1>1 DEF vars, IndInv, TypeOK, SenderFits, LoopFits, GoneFits, CallFits, Settled
<1>2. CASE Next
  BY <1>1, <1>2, ListStep, CreateDeliveryStep, SendStep, RecordStep, AdminStep, CrashStep
     DEF Next, CallStep, SenderStep, Rest
<1> QED
  BY <1>1, <1>2

-----------------------------------------------------------------------------

\* Calls, goroutines, rows and configurations always fit together.
THEOREM Invariance == Spec => []IndInv
  BY InitIndInv, NextIndInv, PTL DEF Spec

\* TypeOK holds in every reachable state of Deliver, its goroutines and the
\* handlers.
THEOREM TypeCorrect == Spec => []TypeOK
<1>1. IndInv => TypeOK
  BY DEF IndInv
<1> QED
  BY <1>1, Invariance, PTL

\* webhook_deliveries never claims more than the endpoint and the goroutine
\* of sendWithRetry can confirm.
THEOREM TruthfulRows == Spec => []RowTellsTheTruth
<1>1. IndInv => RowTellsTheTruth
  <2> SUFFICES ASSUME IndInv, NEW d \in Deliveries, row[d] # NoRow
               PROVE  /\ row[d].status = "delivered" => acks[d] > 0
                      /\ row[d].status = "failed" => tries[d] = MaxRetries
                      /\ row[d].attempts <= tries[d]
                      /\ Settled(d) /\ d \notin faults => row[d].attempts = tries[d]
    BY DEF RowTellsTheTruth
  <2> QED
    BY DEF IndInv, SenderFits
<1> QED
  BY <1>1, Invariance, PTL

\* sendWithRetry gives a row up only when a restart or a lost write hits it.
THEOREM StuckRowsNeedFaults == Spec => []StuckNeedsFault
<1>1. IndInv => StuckNeedsFault
  BY DEF IndInv, SenderFits, StuckNeedsFault, Sending
<1> QED
  BY <1>1, Invariance, PTL

\* The loop of Deliver serves every configuration it had to serve, and no
\* other.
THEOREM MatchesAreServed == Spec => []EveryMatchIsServed
<1>1. IndInv => EveryMatchIsServed
  <2> SUFFICES ASSUME IndInv, NEW d \in Deliveries
               PROVE  /\ call[d[1]] = "done" /\ d[2] \in wanted[d[1]] =>
                            row[d] # NoRow \/ d \in faults \/ hook[d[2]] = NoHook
                      /\ row[d] # NoRow => d[2] \in wanted[d[1]]
    BY DEF EveryMatchIsServed
  <2> QED
    BY Pairs DEF IndInv, LoopFits, CallFits
<1> QED
  BY <1>1, Invariance, PTL

\* What a step may do to the rows: only the turn of the loop that inserts a
\* row, the goroutine that records its try and the delete of a configuration
\* touch one.
LEMMA RowSteps ==
    ASSUME IndInv, [Next]_vars, NEW d \in Deliveries
    PROVE  \/ row'[d] = row[d]
           \/ hook'[d[2]] = NoHook /\ row'[d] = NoRow
           \/ row[d] = NoRow /\ d[2] \in todo[d[1]] /\ hook[d[2]] # NoHook
           \/ row[d] # NoRow /\ sender[d] \in {"ok", "err"}
<1> USE Pairs
<1>0. /\ row \in [Deliveries -> Row \cup {NoRow}] /\ hook \in [Hooks -> Config \cup {NoHook}]
      /\ admin \in [Admins -> Editing \cup {Idle, Done}]
  BY DEF IndInv, TypeOK
<1>1. ASSUME NEW c \in Calls, List(c) PROVE row'[d] = row[d]
  BY <1>1 DEF List
<1>2. ASSUME NEW c \in Calls, NEW h \in Hooks, CreateDelivery(c, h), row'[d] # row[d]
      PROVE  row[d] = NoRow /\ d[2] \in todo[d[1]] /\ hook[d[2]] # NoHook
  <2>1. /\ row' \in {row, [row EXCEPT ![<<c, h>>] = NewRow]}
        /\ row' # row => hook[h] # NoHook
        /\ h \in todo[c]
    BY <1>2 DEF CreateDelivery
  <2>2. d = <<c, h>>
    BY <1>0, <1>2, <2>1
  <2> QED
    BY <1>2, <2>1, <2>2 DEF IndInv, LoopFits
<1>3. ASSUME NEW e \in Deliveries, Send(e) PROVE row'[d] = row[d]
  BY <1>3 DEF Send
<1>4. ASSUME NEW e \in Deliveries, Record(e), row'[d] # row[d]
      PROVE  row[d] # NoRow /\ sender[d] \in {"ok", "err"}
  BY <1>0, <1>4 DEF Record, Updated
<1>5. ASSUME NEW a \in Admins, (\E h \in Hooks : Read(a, h)) \/ Update(a) \/ AdminFails(a)
      PROVE  row'[d] = row[d]
  BY <1>5 DEF Read, Update, AdminFails
<1>6. ASSUME NEW a \in Admins, Delete(a), row'[d] # row[d]
      PROVE  hook'[d[2]] = NoHook /\ row'[d] = NoRow
  BY <1>0, <1>6 DEF Delete
<1>7. Crash \/ Rest \/ UNCHANGED vars => row'[d] = row[d]
  BY DEF Crash, Rest, vars
<1> QED
  BY <1>1, <1>2, <1>3, <1>4, <1>5, <1>6, <1>7 DEF Next, CallStep, SenderStep

\* What a step may do to a deleted configuration: nothing.
LEMMA HookSteps ==
    ASSUME IndInv, [Next]_vars, NEW h \in Hooks, hook[h] = NoHook
    PROVE  hook'[h] = NoHook
<1>0. hook \in [Hooks -> Config \cup {NoHook}]
  BY DEF IndInv, TypeOK
<1>1. ASSUME NEW a \in Admins, Update(a) PROVE hook'[h] = NoHook
  BY <1>0, <1>1 DEF Update
<1>2. ASSUME NEW a \in Admins, Delete(a) PROVE hook'[h] = NoHook
  BY <1>0, <1>2 DEF Delete
<1>3. ASSUME NEW c \in Calls, List(c) \/ CallStep(c) PROVE hook' = hook
  BY <1>3 DEF List, CallStep, CreateDelivery
<1>4. ASSUME NEW d \in Deliveries, SenderStep(d) PROVE hook' = hook
  BY <1>4 DEF SenderStep, Send, Record
<1>5. ASSUME NEW a \in Admins, (\E g \in Hooks : Read(a, g)) \/ AdminFails(a) PROVE hook' = hook
  BY <1>5 DEF Read, AdminFails
<1>6. Crash \/ Rest \/ UNCHANGED vars => hook' = hook
  BY DEF Crash, Rest, vars
<1> QED
  BY <1>1, <1>2, <1>3, <1>4, <1>5, <1>6 DEF Next

\* Once UpdateStatus has written delivered or failed, nothing but the delete
\* of the configuration changes the row: its goroutine has returned.
THEOREM SettledStays == Spec => SettledIsFinal
<1>1. IndInv /\ [Next]_vars =>
        [\A d \in Deliveries : Settled(d) => row'[d] = row[d] \/ hook'[d[2]] = NoHook]_vars
  <2> SUFFICES ASSUME IndInv, [Next]_vars, NEW d \in Deliveries, Settled(d)
               PROVE  row'[d] = row[d] \/ hook'[d[2]] = NoHook
    OBVIOUS
  <2>1. row[d] # NoRow /\ sender[d] = "end"
    BY DEF IndInv, SenderFits, Settled
  <2> QED
    BY <2>1, RowSteps
<1> QED
  BY <1>1, Invariance, PTL DEF Spec, SettledIsFinal

\* Nothing brings a deleted configuration or one of its rows back.
THEOREM DeletedStays == Spec => DeletedStaysDeleted
<1>1. IndInv /\ [Next]_vars =>
        [\A h \in Hooks : hook[h] = NoHook =>
            hook'[h] = NoHook /\ \A c \in Calls : row'[<<c, h>>] = NoRow]_vars
  <2> SUFFICES ASSUME IndInv, [Next]_vars, NEW h \in Hooks, hook[h] = NoHook, NEW c \in Calls
               PROVE  hook'[h] = NoHook /\ row'[<<c, h>>] = NoRow
    BY HookSteps
  <2>1. hook'[h] = NoHook
    BY HookSteps
  <2>2. <<c, h>> \in Deliveries /\ <<c, h>>[2] = h
    BY Pairs
  <2>3. IndInv'
    BY NextIndInv
  <2> QED
    BY <2>1, <2>2, <2>3 DEF IndInv, GoneFits
<1> QED
  BY <1>1, Invariance, PTL DEF Spec, DeletedStaysDeleted
=============================================================================
