----------------------------- MODULE TaskQueue -----------------------------
(***************************************************************************)
(* The background task queue: BackgroundService (service/background.go)    *)
(* and its workers over the background_tasks table.                        *)
(*                                                                         *)
(* A worker claims a task in a transaction (the UPDATE with FOR UPDATE     *)
(* SKIP LOCKED, then the commit), runs the handler of the task's type and  *)
(* writes the outcome.  Each of these is a step.  The commit and the final *)
(* write may fail with or without their effect; the worker then goes back  *)
(* to polling.  A restart, or the cancelled context of a shutdown, ends    *)
(* every worker where it stands.                                           *)
(*                                                                         *)
(* next_run_at is abstracted to "due or not yet"; payloads, error texts    *)
(* and locked_at, which nothing reads, are left out.                       *)
(***************************************************************************)
EXTENDS Integers

CONSTANTS Tasks,       \* task ids
          Workers,     \* worker goroutines
          Priorities,  \* priorities callers use
          MaxRetries,  \* maxRetries (5 in the code)
          MaxFailures, \* bound on crashes and failed commits and writes
          NoTask       \* a worker's hands are empty

ASSUME TaskQueueAssumption ==
    /\ NoTask \notin Tasks
    /\ Priorities \subseteq Int
    /\ MaxRetries \in Nat \ {0}
    /\ MaxFailures \in Nat

VARIABLES status,    \* background_tasks.status; "none": not enqueued
          attempts,  \* background_tasks.attempts
          prio,      \* background_tasks.priority
          due,       \* next_run_at <= NOW()
          known,     \* a handler is registered for the task's type
          pc,        \* where each worker stands
          cur,       \* the row each worker holds
          seen,      \* task.Attempts as the claim returned it
          applied,   \* history: runs of the handler that took effect
          faults,    \* history: tasks whose worker was hit by a failure
          failures   \* history: how many failures there were

table == <<status, attempts, prio, due, known>>
local == <<pc, cur, seen>>
blame == <<faults, failures>>
vars == <<status, attempts, prio, due, known, pc, cur, seen, applied, faults, failures>>

Holding == {"run", "ok", "err", "nohandler"}

TypeOK ==
    /\ status \in [Tasks -> {"none", "pending", "running", "completed", "dead"}]
    /\ attempts \in [Tasks -> 0..MaxRetries]
    /\ prio \in [Tasks -> Priorities \cup {0}]
    /\ due \in [Tasks -> BOOLEAN]
    /\ known \in [Tasks -> BOOLEAN]
    /\ pc \in [Workers -> {"poll", "locked"} \cup Holding]
    /\ cur \in [Workers -> Tasks \cup {NoTask}]
    /\ seen \in [Workers -> 0..MaxRetries]
    /\ applied \in [Tasks -> Nat]
    /\ faults \subseteq Tasks
    /\ failures \in 0..MaxFailures

Init ==
    /\ status = [t \in Tasks |-> "none"]
    /\ attempts = [t \in Tasks |-> 0]
    /\ prio = [t \in Tasks |-> 0]
    /\ due = [t \in Tasks |-> FALSE]
    /\ known = [t \in Tasks |-> FALSE]
    /\ pc = [w \in Workers |-> "poll"]
    /\ cur = [w \in Workers |-> NoTask]
    /\ seen = [w \in Workers |-> 0]
    /\ applied = [t \in Tasks |-> 0]
    /\ faults = {}
    /\ failures = 0

-----------------------------------------------------------------------------
\* One more failure, which hits the workers of these tasks.
Failure(ts) ==
    /\ failures < MaxFailures
    /\ failures' = failures + 1
    /\ faults' = faults \cup ts

\* Mutant: enqueueing a task id again revives a finished row.
Enqueue_Again(t) ==
    /\ status[t] \in {"none", "completed"}
    /\ status' = [status EXCEPT ![t] = "pending"]
    /\ due' = [due EXCEPT ![t] = TRUE]
    /\ \E p \in Priorities : prio' = [prio EXCEPT ![t] = p]
    /\ \E b \in BOOLEAN : known' = [known EXCEPT ![t] = b]
    /\ UNCHANGED <<attempts, local, applied, blame>>

Enqueue(t) ==
    /\ status[t] = "none"
    /\ status' = [status EXCEPT ![t] = "pending"]
    /\ due' = [due EXCEPT ![t] = TRUE]
    /\ \E p \in Priorities : prio' = [prio EXCEPT ![t] = p]
    /\ \E b \in BOOLEAN : known' = [known EXCEPT ![t] = b]
    /\ UNCHANGED <<attempts, local, applied, blame>>

\* The clock reaches next_run_at.
BecomeDue(t) ==
    /\ status[t] = "pending"
    /\ ~ due[t]
    /\ due' = [due EXCEPT ![t] = TRUE]
    /\ UNCHANGED <<status, attempts, prio, known, local, applied, blame>>

\* The row is locked by the open transaction of some worker.
RowLocked(t) == \E w \in Workers : pc[w] = "locked" /\ cur[w] = t

\* Mutant: only fresh tasks are picked up.
Claimable_FreshOnly ==
    {t \in Tasks : status[t] = "pending" /\ due[t] /\ ~ RowLocked(t) /\ attempts[t] = 0}

\* Mutant: SELECT without FOR UPDATE SKIP LOCKED.
Claimable_NoLock == {t \in Tasks : status[t] = "pending" /\ due[t]}

\* WHERE status = 'pending' AND next_run_at <= NOW() ... SKIP LOCKED
Claimable == {t \in Tasks : status[t] = "pending" /\ due[t] /\ ~ RowLocked(t)}

\* claimTask up to the UPDATE: highest priority first; the order of
\* next_run_at within a priority is left open.
Lock(w) ==
    /\ pc[w] = "poll"
    /\ \E t \in Claimable :
        /\ \A u \in Claimable : prio[u] <= prio[t]
        /\ cur' = [cur EXCEPT ![w] = t]
        /\ seen' = [seen EXCEPT ![w] = attempts[t] + 1]
    /\ pc' = [pc EXCEPT ![w] = "locked"]
    /\ UNCHANGED <<table, applied, blame>>

\* The worker loses or drops its task and polls again.
BackToPoll(w) ==
    /\ pc' = [pc EXCEPT ![w] = "poll"]
    /\ cur' = [cur EXCEPT ![w] = NoTask]
    /\ seen' = [seen EXCEPT ![w] = 0]

\* The claim's effect on the row.
Claimed(t, n) ==
    /\ status' = [status EXCEPT ![t] = "running"]
    /\ attempts' = [attempts EXCEPT ![t] = n]

\* claimTask's commit.  If it reports an error the worker forgets the task,
\* whether or not the commit took place.
Commit(w) ==
    /\ pc[w] = "locked"
    /\ \/ /\ Claimed(cur[w], seen[w])
          /\ pc' = [pc EXCEPT ![w] = "run"]
          /\ UNCHANGED <<cur, seen, blame>>
       \/ /\ Claimed(cur[w], seen[w]) \/ UNCHANGED <<status, attempts>>
          /\ Failure({cur[w]})
          /\ BackToPoll(w)
    /\ UNCHANGED <<prio, due, known, applied>>

\* Mutant: the handler is called again at once when it fails.
HandlerEffect_Twice(t) == applied' = [applied EXCEPT ![t] = @ + 2]

\* The business row is updated.
HandlerEffect(t) == applied' = [applied EXCEPT ![t] = @ + 1]

\* processTask: look the handler up and run it.  It succeeds, or fails
\* before or after its effect.
Handle(w) ==
    /\ pc[w] = "run"
    /\ LET t == cur[w] IN
        \/ /\ ~ known[t]
           /\ pc' = [pc EXCEPT ![w] = "nohandler"]
           /\ UNCHANGED applied
        \/ /\ known[t]
           /\ pc' = [pc EXCEPT ![w] = "ok"]
           /\ HandlerEffect(t)
        \/ /\ known[t]
           /\ pc' = [pc EXCEPT ![w] = "err"]
           /\ HandlerEffect(t) \/ UNCHANGED applied
    /\ UNCHANGED <<table, cur, seen, blame>>

\* Mutant: > for >=.
Exhausted_OffByOne(w) == seen[w] > MaxRetries

\* handleTaskError: no attempt is left.
Exhausted(w) == seen[w] >= MaxRetries

\* Mutant: a failed task is given up at once.
NextStatus_NoRetry(w) ==
    IF pc[w] = "ok" THEN "completed" ELSE "dead"

\* The status processTask and handleTaskError write.
NextStatus(w) ==
    IF pc[w] = "ok" THEN "completed"
    ELSE IF pc[w] = "nohandler" \/ Exhausted(w) THEN "dead" ELSE "pending"

Outcome(w) ==
    /\ status' = [status EXCEPT ![cur[w]] = NextStatus(w)]
    /\ due' = [due EXCEPT ![cur[w]] = IF NextStatus(w) = "pending" THEN FALSE ELSE @]

\* Mutant: the error of the last write puts nothing in the log, and the
\* worker gives up the row without writing it.
Settle_Forgets(w) ==
    /\ pc[w] \in {"ok", "err", "nohandler"}
    /\ BackToPoll(w)
    /\ UNCHANGED <<table, applied, blame>>

\* The final UPDATE ... WHERE id = $1.
Settle(w) ==
    /\ pc[w] \in {"ok", "err", "nohandler"}
    /\ \/ /\ Outcome(w)
          /\ UNCHANGED blame
       \/ /\ Outcome(w) \/ UNCHANGED <<status, due>>
          /\ Failure({cur[w]})
    /\ BackToPoll(w)
    /\ UNCHANGED <<attempts, prio, known, applied>>

\* The process dies, or main's cancel() ends the workers' context and the
\* process exits without waiting for them.  Open transactions roll back.
Crash ==
    /\ \E w \in Workers : pc[w] # "poll"
    /\ pc' = [w \in Workers |-> "poll"]
    /\ cur' = [w \in Workers |-> NoTask]
    /\ seen' = [w \in Workers |-> 0]
    /\ Failure({cur[w] : w \in {v \in Workers : pc[v] # "poll"}})
    /\ UNCHANGED <<table, applied>>

WorkerStep(w) == Lock(w) \/ Commit(w) \/ Handle(w) \/ Settle(w)

Terminal(t) == status[t] \in {"completed", "dead"}
Held(t) == \E w \in Workers : cur[w] = t

\* All workers poll and the query finds no row.
Idle == /\ Claimable = {}
        /\ \A w \in Workers : pc[w] = "poll"
        /\ UNCHANGED vars

Next == \/ \E t \in Tasks : Enqueue(t) \/ BecomeDue(t)
        \/ \E w \in Workers : WorkerStep(w)
        \/ Crash
        \/ Idle

Spec == Init /\ [][Next]_vars

\* Time passes, workers poll for ever and their calls return; failures are
\* finitely many (MaxFailures).
FairSpec == /\ Spec
            /\ \A t \in Tasks : WF_vars(BecomeDue(t))
            /\ \A w \in Workers : WF_vars(WorkerStep(w))

-----------------------------------------------------------------------------
(* The inductive invariant: what a worker's place says about the row it      *)
(* holds, and what a row's status says about its counters.                   *)

WorkerFits(w) ==
    LET t == cur[w] IN
        /\ pc[w] = "poll" <=> t = NoTask
        /\ pc[w] = "locked" => status[t] = "pending" /\ seen[w] = attempts[t] + 1
        /\ pc[w] \in Holding => status[t] = "running" /\ seen[w] = attempts[t]
        /\ pc[w] = "run" => applied[t] < attempts[t]
        /\ pc[w] = "ok" => applied[t] > 0
        /\ pc[w] = "nohandler" => ~ known[t]

TaskFits(t) ==
    /\ status[t] \in {"none", "pending"} => attempts[t] < MaxRetries
    /\ applied[t] <= attempts[t]
    /\ status[t] = "completed" => applied[t] > 0
    /\ status[t] = "dead" => ~ known[t] \/ attempts[t] = MaxRetries
    /\ status[t] = "running" => t \in faults \/ Held(t)

-----------------------------------------------------------------------------
(* Properties *)

\* No two workers ever hold the same task, whatever they claim, retry or
\* lose in between: SKIP LOCKED and the running status keep them apart.
OneWorkerPerTask ==
    \A v, w \in Workers : v # w /\ cur[v] # NoTask => cur[v] # cur[w]

\* A task's handler takes effect at most once per attempt and at most
\* MaxRetries times in all, restarts and lost writes included.
EffectsAreBounded ==
    \A t \in Tasks : applied[t] <= attempts[t] /\ attempts[t] <= MaxRetries

\* "completed" is written only if the handler took effect, and "dead" only
\* if the type has no handler or all MaxRetries attempts are used.
OutcomeIsJustified ==
    \A t \in Tasks :
        /\ status[t] = "completed" => applied[t] > 0
        /\ status[t] = "dead" => ~ known[t] \/ attempts[t] = MaxRetries

\* A running row that no worker holds is always the work of a crash or of a
\* write that failed; the protocol itself never drops a task.
OrphanNeedsFault ==
    \A t \in Tasks : status[t] = "running" /\ ~ Held(t) => t \in faults

\* A completed or dead task is never touched again, although the final write
\* checks neither status nor attempts.
TerminalIsFinal ==
    [][\A t \in Tasks : Terminal(t) =>
            status'[t] = status[t] /\ attempts'[t] = attempts[t]
                /\ applied'[t] = applied[t]]_vars

\* Every task a crash or failed write did not hit ends completed or dead.
TasksSettle ==
    \A t \in Tasks : status[t] = "pending" ~> Terminal(t) \/ t \in faults

\* What the schema documentation says of locked_at: it prevents stale locks,
\* so a task that a crashed worker was running is taken up again.
StaleLocksRecover ==
    \A t \in Tasks : status[t] = "running" ~> status[t] # "running"
=============================================================================
