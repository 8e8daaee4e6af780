-------------------------- MODULE TaskQueueProofs --------------------------
(***************************************************************************)
(* Proofs about TaskQueue, for any number of tasks, workers, retries and   *)
(* failures.  Mutual exclusion needs to know what a held row looks like    *)
(* (locked: still pending; running otherwise), the bounds need to know     *)
(* that the attempts a worker has seen are those of the row it holds, and  *)
(* both need that no other worker writes that row: the three are proved    *)
(* together.                                                               *)
(***************************************************************************)
EXTENDS TaskQueue, TLAPS

IndInv ==
    /\ TypeOK
    /\ OneWorkerPerTask
    /\ \A w \in Workers : WorkerFits(w)
    /\ \A t \in Tasks : TaskFits(t)

\* The empty queue satisfies the invariant.
LEMMA InitIndInv == Init => IndInv
  BY TaskQueueAssumption
     DEF Init, IndInv, TypeOK, OneWorkerPerTask, WorkerFits, TaskFits, Held, Holding

\* A new row is pending and nobody holds it.
LEMMA EnqueueStep ==
    ASSUME IndInv, NEW t \in Tasks, Enqueue(t)
    PROVE  IndInv'
<1> USE TaskQueueAssumption DEF IndInv, Enqueue, table, local, blame, Failure, Holding
<1>1. TypeOK'
  BY DEF TypeOK, WorkerFits, TaskFits
<1>2. OneWorkerPerTask'
  BY DEF TypeOK, OneWorkerPerTask, WorkerFits
<1>3. ASSUME NEW v \in Workers PROVE WorkerFits(v)'
  BY DEF TypeOK, OneWorkerPerTask, WorkerFits, TaskFits
<1>4. ASSUME NEW u \in Tasks PROVE TaskFits(u)'
  BY DEF TypeOK, OneWorkerPerTask, WorkerFits, TaskFits, Held
<1> QED
  BY <1>1, <1>2, <1>3, <1>4

\* The clock changes no status.
LEMMA BecomeDueStep ==
    ASSUME IndInv, NEW t \in Tasks, BecomeDue(t)
    PROVE  IndInv'
<1> USE TaskQueueAssumption DEF IndInv, BecomeDue, table, local, blame, Failure, Holding
<1>1. TypeOK'
  BY DEF TypeOK, WorkerFits, TaskFits
<1>2. OneWorkerPerTask'
  BY DEF TypeOK, OneWorkerPerTask, WorkerFits
<1>3. ASSUME NEW v \in Workers PROVE WorkerFits(v)'
  BY DEF TypeOK, OneWorkerPerTask, WorkerFits, TaskFits
<1>4. ASSUME NEW u \in Tasks PROVE TaskFits(u)'
  BY DEF TypeOK, OneWorkerPerTask, WorkerFits, TaskFits, Held
<1> QED
  BY <1>1, <1>2, <1>3, <1>4

\* A worker locks a row no other worker holds: holders of locked rows are
\* skipped, holders of committed claims have made the row running.
LEMMA LockStep ==
    ASSUME IndInv, NEW w \in Workers, Lock(w)
    PROVE  IndInv'
<1> USE TaskQueueAssumption DEF IndInv, Lock, Claimable, RowLocked, table, local, blame, Failure, Holding
<1>1. TypeOK'
  BY DEF TypeOK, WorkerFits, TaskFits
<1>2. OneWorkerPerTask'
  BY DEF TypeOK, OneWorkerPerTask, WorkerFits
<1>3. ASSUME NEW v \in Workers PROVE WorkerFits(v)'
  BY DEF TypeOK, OneWorkerPerTask, WorkerFits, TaskFits
<1>4. ASSUME NEW u \in Tasks PROVE TaskFits(u)'
  BY DEF TypeOK, OneWorkerPerTask, WorkerFits, TaskFits, Held
<1> QED
  BY <1>1, <1>2, <1>3, <1>4

\* The commit makes the locked row running, with one attempt more.
LEMMA CommitStep ==
    ASSUME IndInv, NEW w \in Workers, Commit(w)
    PROVE  IndInv'
<1> USE TaskQueueAssumption DEF IndInv, Commit, Claimed, BackToPoll, table, local, blame, Failure, Holding
<1>1. TypeOK'
  BY DEF TypeOK, WorkerFits, TaskFits
<1>2. OneWorkerPerTask'
  BY DEF TypeOK, OneWorkerPerTask, WorkerFits
<1>3. ASSUME NEW v \in Workers PROVE WorkerFits(v)'
  BY DEF TypeOK, OneWorkerPerTask, WorkerFits, TaskFits
<1>4. ASSUME NEW u \in Tasks PROVE TaskFits(u)'
  BY DEF TypeOK, OneWorkerPerTask, WorkerFits, TaskFits, Held
<1> QED
  BY <1>1, <1>2, <1>3, <1>4

\* The handler takes effect at most once in the attempt.
LEMMA HandleStep ==
    ASSUME IndInv, NEW w \in Workers, Handle(w)
    PROVE  IndInv'
<1> USE TaskQueueAssumption DEF IndInv, Handle, HandlerEffect, table, local, blame, Failure, Holding
<1>1. TypeOK'
  BY DEF TypeOK, WorkerFits, TaskFits
<1>2. OneWorkerPerTask'
  BY DEF TypeOK, OneWorkerPerTask, WorkerFits
<1>3. ASSUME NEW v \in Workers PROVE WorkerFits(v)'
  BY DEF TypeOK, OneWorkerPerTask, WorkerFits, TaskFits
<1>4. ASSUME NEW u \in Tasks PROVE TaskFits(u)'
  BY DEF TypeOK, OneWorkerPerTask, WorkerFits, TaskFits, Held
<1> QED
  BY <1>1, <1>2, <1>3, <1>4

\* The final write changes only the row its worker holds.
LEMMA SettleStep ==
    ASSUME IndInv, NEW w \in Workers, Settle(w)
    PROVE  IndInv'
<1> USE TaskQueueAssumption
<1>1. cur[w] \in Tasks /\ pc[w] \in {"ok", "err", "nohandler"}
  BY DEF IndInv, TypeOK, WorkerFits, Settle
<1>2. /\ NextStatus(w) \in {"completed", "dead", "pending"}
      /\ NextStatus(w) = "completed" => pc[w] = "ok"
      /\ NextStatus(w) = "dead" => pc[w] = "nohandler" \/ seen[w] = MaxRetries
      /\ NextStatus(w) = "pending" => seen[w] < MaxRetries
  BY DEF IndInv, TypeOK, NextStatus, Exhausted, Settle
<1>3. due' \in [Tasks -> BOOLEAN]
  BY DEF IndInv, TypeOK, Settle, Outcome
<1>4. \/ /\ status' = [status EXCEPT ![cur[w]] = NextStatus(w)]
         /\ faults' = faults /\ failures' = failures
      \/ /\ status' = [status EXCEPT ![cur[w]] = NextStatus(w)] \/ status' = status
         /\ failures < MaxFailures /\ failures' = failures + 1
         /\ faults' = faults \cup {cur[w]}
  <2>1. CASE Outcome(w) /\ UNCHANGED blame
    BY <2>1, Zenon DEF Outcome, blame
  <2>2. CASE (Outcome(w) \/ UNCHANGED <<status, due>>) /\ Failure({cur[w]})
    BY <2>2, Zenon DEF Outcome, Failure
  <2> QED
    BY <2>1, <2>2, Zenon DEF Settle
<1>5. /\ pc' = [pc EXCEPT ![w] = "poll"]
      /\ cur' = [cur EXCEPT ![w] = NoTask]
      /\ seen' = [seen EXCEPT ![w] = 0]
      /\ attempts' = attempts /\ prio' = prio /\ known' = known /\ applied' = applied
  BY Zenon DEF Settle, BackToPoll
<1>6. TypeOK'
  BY <1>1, <1>2, <1>3, <1>4, <1>5 DEF IndInv, TypeOK, Holding
<1>7. OneWorkerPerTask'
  BY <1>5 DEF IndInv, TypeOK, OneWorkerPerTask, WorkerFits
<1>8. ASSUME NEW v \in Workers PROVE WorkerFits(v)'
  BY <1>1, <1>2, <1>4, <1>5 DEF IndInv, TypeOK, OneWorkerPerTask, WorkerFits, TaskFits, Holding
<1>9. ASSUME NEW u \in Tasks PROVE TaskFits(u)'
  BY <1>1, <1>2, <1>4, <1>5
     DEF IndInv, TypeOK, OneWorkerPerTask, WorkerFits, TaskFits, Held, Holding
<1> QED
  BY <1>6, <1>7, <1>8, <1>9 DEF IndInv

\* A crash blames every row a worker held.
LEMMA CrashStep ==
    ASSUME IndInv, Crash
    PROVE  IndInv'
<1> USE TaskQueueAssumption DEF IndInv, Crash, table, local, blame, Failure, Holding
<1>1. TypeOK'
  BY DEF TypeOK, WorkerFits, TaskFits
<1>2. OneWorkerPerTask'
  BY DEF TypeOK, OneWorkerPerTask, WorkerFits
<1>3. ASSUME NEW v \in Workers PROVE WorkerFits(v)'
  BY DEF TypeOK, OneWorkerPerTask, WorkerFits, TaskFits
<1>4. ASSUME NEW u \in Tasks PROVE TaskFits(u)'
  BY DEF TypeOK, OneWorkerPerTask, WorkerFits, TaskFits, Held
<1> QED
  BY <1>1, <1>2, <1>3, <1>4

\* One case per action.
LEMMA NextIndInv == IndInv /\ [Next]_vars => IndInv'
<1> SUFFICES ASSUME IndInv, [Next]_vars PROVE IndInv'
  OBVIOUS
<1>1. CASE UNCHANGED vars
  BY <1>1 DEF vars, IndInv, TypeOK, OneWorkerPerTask, WorkerFits, TaskFits, Held, Holding
<1> QED
  BY <1>1, EnqueueStep, BecomeDueStep, LockStep, CommitStep, HandleStep, SettleStep, CrashStep
     DEF Next, WorkerStep, Idle

-----------------------------------------------------------------------------
(* Theorems *)

\* Every reachable state satisfies the inductive invariant.
THEOREM Invariance == Spec => []IndInv
  BY InitIndInv, NextIndInv, PTL DEF Spec

\* Every column and every worker's locals keep their type; in particular
\* attempts never passes MaxRetries.
THEOREM TypeCorrect == Spec => []TypeOK
<1>1. IndInv => TypeOK
  BY DEF IndInv
<1> QED
  BY <1>1, Invariance, PTL

\* Two workers never run the same task.
THEOREM MutualExclusion == Spec => []OneWorkerPerTask
<1>1. IndInv => OneWorkerPerTask
  BY DEF IndInv
<1> QED
  BY <1>1, Invariance, PTL

\* The handler takes effect at most once per attempt, at most MaxRetries times.
THEOREM BoundedEffects == Spec => []EffectsAreBounded
<1>1. ASSUME IndInv, NEW t \in Tasks PROVE applied[t] <= attempts[t] /\ attempts[t] <= MaxRetries
  <2>1. attempts[t] \in 0..MaxRetries
    BY <1>1 DEF IndInv, TypeOK
  <2>2. applied[t] <= attempts[t]
    BY <1>1 DEF IndInv, TaskFits
  <2> QED
    BY <2>1, <2>2, TaskQueueAssumption
<1>2. IndInv => EffectsAreBounded
  BY <1>1 DEF EffectsAreBounded
<1> QED
  BY <1>2, Invariance, PTL

\* Completed tasks had their effect; dead ones had no handler or no attempt left.
THEOREM JustifiedOutcomes == Spec => []OutcomeIsJustified
<1>1. IndInv => OutcomeIsJustified
  BY DEF IndInv, TaskFits, OutcomeIsJustified
<1> QED
  BY <1>1, Invariance, PTL

\* Only a failure leaves a running row without a worker.
THEOREM OrphansNeedFaults == Spec => []OrphanNeedsFault
<1>1. IndInv => OrphanNeedsFault
  BY DEF IndInv, TaskFits, OrphanNeedsFault
<1> QED
  BY <1>1, Invariance, PTL

\* A completed or dead row is final: no worker holds it, so none writes it.
THEOREM TerminalStays == Spec => TerminalIsFinal
<1> DEFINE Keeps == \A t \in Tasks : Terminal(t) =>
                        status'[t] = status[t] /\ attempts'[t] = attempts[t]
                            /\ applied'[t] = applied[t]
<1>1. ASSUME IndInv, [Next]_vars PROVE Keeps
  <2> SUFFICES ASSUME NEW t \in Tasks, Terminal(t)
               PROVE  status'[t] = status[t] /\ attempts'[t] = attempts[t]
                          /\ applied'[t] = applied[t]
    OBVIOUS
  <2>1. ASSUME NEW w \in Workers, WorkerStep(w)
        PROVE  status'[t] = status[t] /\ attempts'[t] = attempts[t] /\ applied'[t] = applied[t]
    <3>1. pc[w] # "poll" => cur[w] \in Tasks /\ cur[w] # t
      BY <1>1 DEF IndInv, TypeOK, WorkerFits, Terminal, Holding
    <3> QED
      BY <1>1, <2>1, <3>1
         DEF IndInv, TypeOK, WorkerStep, Lock, Commit, Claimed, Handle, HandlerEffect, Settle,
             Outcome, table
  <2>2. ASSUME NEW u \in Tasks, Enqueue(u) \/ BecomeDue(u)
        PROVE  status'[t] = status[t] /\ attempts'[t] = attempts[t] /\ applied'[t] = applied[t]
    BY <1>1, <2>2 DEF IndInv, TypeOK, Enqueue, BecomeDue, Terminal
  <2>3. CASE Crash \/ UNCHANGED vars
    BY <2>3 DEF Crash, vars, table
  <2> QED
    BY <1>1, <2>1, <2>2, <2>3 DEF Next, Idle
<1> QED
  BY <1>1, Invariance, PTL DEF Spec, TerminalIsFinal
=============================================================================
