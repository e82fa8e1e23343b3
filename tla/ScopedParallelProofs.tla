------------------------ MODULE ScopedParallelProofs ------------------------
(***************************************************************************)
(* Proofs about ScopedParallel, for any number of tasks, workers, entries   *)
(* and body results.                                                        *)
(*                                                                          *)
(* What is inductive is Inv: the types, the five parts of RuntimeInv and    *)
(* RunsOnce.  Each part has a lemma of its own, with one step for each      *)
(* action that can disturb it and one for those that leave its variables    *)
(* alone.                                                                   *)
(***************************************************************************)
EXTENDS ScopedParallel, FiniteSetTheorems, TLAPS

Inv == TypeOK /\ RuntimeInv /\ RunsOnce

(***************************************************************************)
(* Where a step comes from.  The refused calls are taken together: they     *)
(* change nothing but the status they return.                               *)
(***************************************************************************)
Refused == \E s \in Statuses : Return(s)

Entered == \E workers, cap \in Nat, started \in 0 .. MaxWorkers :
              kofun_par_scope_enter(workers, cap, started)

\* The steps of a scope, the refused calls together.
LEMMA StepCases ==
    ASSUME [Next]_vars
    PROVE  \/ UNCHANGED vars \/ Refused \/ Entered
           \/ \E hasDiscard \in Discards : kofun_par_spawn(hasDiscard)
           \/ \E handle \in Tasks : kofun_par_join(handle)
           \/ kofun_par_scope_cancel \/ kofun_par_scope_exit
           \/ ParentInCall \/ parent_spurious_wakeup
           \/ \E w \in Workers : WorkerRuns(w) \/ worker_spurious_wakeup(w)
<1>1. /\ \A workers, cap : enter_refused(workers, cap) => Refused
      /\ enter_no_primitives => Refused
      /\ spawn_refused => Refused
      /\ \A handle : join_refused(handle) => Refused
      /\ cancel_or_exit_refused => Refused
  BY DEF Refused, Statuses, enter_refused, enter_no_primitives, spawn_refused,
     join_refused, cancel_or_exit_refused
<1>2. ASSUME NEW workers \in 0 .. MaxWorkers + 1,
             NEW cap \in 0 .. MaxTasks + 1, NEW started \in 0 .. MaxWorkers,
             kofun_par_scope_enter(workers, cap, started)
      PROVE  Entered
  BY <1>2, BoundsAssumption DEF Entered
<1> QED
  BY <1>1, <1>2 DEF Next, ParentCalls

(***************************************************************************)
(* The mutex is held by the worker at the head of its loop; a new set of    *)
(* threads starts only when no thread of the last one exists.               *)
(***************************************************************************)
LEMMA LockStep ==
    ASSUME TypeOK, LockInv, ThreadsInv, [Next]_vars
    PROVE  LockInv'
<1>1. wpc \in [Workers -> {"lock", "top", "idle", "body", "done", "exited"}]
        /\ lock \in Workers \cup {NoWorker} /\ NoWorker \notin Workers
  BY BoundsAssumption DEF TypeOK, Tasks, Workers, NoWorker
<1>2. ASSUME UNCHANGED <<wpc, lock>>
      PROVE  LockInv'
  BY <1>2 DEF LockInv
<1>3. CASE Entered
  BY <1>1, <1>3, BoundsAssumption DEF Entered, kofun_par_scope_enter,
     ThreadsInv, Workers, LockInv
<1>4. ASSUME NEW hasDiscard \in Discards, kofun_par_spawn(hasDiscard)
      PROVE  LockInv'
  BY <1>1, <1>4 DEF kofun_par_spawn, signal_work_ready, Idle, LockInv
<1>5. CASE stop_workers
  BY <1>1, <1>5 DEF stop_workers, broadcast_work_ready, Idle, LockInv
<1>6. ASSUME NEW w \in Workers, WorkerRuns(w) \/ worker_spurious_wakeup(w)
      PROVE  LockInv'
  <2>1. CASE worker_acquire(w)
    BY <1>1, <2>1 DEF worker_acquire, LockInv
  <2>2. CASE worker_waits(w)
    BY <1>1, <2>2 DEF worker_waits, LockInv
  <2>3. CASE worker_exits(w)
    BY <1>1, <2>3 DEF worker_exits, LockInv
  <2>4. CASE worker_claims(w)
    BY <1>1, <2>4 DEF worker_claims, LockInv
  <2>5. ASSUME NEW result \in BodyResults, worker_body(w, result)
        PROVE  LockInv'
    BY <1>1, <2>5 DEF worker_body, LockInv
  <2>6. CASE worker_publishes(w)
    BY <1>1, <2>6 DEF worker_publishes, LockInv
  <2>7. CASE worker_spurious_wakeup(w)
    BY <1>1, <2>7 DEF worker_spurious_wakeup, LockInv
  <2> QED
    BY <1>2, <1>6, <2>1, <2>2, <2>3, <2>4, <2>5, <2>6, <2>7 DEF WorkerRuns,
       scopeVars, taskVars, workerVars, parentVars, resultVars, seenVars
<1> QED
  BY <1>2, <1>3, <1>4, <1>5, <1>6, StepCases DEF vars, Refused, Return,
     ParentInCall, kofun_par_join, kofun_par_scope_cancel,
     kofun_par_scope_exit, wait_for_sleep, join_returns, drain_joins,
     drain_skips, reap_worker, report_begins, report_task, scope_closes,
     parent_spurious_wakeup, scopeVars, taskVars, workerVars, parentVars,
     resultVars, seenVars

(***************************************************************************)
(* Only the threads that were created run, and the reaping loop has passed  *)
(* only threads that are gone.                                              *)
(***************************************************************************)
LEMMA ThreadsStep ==
    ASSUME TypeOK, ThreadsInv, [Next]_vars
    PROVE  ThreadsInv'
<1>1. wpc \in [Workers -> {"lock", "top", "idle", "body", "done", "exited"}]
        /\ worker_count \in 0 .. MaxWorkers /\ cursor \in Nat /\ Workers = 1
        .. MaxWorkers /\ MaxWorkers \in Nat
  BY BoundsAssumption DEF TypeOK, Tasks, Workers, NoWorker
<1>2. ASSUME UNCHANGED <<wpc, worker_count, open, ppc, cursor>>
      PROVE  ThreadsInv'
  BY <1>2 DEF ThreadsInv
<1>3. CASE Entered
  BY <1>1, <1>3, BoundsAssumption DEF Entered, kofun_par_scope_enter,
     parentVars, ThreadsInv
<1>4. ASSUME NEW hasDiscard \in Discards, kofun_par_spawn(hasDiscard)
      PROVE  ThreadsInv'
  BY <1>1, <1>4 DEF kofun_par_spawn, signal_work_ready, Idle, parentVars,
     ThreadsInv
<1>5. ASSUME NEW handle \in Tasks, kofun_par_join(handle)
      PROVE  ThreadsInv'
  BY <1>1, <1>5 DEF kofun_par_join, scopeVars, workerVars, ThreadsInv
<1>6. CASE kofun_par_scope_exit
  BY <1>1, <1>6 DEF kofun_par_scope_exit, scopeVars, workerVars, ThreadsInv
<1>7. CASE join_returns
  BY <1>1, <1>7 DEF join_returns, scopeVars, workerVars, ThreadsInv
<1>8. CASE drain_joins
  BY <1>1, <1>8 DEF drain_joins, scopeVars, workerVars, ThreadsInv
<1>9. CASE drain_skips
  BY <1>1, <1>9 DEF drain_skips, scopeVars, workerVars, ThreadsInv
<1>10. CASE stop_workers
  BY <1>1, <1>10 DEF stop_workers, broadcast_work_ready, Idle, ThreadsInv
<1>11. CASE reap_worker
  BY <1>1, <1>11 DEF reap_worker, all_reaped, scopeVars, workerVars,
     ThreadsInv
<1>12. CASE report_begins
  BY <1>1, <1>12 DEF report_begins, all_reaped, workerVars, ThreadsInv
<1>13. CASE report_task
  BY <1>1, <1>13 DEF report_task, scopeVars, workerVars, ThreadsInv
<1>14. CASE scope_closes
  BY <1>1, <1>14 DEF scope_closes, workerVars, ThreadsInv
<1>15. ASSUME NEW w \in Workers, WorkerRuns(w) \/ worker_spurious_wakeup(w)
      PROVE  ThreadsInv'
  <2>1. CASE worker_acquire(w)
    BY <1>1, <2>1 DEF worker_acquire, scopeVars, parentVars, ThreadsInv
  <2>2. CASE worker_waits(w)
    BY <1>1, <2>2 DEF worker_waits, scopeVars, parentVars, ThreadsInv
  <2>3. CASE worker_exits(w)
    BY <1>1, <2>3 DEF worker_exits, scopeVars, parentVars, ThreadsInv
  <2>4. CASE worker_claims(w)
    BY <1>1, <2>4 DEF worker_claims, parentVars, ThreadsInv
  <2>5. ASSUME NEW result \in BodyResults, worker_body(w, result)
        PROVE  ThreadsInv'
    BY <1>1, <2>5 DEF worker_body, scopeVars, parentVars, ThreadsInv
  <2>6. CASE worker_publishes(w)
    BY <1>1, <2>6 DEF worker_publishes, ThreadsInv
  <2>7. CASE worker_spurious_wakeup(w)
    BY <1>1, <2>7 DEF worker_spurious_wakeup, scopeVars, parentVars, ThreadsInv
  <2> QED
    BY <1>2, <1>15, <2>1, <2>2, <2>3, <2>4, <2>5, <2>6, <2>7 DEF WorkerRuns,
       scopeVars, taskVars, workerVars, parentVars, resultVars, seenVars
<1> QED
  BY <1>2, <1>3, <1>4, <1>5, <1>6, <1>7, <1>8, <1>9, <1>10, <1>11, <1>12,
     <1>13, <1>14, <1>15, StepCases DEF vars, Refused, Return, ParentInCall,
     kofun_par_scope_cancel, wait_for_sleep, parent_spurious_wakeup,
     scopeVars, taskVars, workerVars, parentVars, resultVars, seenVars

(***************************************************************************)
(* A join waits for an unjoined task, and the barrier loop has joined every *)
(* slot it has passed.                                                      *)
(***************************************************************************)
LEMMA ParentStep ==
    ASSUME TypeOK, ThreadsInv, ParentInv, [Next]_vars
    PROVE  ParentInv'
<1>1. Tasks = 0 .. MaxTasks - 1 /\ MaxTasks \in Nat /\ capacity \in 0 ..
        MaxTasks /\ spawned \in 0 .. capacity /\ next_pending \in 0 .. spawned
        /\ cursor \in Nat /\ joined \in [Tasks -> BOOLEAN]
  BY BoundsAssumption DEF TypeOK, Tasks, Workers, NoWorker
<1>2. ASSUME UNCHANGED <<ppc, cursor, open, spawned, joined>>
      PROVE  ParentInv'
  BY <1>2 DEF ParentInv, Spawned
<1>3. CASE Entered
  BY <1>1, <1>3, BoundsAssumption DEF Entered, kofun_par_scope_enter,
     ThreadsInv, parentVars, taskVars, ParentInv, Spawned
<1>4. ASSUME NEW hasDiscard \in Discards, kofun_par_spawn(hasDiscard)
      PROVE  ParentInv'
  BY <1>1, <1>4 DEF kofun_par_spawn, full, slot_reset, parentVars, ParentInv,
     Spawned
<1>5. ASSUME NEW handle \in Tasks, kofun_par_join(handle)
      PROVE  ParentInv'
  BY <1>1, <1>5 DEF kofun_par_join, scopeVars, taskVars, ParentInv, Spawned
<1>6. CASE kofun_par_scope_exit
  BY <1>1, <1>6 DEF kofun_par_scope_exit, scopeVars, taskVars, ParentInv,
     Spawned
<1>7. CASE join_returns
  BY <1>1, <1>7 DEF join_returns, scopeVars, ParentInv, Spawned
<1>8. CASE drain_joins
  BY <1>1, <1>8 DEF drain_joins, scopeVars, ParentInv, Spawned
<1>9. CASE drain_skips
  BY <1>1, <1>9 DEF drain_skips, scopeVars, taskVars, ParentInv, Spawned
<1>10. CASE stop_workers
  BY <1>1, <1>10 DEF stop_workers, taskVars, ParentInv, Spawned
<1>11. CASE reap_worker
  BY <1>1, <1>11 DEF reap_worker, scopeVars, taskVars, ParentInv, Spawned
<1>12. CASE report_begins
  BY <1>1, <1>12 DEF report_begins, taskVars, ParentInv, Spawned
<1>13. CASE report_task
  BY <1>1, <1>13 DEF report_task, scopeVars, taskVars, ParentInv, Spawned
<1>14. CASE scope_closes
  BY <1>1, <1>14 DEF scope_closes, taskVars, ParentInv, Spawned
<1>15. ASSUME NEW w \in Workers, WorkerRuns(w) \/ worker_spurious_wakeup(w)
      PROVE  ParentInv'
  <2> QED
    BY <1>2, <1>15 DEF WorkerRuns, worker_acquire, worker_waits, worker_exits,
       worker_claims, worker_body, worker_publishes, worker_spurious_wakeup,
       scopeVars, taskVars, workerVars, parentVars, resultVars, seenVars
<1> QED
  BY <1>2, <1>3, <1>4, <1>5, <1>6, <1>7, <1>8, <1>9, <1>10, <1>11, <1>12,
     <1>13, <1>14, <1>15, StepCases DEF vars, Refused, Return, ParentInCall,
     kofun_par_scope_cancel, wait_for_sleep, parent_spurious_wakeup,
     scopeVars, taskVars, workerVars, parentVars, resultVars, seenVars

(***************************************************************************)
(* The queue is the slots from next_pending on, and a joined task is done.  *)
(***************************************************************************)
LEMMA QueueStep ==
    ASSUME TypeOK, QueueInv, ClaimInv, [Next]_vars
    PROVE  QueueInv'
<1>1. Tasks = 0 .. MaxTasks - 1 /\ MaxTasks \in Nat /\ capacity \in 0 ..
        MaxTasks /\ spawned \in 0 .. capacity /\ next_pending \in 0 .. spawned
        /\ cursor \in Nat /\ joined \in [Tasks -> BOOLEAN] /\ state \in [Tasks
        -> {"PENDING", "RUNNING", "DONE"}]
  BY BoundsAssumption DEF TypeOK, Tasks, Workers, NoWorker
<1>2. ASSUME UNCHANGED <<spawned, state, next_pending, joined>>
      PROVE  QueueInv'
  BY <1>2 DEF QueueInv, Spawned
<1>3. CASE Entered
  BY <1>1, <1>3, BoundsAssumption DEF Entered, kofun_par_scope_enter,
     taskVars, QueueInv, Spawned
<1>4. ASSUME NEW hasDiscard \in Discards, kofun_par_spawn(hasDiscard)
      PROVE  QueueInv'
  BY <1>1, <1>4 DEF kofun_par_spawn, full, slot_reset, QueueInv, Spawned
<1>5. CASE join_returns
  BY <1>1, <1>5 DEF join_returns, scopeVars, task_done, QueueInv, Spawned
<1>6. CASE drain_joins
  BY <1>1, <1>6 DEF drain_joins, scopeVars, task_done, QueueInv, Spawned
<1>7. ASSUME NEW w \in Workers, WorkerRuns(w) \/ worker_spurious_wakeup(w)
      PROVE  QueueInv'
  <2>1. CASE worker_claims(w)
    BY <1>1, <2>1 DEF worker_claims, pop, QueueInv, Spawned
  <2>2. CASE worker_publishes(w)
    BY <1>1, <2>2 DEF worker_publishes, ClaimInv, QueueInv, Spawned
  <2> QED
    BY <1>2, <1>7, <2>1, <2>2 DEF WorkerRuns, worker_acquire, worker_waits,
       worker_exits, worker_body, worker_spurious_wakeup, scopeVars, taskVars,
       workerVars, parentVars, resultVars, seenVars
<1> QED
  BY <1>2, <1>3, <1>4, <1>5, <1>6, <1>7, StepCases DEF vars, Refused, Return,
     ParentInCall, kofun_par_join, kofun_par_scope_cancel,
     kofun_par_scope_exit, wait_for_sleep, drain_skips, stop_workers,
     reap_worker, report_begins, report_task, scope_closes,
     parent_spurious_wakeup, scopeVars, taskVars, workerVars, parentVars,
     resultVars, seenVars

(***************************************************************************)
(* A task being run has one worker, and its body has run as often as that   *)
(* worker's position says.                                                  *)
(***************************************************************************)
LEMMA ClaimStep ==
    ASSUME TypeOK, QueueInv, ClaimInv, RunsOnce, [Next]_vars
    PROVE  ClaimInv'
<1>1. Tasks = 0 .. MaxTasks - 1 /\ MaxTasks \in Nat /\ capacity \in 0 ..
        MaxTasks /\ spawned \in 0 .. capacity /\ next_pending \in 0 .. spawned
        /\ cursor \in Nat /\ state \in [Tasks -> {"PENDING", "RUNNING",
        "DONE"}] /\ wpc \in [Workers -> {"lock", "top", "idle", "body",
        "done", "exited"}] /\ wtask \in [Workers -> Tasks \cup {NoTask}] /\
        runs \in [Tasks -> Nat]
  BY BoundsAssumption DEF TypeOK, Tasks, Workers, NoWorker
<1>2. ASSUME UNCHANGED <<wpc, wtask, state, runs, spawned>>
      PROVE  ClaimInv'
  BY <1>2 DEF ClaimInv, Spawned
<1>3. CASE Entered
  BY <1>1, <1>3, BoundsAssumption DEF Entered, kofun_par_scope_enter,
     taskVars, ClaimInv, Spawned
<1>4. ASSUME NEW hasDiscard \in Discards, kofun_par_spawn(hasDiscard)
      PROVE  ClaimInv'
  BY <1>1, <1>4 DEF kofun_par_spawn, full, slot_reset, signal_work_ready,
     Idle, ClaimInv, Spawned
<1>5. CASE stop_workers
  BY <1>1, <1>5 DEF stop_workers, broadcast_work_ready, Idle, taskVars,
     seenVars, ClaimInv, Spawned
<1>6. ASSUME NEW w \in Workers, WorkerRuns(w) \/ worker_spurious_wakeup(w)
      PROVE  ClaimInv'
  <2>1. CASE worker_acquire(w)
    BY <1>1, <2>1 DEF worker_acquire, scopeVars, taskVars, seenVars, ClaimInv,
       Spawned
  <2>2. CASE worker_waits(w)
    BY <1>1, <2>2 DEF worker_waits, scopeVars, taskVars, seenVars, ClaimInv,
       Spawned
  <2>3. CASE worker_exits(w)
    BY <1>1, <2>3 DEF worker_exits, scopeVars, taskVars, seenVars, ClaimInv,
       Spawned
  <2>4. CASE worker_claims(w)
    BY <1>1, <2>4 DEF worker_claims, pop, seenVars, QueueInv, RunsOnce,
       ClaimInv, Spawned
  <2>5. ASSUME NEW result \in BodyResults, worker_body(w, result)
        PROVE  ClaimInv'
    BY <1>1, <2>5 DEF worker_body, scopeVars, ClaimInv, Spawned
  <2>6. CASE worker_publishes(w)
    BY <1>1, <2>6 DEF worker_publishes, seenVars, ClaimInv, Spawned
  <2>7. CASE worker_spurious_wakeup(w)
    BY <1>1, <2>7 DEF worker_spurious_wakeup, scopeVars, taskVars, seenVars,
       ClaimInv, Spawned
  <2> QED
    BY <1>2, <1>6, <2>1, <2>2, <2>3, <2>4, <2>5, <2>6, <2>7 DEF WorkerRuns,
       scopeVars, taskVars, workerVars, parentVars, resultVars, seenVars
<1> QED
  BY <1>2, <1>3, <1>4, <1>5, <1>6, StepCases DEF vars, Refused, Return,
     ParentInCall, kofun_par_join, kofun_par_scope_cancel,
     kofun_par_scope_exit, wait_for_sleep, join_returns, drain_joins,
     drain_skips, reap_worker, report_begins, report_task, scope_closes,
     parent_spurious_wakeup, scopeVars, taskVars, workerVars, parentVars,
     resultVars, seenVars

(***************************************************************************)
(* Every body runs once: the count moves with the state of its slot.        *)
(***************************************************************************)
LEMMA RunsStep ==
    ASSUME TypeOK, QueueInv, ClaimInv, RunsOnce, [Next]_vars
    PROVE  RunsOnce'
<1>1. Tasks = 0 .. MaxTasks - 1 /\ MaxTasks \in Nat /\ capacity \in 0 ..
        MaxTasks /\ spawned \in 0 .. capacity /\ next_pending \in 0 .. spawned
        /\ cursor \in Nat /\ state \in [Tasks -> {"PENDING", "RUNNING",
        "DONE"}] /\ runs \in [Tasks -> Nat]
  BY BoundsAssumption DEF TypeOK, Tasks, Workers, NoWorker
<1>2. ASSUME UNCHANGED <<spawned, state, runs>>
      PROVE  RunsOnce'
  BY <1>2 DEF RunsOnce, Spawned
<1>3. CASE Entered
  BY <1>1, <1>3, BoundsAssumption DEF Entered, kofun_par_scope_enter,
     taskVars, RunsOnce, Spawned
<1>4. ASSUME NEW hasDiscard \in Discards, kofun_par_spawn(hasDiscard)
      PROVE  RunsOnce'
  BY <1>1, <1>4 DEF kofun_par_spawn, full, slot_reset, RunsOnce, Spawned
<1>5. ASSUME NEW w \in Workers, WorkerRuns(w) \/ worker_spurious_wakeup(w)
      PROVE  RunsOnce'
  <2>1. CASE worker_claims(w)
    BY <1>1, <2>1 DEF worker_claims, seenVars, QueueInv, RunsOnce, Spawned
  <2>2. ASSUME NEW result \in BodyResults, worker_body(w, result)
        PROVE  RunsOnce'
    BY <1>1, <2>2 DEF worker_body, scopeVars, ClaimInv, RunsOnce, Spawned
  <2>3. CASE worker_publishes(w)
    BY <1>1, <2>3 DEF worker_publishes, ClaimInv, seenVars, RunsOnce, Spawned
  <2> QED
    BY <1>2, <1>5, <2>1, <2>2, <2>3 DEF WorkerRuns, worker_acquire,
       worker_waits, worker_exits, worker_spurious_wakeup, scopeVars,
       taskVars, workerVars, parentVars, resultVars, seenVars
<1> QED
  BY <1>2, <1>3, <1>4, <1>5, StepCases DEF vars, Refused, Return,
     ParentInCall, kofun_par_join, kofun_par_scope_cancel,
     kofun_par_scope_exit, wait_for_sleep, join_returns, drain_joins,
     drain_skips, stop_workers, reap_worker, report_begins, report_task,
     scope_closes, parent_spurious_wakeup, scopeVars, taskVars, workerVars,
     parentVars, resultVars, seenVars

(***************************************************************************)
(* Facts about the data the steps below build.  A one-element sequence is a *)
(* sequence over the set of its element.                                    *)
(***************************************************************************)
LEMMA SingletonSeq ==
    ASSUME NEW S, NEW e \in S
    PROVE  <<e>> \in Seq(S)
  OBVIOUS

\* The empty sequence is a sequence over any set.
LEMMA EmptySeqType ==
    ASSUME NEW S
    PROVE  <<>> \in Seq(S)
  OBVIOUS

\* Counting one entry up keeps a function to the naturals, also outside
\* its domain.
LEMMA CountUp ==
    ASSUME NEW S, NEW f \in [S -> Nat], NEW x
    PROVE  [f EXCEPT ![x] = f[x] + 1] \in [S -> Nat]
<1>1. CASE x \in S
  BY <1>1
<1>2. CASE x \notin S
  BY <1>2
<1> QED
  BY <1>1, <1>2

(***************************************************************************)
(* An anchor of the trace names one of the five transitions and a task.     *)
(***************************************************************************)
Trace == Seq(Anchors \X (Tasks \cup {NoTask}))

\* An anchor more is still a trace.
LEMMA EmitType ==
    ASSUME trace \in Trace, NEW anchor \in Anchors,
           NEW task \in Tasks \cup {NoTask}, emit(anchor, task)
    PROVE  trace' \in Trace
  BY DEF emit, Trace

\* The report after one more slot is still a report.
LEMMA ReportType ==
    ASSUME TypeOK, ppc = "report" /\ cursor \in Tasks
    PROVE  report_panic \in [outcome : Outcomes, primary : Tasks \cup {NoTask},
                             message : Messages, related : Seq(Tasks)]
<1> DEFINE R == [outcome : Outcomes, primary : Tasks \cup {NoTask},
                 message : Messages, related : Seq(Tasks)]
<1>1. report \in R /\ panic_message[cursor] \in Messages
  BY DEF TypeOK
<1>2. Append(report.related, cursor) \in Seq(Tasks)
  BY <1>1
<1>3. [report EXCEPT !.primary = cursor, !.message = panic_message[cursor]] \in R
  BY <1>1
<1>4. [report EXCEPT !.related = Append(report.related, cursor)] \in R
  BY <1>1, <1>2
<1> QED
  BY <1>1, <1>3, <1>4 DEF report_panic

(***************************************************************************)
(* Types.  A join's index is a task because the join was not refused.       *)
(***************************************************************************)
LEMMA TypeStep ==
    ASSUME TypeOK, ParentInv, [Next]_vars
    PROVE  TypeOK'
<1>1. MaxTasks \in Nat \ {0} /\ MaxWorkers \in Nat \ {0} /\ MaxEntries \in Nat
  BY BoundsAssumption DEF TypeOK, Tasks, Workers, NoWorker
<1>2. ASSUME UNCHANGED <<scopeVars, taskVars, lock, workerVars, parentVars,
        resultVars, seenVars>>
      PROVE  TypeOK'
  BY <1>2 DEF TypeOK, scopeVars, taskVars, workerVars, parentVars, resultVars,
     seenVars
<1>3. CASE Entered
  <2>1. PICK workers \in Nat, cap \in Nat, started \in 0 .. MaxWorkers :
             kofun_par_scope_enter(workers, cap, started)
    BY <1>3 DEF Entered
  <2>2. trace' \in Trace
    <3>1. PICK e \in Anchors \X (Tasks \cup {NoTask}) :
               e = <<"scope.enter", NoTask>>
      BY DEF Anchors
    <3>2. trace' = <<>> \/ trace' = <<e>>
      BY <2>1, <3>1 DEF kofun_par_scope_enter
    <3> QED
      BY <3>2, SingletonSeq, EmptySeqType DEF Trace
  <2>3. wpc' \in [Workers -> {"lock", "top", "idle", "body", "done", "exited"}]
    BY <2>1 DEF kofun_par_scope_enter
  <2>4. open' \in BOOLEAN /\ status' \in Statuses
    BY <2>1 DEF kofun_par_scope_enter, Statuses
  <2>5. entries' \in 0 .. MaxEntries
    BY <1>1, <2>1 DEF kofun_par_scope_enter, TypeOK
  <2>6. /\ capacity' \in 0 .. MaxTasks /\ worker_count' \in 0 .. MaxWorkers
        /\ spawned' \in 0 .. capacity' /\ next_pending' \in 0 .. spawned'
    BY <1>1, <2>1 DEF kofun_par_scope_enter
  <2> QED
    BY <2>1, <2>2, <2>3, <2>4, <2>5, <2>6 DEF kofun_par_scope_enter,
       clear_cancel, Trace, TypeOK, scopeVars, taskVars, workerVars,
       parentVars, resultVars, seenVars
<1>4. ASSUME NEW hasDiscard \in Discards, kofun_par_spawn(hasDiscard)
      PROVE  TypeOK'
  <2>1. spawned \in Tasks
    BY <1>1, <1>4 DEF kofun_par_spawn, full, TypeOK, Tasks
  <2>2. trace' \in Trace
    BY <1>4, <2>1, EmitType DEF kofun_par_spawn, TypeOK, Trace, Anchors
  <2>3. wpc' \in [Workers -> {"lock", "top", "idle", "body", "done", "exited"}]
    <3>1. UNCHANGED wpc \/ \E w \in Workers : wpc' = [wpc EXCEPT ![w] = "lock"]
      BY <1>4 DEF kofun_par_spawn, signal_work_ready, Idle
    <3> QED
      BY <3>1 DEF TypeOK
  <2>4. spawned' \in 0 .. capacity /\ next_pending \in 0 .. spawned'
    BY <1>1, <1>4 DEF kofun_par_spawn, full, TypeOK
  <2>5. /\ state' \in [Tasks -> {"PENDING", "RUNNING", "DONE"}]
        /\ joined' \in [Tasks -> BOOLEAN]
        /\ runs' \in [Tasks -> Nat] /\ discards' \in [Tasks -> Nat]
    BY <1>4 DEF kofun_par_spawn, slot_reset, TypeOK
  <2>6. /\ outcome' \in [Tasks -> Outcomes]
        /\ panic_message' \in [Tasks -> Messages]
        /\ told' \in [Tasks -> Outcomes \cup {"none"}]
        /\ discard' \in [Tasks -> BOOLEAN]
    BY <1>4, BoundsAssumption DEF kofun_par_spawn, TypeOK, Outcomes, Messages
  <2> QED
    BY <1>4, <2>2, <2>3, <2>4, <2>5, <2>6 DEF kofun_par_spawn, Trace, Statuses,
       TypeOK, scopeVars, taskVars, workerVars,
       parentVars, resultVars, seenVars
<1>5. ASSUME NEW handle \in Tasks, kofun_par_join(handle)
      PROVE  TypeOK'
  BY <1>1, <1>5 DEF kofun_par_join, Tasks, TypeOK, scopeVars, taskVars,
     workerVars, parentVars, resultVars, seenVars
<1>6. CASE kofun_par_scope_cancel
  BY <1>1, <1>6 DEF kofun_par_scope_cancel, Statuses, TypeOK, scopeVars,
     taskVars, workerVars, parentVars, resultVars, seenVars
<1>7. CASE kofun_par_scope_exit
  BY <1>1, <1>7 DEF kofun_par_scope_exit, TypeOK, scopeVars, taskVars,
     workerVars, parentVars, resultVars, seenVars
<1>8. CASE wait_for_sleep
  BY <1>1, <1>8 DEF wait_for_sleep, TypeOK, scopeVars, taskVars, workerVars,
     parentVars, resultVars, seenVars
<1>9. CASE join_returns
  <2>1. cursor \in Tasks
    BY <1>1, <1>9 DEF join_returns, ParentInv, TypeOK, Tasks
  <2>2. trace' \in Trace
    BY <1>9, <2>1, EmitType DEF join_returns, TypeOK, Trace, Anchors
  <2>3. /\ told' \in [Tasks -> Outcomes \cup {"none"}]
        /\ joined' \in [Tasks -> BOOLEAN]
    BY <1>9, <2>1 DEF join_returns, TypeOK
  <2> QED
    BY <1>9, <2>2, <2>3 DEF join_returns, Trace, Statuses, TypeOK, scopeVars,
       workerVars
<1>10. CASE drain_joins
  <2>1. cursor \in Tasks
    BY <1>1, <1>10 DEF drain_joins, TypeOK, Tasks
  <2>2. trace' \in Trace
    BY <1>10, <2>1, EmitType DEF drain_joins, TypeOK, Trace, Anchors
  <2>3. discards' \in [Tasks -> Nat] /\ joined' \in [Tasks -> BOOLEAN]
    BY <1>10, <2>1 DEF drain_joins, TypeOK
  <2> QED
    BY <1>10, <2>2, <2>3 DEF drain_joins, Trace, TypeOK, scopeVars, workerVars,
       resultVars
<1>11. CASE drain_skips
  <2>1. cursor' \in Nat
    BY <1>11 DEF drain_skips, TypeOK
  <2> QED
    BY <1>11, <2>1 DEF drain_skips, TypeOK, scopeVars, taskVars, workerVars,
       parentVars, resultVars, seenVars
<1>12. CASE stop_workers
  BY <1>1, <1>12 DEF stop_workers, broadcast_work_ready, Idle, TypeOK,
     scopeVars, taskVars, workerVars, parentVars, resultVars, seenVars
<1>13. CASE reap_worker
  <2>1. cursor' \in Nat
    BY <1>13 DEF reap_worker, TypeOK
  <2> QED
    BY <1>13, <2>1 DEF reap_worker, TypeOK, scopeVars, taskVars, workerVars,
       parentVars, resultVars, seenVars
<1>14. CASE report_begins
  <2>1. report' \in [outcome : Outcomes, primary : Tasks \cup {NoTask},
                    message : Messages, related : Seq(Tasks)]
    BY <1>14 DEF report_begins, NoReport, Outcomes, Messages
  <2> QED
    BY <1>1, <1>14, <2>1 DEF report_begins, cancelled_at_first, TypeOK,
       taskVars,
       workerVars, seenVars
<1>15. CASE report_task
  <2>1. cursor \in Tasks
    BY <1>1, <1>15 DEF report_task, TypeOK, Tasks
  <2>2. report' \in [outcome : Outcomes, primary : Tasks \cup {NoTask},
                    message : Messages, related : Seq(Tasks)]
    BY <1>15, <2>1, ReportType DEF report_task
  <2> QED
    BY <1>15, <2>2 DEF report_task, TypeOK, scopeVars, taskVars, workerVars,
       seenVars
<1>16. CASE scope_closes
  <2>1. trace' \in Trace
    BY <1>16, EmitType DEF scope_closes, TypeOK, Trace, Anchors
  <2>2. report' \in [outcome : Outcomes, primary : Tasks \cup {NoTask},
                    message : Messages, related : Seq(Tasks)]
    BY <1>16 DEF scope_closes, TypeOK, Outcomes
  <2> QED
    BY <1>16, <2>1, <2>2 DEF scope_closes, Trace, Statuses, TypeOK, taskVars,
       workerVars
<1>17. CASE parent_spurious_wakeup
  <2>1. asleep' \in BOOLEAN
    BY <1>17 DEF parent_spurious_wakeup
  <2> QED
    BY <1>17, <2>1 DEF parent_spurious_wakeup, TypeOK, scopeVars, taskVars,
       workerVars,
       parentVars, resultVars, seenVars
<1>18. ASSUME NEW w \in Workers, WorkerRuns(w) \/ worker_spurious_wakeup(w)
      PROVE  TypeOK'
  <2>1. CASE worker_acquire(w)
    <3>1. wpc' \in [Workers -> {"lock", "top", "idle", "body", "done", "exited"}]
      BY <2>1 DEF worker_acquire, TypeOK
    <3>2. lock' \in Workers \cup {NoWorker}
      BY <2>1 DEF worker_acquire, TypeOK
    <3> QED
      BY <2>1, <3>1, <3>2 DEF worker_acquire, TypeOK, scopeVars, taskVars,
         workerVars,
         parentVars, resultVars, seenVars
  <2>2. CASE worker_waits(w)
    <3>1. wpc' \in [Workers -> {"lock", "top", "idle", "body", "done", "exited"}]
      BY <2>2 DEF worker_waits, TypeOK
    <3>2. lock' \in Workers \cup {NoWorker}
      BY <2>2 DEF worker_waits, TypeOK
    <3> QED
      BY <2>2, <3>1, <3>2 DEF worker_waits, TypeOK, scopeVars, taskVars,
         workerVars,
         parentVars, resultVars, seenVars
  <2>3. CASE worker_exits(w)
    <3>1. wpc' \in [Workers -> {"lock", "top", "idle", "body", "done", "exited"}]
      BY <2>3 DEF worker_exits, TypeOK
    <3>2. lock' \in Workers \cup {NoWorker}
      BY <2>3 DEF worker_exits, TypeOK
    <3> QED
      BY <2>3, <3>1, <3>2 DEF worker_exits, TypeOK, scopeVars, taskVars,
         workerVars,
         parentVars, resultVars, seenVars
  <2>4. CASE worker_claims(w)
    <3>1. next_pending \in Tasks
      BY <1>1, <2>4 DEF worker_claims, TypeOK, Tasks
    <3>2. next_pending' \in 0 .. spawned' /\ spawned' \in 0 .. capacity'
      BY <1>1, <2>4 DEF worker_claims, pop, TypeOK
    <3>3. wpc' \in [Workers -> {"lock", "top", "idle", "body", "done", "exited"}]
      BY <2>4 DEF worker_claims, TypeOK
    <3>4. /\ wtask' \in [Workers -> Tasks \cup {NoTask}]
          /\ state' \in [Tasks -> {"PENDING", "RUNNING", "DONE"}]
      BY <2>4, <3>1 DEF worker_claims, TypeOK
    <3> QED
      BY <2>4, <3>2, <3>3, <3>4 DEF worker_claims, TypeOK, scopeVars,
         taskVars, workerVars,
         parentVars, resultVars, seenVars
  <2>5. ASSUME NEW result \in BodyResults, worker_body(w, result)
        PROVE  TypeOK'
    <3>1. result \in AllResults
      BY BoundsAssumption
    <3>2. PICK o \in Outcomes, m \in Messages : result = <<o, m>>
      BY <3>1 DEF AllResults, Outcomes, Messages
    <3>3. result[1] \in Outcomes /\ result[2] \in Messages
      BY <3>2
    <3>4. runs' \in [Tasks -> Nat]
      <4>1. /\ runs \in [Tasks -> Nat]
            /\ runs' = [runs EXCEPT ![wtask[w]] = runs[wtask[w]] + 1]
        BY <2>5 DEF worker_body, TypeOK
      <4> QED
        BY <4>1, CountUp
    <3>5. woutcome' \in [Workers -> Outcomes]
      BY <2>5, <3>3 DEF worker_body, TypeOK
    <3>6. panic_message' \in [Tasks -> Messages]
      BY <2>5, <3>3 DEF worker_body, TypeOK
    <3> QED
      BY <2>5, <3>4, <3>5, <3>6 DEF worker_body, TypeOK, scopeVars, taskVars,
         workerVars,
       parentVars, resultVars, seenVars
  <2>6. CASE worker_publishes(w)
    <3>1. wpc' \in [Workers -> {"lock", "top", "idle", "body", "done", "exited"}]
      BY <2>6 DEF worker_publishes, TypeOK
    <3>2. /\ outcome' \in [Tasks -> Outcomes]
          /\ state' \in [Tasks -> {"PENDING", "RUNNING", "DONE"}]
      BY <2>6 DEF worker_publishes, TypeOK
    <3>3. /\ wtask' \in [Workers -> Tasks \cup {NoTask}]
          /\ woutcome' \in [Workers -> Outcomes]
      BY <2>6 DEF worker_publishes, TypeOK, Outcomes
    <3>4. cancel_requested' \in BOOLEAN /\ asleep' \in BOOLEAN
      BY <2>6 DEF worker_publishes, cancel_siblings, broadcast_task_done, TypeOK
    <3> QED
      BY <2>6, <3>1, <3>2, <3>3, <3>4 DEF worker_publishes, TypeOK, scopeVars,
         taskVars, workerVars,
         parentVars, resultVars, seenVars
  <2>7. CASE worker_spurious_wakeup(w)
    <3>1. wpc' \in [Workers -> {"lock", "top", "idle", "body", "done", "exited"}]
      BY <2>7 DEF worker_spurious_wakeup, TypeOK
    <3>2. lock' \in Workers \cup {NoWorker}
      BY <2>7 DEF worker_spurious_wakeup, TypeOK
    <3> QED
      BY <2>7, <3>1, <3>2 DEF worker_spurious_wakeup, TypeOK, scopeVars,
         taskVars, workerVars,
         parentVars, resultVars, seenVars
  <2> QED
    BY <1>2, <1>18, <2>1, <2>2, <2>3, <2>4, <2>5, <2>6, <2>7 DEF WorkerRuns,
       scopeVars, taskVars, workerVars, parentVars, resultVars, seenVars
<1>19. CASE Refused
  BY <1>19 DEF Refused, Return, TypeOK, scopeVars, taskVars, workerVars,
     parentVars, resultVars, seenVars
<1> QED
  BY <1>2, <1>3, <1>4, <1>5, <1>6, <1>7, <1>8,
     <1>9, <1>10, <1>11, <1>12, <1>13, <1>14, <1>15, <1>16, <1>17, <1>18, <1>19,
     StepCases DEF vars, ParentInCall

(***************************************************************************)
(* A join tells the final outcome: a published outcome never changes.       *)
(***************************************************************************)
LEMMA JoinTellsStep ==
    ASSUME TypeOK, ParentInv, QueueInv, ClaimInv, JoinTellsOutcome, [Next]_vars
    PROVE  JoinTellsOutcome'
<1>1. Tasks = 0 .. MaxTasks - 1 /\ MaxTasks \in Nat /\ capacity \in 0 ..
        MaxTasks /\ spawned \in 0 .. capacity /\ next_pending \in 0 .. spawned
        /\ cursor \in Nat /\ state \in [Tasks -> {"PENDING", "RUNNING",
        "DONE"}] /\ outcome \in [Tasks -> Outcomes] /\ told \in [Tasks ->
        Outcomes \cup {"none"}] /\ joined \in [Tasks -> BOOLEAN]
  BY BoundsAssumption DEF TypeOK, Tasks, Workers, NoWorker
<1>2. ASSUME UNCHANGED <<spawned, told, joined, state, outcome>>
      PROVE  JoinTellsOutcome'
  BY <1>2 DEF JoinTellsOutcome, Spawned
<1>3. CASE Entered
  BY <1>1, <1>3, BoundsAssumption DEF Entered, kofun_par_scope_enter,
     taskVars, JoinTellsOutcome, Spawned
<1>4. ASSUME NEW hasDiscard \in Discards, kofun_par_spawn(hasDiscard)
      PROVE  JoinTellsOutcome'
  BY <1>1, <1>4 DEF kofun_par_spawn, full, slot_reset, JoinTellsOutcome,
     Spawned
<1>5. CASE join_returns
  BY <1>1, <1>5 DEF join_returns, scopeVars, task_done, JoinTellsOutcome,
     Spawned
<1>6. CASE drain_joins
  BY <1>1, <1>6 DEF drain_joins, scopeVars, task_done, JoinTellsOutcome,
     Spawned
<1>7. ASSUME NEW w \in Workers, WorkerRuns(w) \/ worker_spurious_wakeup(w)
      PROVE  JoinTellsOutcome'
  <2>1. CASE worker_claims(w)
    BY <1>1, <2>1 DEF worker_claims, seenVars, QueueInv, JoinTellsOutcome,
       Spawned
  <2>2. CASE worker_publishes(w)
    BY <1>1, <2>2 DEF worker_publishes, seenVars, ClaimInv, JoinTellsOutcome,
       Spawned
  <2> QED
    BY <1>2, <1>7, <2>1, <2>2 DEF WorkerRuns, worker_acquire, worker_waits,
       worker_exits, worker_body, worker_spurious_wakeup, scopeVars, taskVars,
       workerVars, parentVars, resultVars, seenVars
<1> QED
  BY <1>2, <1>3, <1>4, <1>5, <1>6, <1>7, StepCases DEF vars, Refused, Return,
     ParentInCall, kofun_par_join, kofun_par_scope_cancel,
     kofun_par_scope_exit, wait_for_sleep, drain_skips, stop_workers,
     reap_worker, report_begins, report_task, scope_closes,
     parent_spurious_wakeup, scopeVars, taskVars, workerVars, parentVars,
     resultVars, seenVars

(***************************************************************************)
(* A result is discarded by the join of scope exit only, and the outcome the*)
(* discard depends on is final by then.                                     *)
(***************************************************************************)
LEMMA DiscardsStep ==
    ASSUME TypeOK, ParentInv, QueueInv, ClaimInv, JoinTellsOutcome,
           DiscardsUnconsumed, [Next]_vars
    PROVE  DiscardsUnconsumed'
<1>1. Tasks = 0 .. MaxTasks - 1 /\ MaxTasks \in Nat /\ capacity \in 0 ..
        MaxTasks /\ spawned \in 0 .. capacity /\ next_pending \in 0 .. spawned
        /\ cursor \in Nat /\ state \in [Tasks -> {"PENDING", "RUNNING",
        "DONE"}] /\ outcome \in [Tasks -> Outcomes] /\ told \in [Tasks ->
        Outcomes \cup {"none"}] /\ joined \in [Tasks -> BOOLEAN] /\ discard
        \in [Tasks -> BOOLEAN] /\ discards \in [Tasks -> Nat] /\ "none" \notin
        Outcomes
  BY BoundsAssumption DEF TypeOK, Tasks, Workers, NoWorker, Outcomes
<1>2. ASSUME UNCHANGED <<spawned, discards, told, joined, discard, outcome>>
      PROVE  DiscardsUnconsumed'
  BY <1>2 DEF DiscardsUnconsumed, Spawned
<1>3. CASE Entered
  BY <1>1, <1>3, BoundsAssumption DEF Entered, kofun_par_scope_enter,
     taskVars, DiscardsUnconsumed, Spawned
<1>4. ASSUME NEW hasDiscard \in Discards, kofun_par_spawn(hasDiscard)
      PROVE  DiscardsUnconsumed'
  BY <1>1, <1>4, BoundsAssumption DEF kofun_par_spawn, full, slot_reset,
     DiscardsUnconsumed, Spawned
<1>5. CASE join_returns
  BY <1>1, <1>5 DEF join_returns, scopeVars, task_done, ParentInv, Outcomes,
     DiscardsUnconsumed, Spawned
<1>6. CASE drain_joins
  BY <1>1, <1>6 DEF drain_joins, scopeVars, task_done, discards_result,
     JoinTellsOutcome, DiscardsUnconsumed, Spawned
<1>7. ASSUME NEW w \in Workers, WorkerRuns(w) \/ worker_spurious_wakeup(w)
      PROVE  DiscardsUnconsumed'
  <2>1. CASE worker_publishes(w)
    BY <1>1, <2>1 DEF worker_publishes, seenVars, ClaimInv, QueueInv,
       DiscardsUnconsumed, Spawned
  <2> QED
    BY <1>2, <1>7, <2>1 DEF WorkerRuns, worker_acquire, worker_waits,
       worker_exits, worker_claims, worker_body, worker_spurious_wakeup,
       scopeVars, taskVars, workerVars, parentVars, resultVars, seenVars
<1> QED
  BY <1>2, <1>3, <1>4, <1>5, <1>6, <1>7, StepCases DEF vars, Refused, Return,
     ParentInCall, kofun_par_join, kofun_par_scope_cancel,
     kofun_par_scope_exit, wait_for_sleep, drain_skips, stop_workers,
     reap_worker, report_begins, report_task, scope_closes,
     parent_spurious_wakeup, scopeVars, taskVars, workerVars, parentVars,
     resultVars, seenVars

(***************************************************************************)
(* Cancellation is requested with the parent's flag or with the outcome that*)
(* justifies it, in one critical section.                                   *)
(***************************************************************************)
LEMMA CancelStep ==
    ASSUME TypeOK, QueueInv, ClaimInv, CancelJustified, [Next]_vars
    PROVE  CancelJustified'
<1>1. Tasks = 0 .. MaxTasks - 1 /\ MaxTasks \in Nat /\ capacity \in 0 ..
        MaxTasks /\ spawned \in 0 .. capacity /\ next_pending \in 0 .. spawned
        /\ cursor \in Nat /\ state \in [Tasks -> {"PENDING", "RUNNING",
        "DONE"}] /\ outcome \in [Tasks -> Outcomes] /\ cancel_requested \in
        BOOLEAN /\ parent_cancelled \in BOOLEAN
  BY BoundsAssumption DEF TypeOK, Tasks, Workers, NoWorker
<1>2. ASSUME UNCHANGED <<cancel_requested, parent_cancelled, spawned, state,
        outcome>>
      PROVE  CancelJustified'
  BY <1>2 DEF CancelJustified, Spawned
<1>3. CASE Entered
  BY <1>1, <1>3, BoundsAssumption DEF Entered, kofun_par_scope_enter,
     clear_cancel, taskVars, CancelJustified, Spawned
<1>4. ASSUME NEW hasDiscard \in Discards, kofun_par_spawn(hasDiscard)
      PROVE  CancelJustified'
  BY <1>1, <1>4 DEF kofun_par_spawn, full, slot_reset, CancelJustified,
     Spawned
<1>5. CASE kofun_par_scope_cancel
  BY <1>1, <1>5 DEF kofun_par_scope_cancel, taskVars, CancelJustified, Spawned
<1>6. ASSUME NEW w \in Workers, WorkerRuns(w) \/ worker_spurious_wakeup(w)
      PROVE  CancelJustified'
  <2>1. CASE worker_claims(w)
    BY <1>1, <2>1 DEF worker_claims, QueueInv, CancelJustified, Spawned
  <2>2. CASE worker_publishes(w)
    BY <1>1, <2>2 DEF worker_publishes, cancel_siblings, ClaimInv,
       CancelJustified, Spawned
  <2> QED
    BY <1>2, <1>6, <2>1, <2>2 DEF WorkerRuns, worker_acquire, worker_waits,
       worker_exits, worker_body, worker_spurious_wakeup, scopeVars, taskVars,
       workerVars, parentVars, resultVars, seenVars
<1> QED
  BY <1>2, <1>3, <1>4, <1>5, <1>6, StepCases DEF vars, Refused, Return,
     ParentInCall, kofun_par_join, kofun_par_scope_exit, wait_for_sleep,
     join_returns, drain_joins, drain_skips, stop_workers, reap_worker,
     report_begins, report_task, scope_closes, parent_spurious_wakeup,
     scopeVars, taskVars, workerVars, parentVars, resultVars, seenVars

(***************************************************************************)
(* The inductive invariant.                                                 *)
(***************************************************************************)
LEMMA InitInv == Init => Inv
<1> SUFFICES ASSUME Init PROVE Inv
  OBVIOUS
<1>1. TypeOK
  <2>1. report \in [outcome : Outcomes, primary : Tasks \cup {NoTask},
                    message : Messages, related : Seq(Tasks)]
    BY DEF Init, NoReport, Outcomes, Messages
  <2>2. /\ open \in BOOLEAN /\ shutting_down \in BOOLEAN
        /\ parent_cancelled \in BOOLEAN /\ cancel_requested \in BOOLEAN
        /\ asleep \in BOOLEAN /\ cancelled \in BOOLEAN
        /\ ppc \in {"user", "join", "drain", "reap", "report"}
        /\ status \in Statuses /\ lock \in Workers \cup {NoWorker}
    BY DEF Init, Statuses
  <2>3. /\ capacity \in 0 .. MaxTasks /\ spawned \in 0 .. capacity
        /\ next_pending \in 0 .. spawned /\ worker_count \in 0 .. MaxWorkers
        /\ cursor \in Nat /\ entries \in 0 .. MaxEntries
    BY BoundsAssumption DEF Init
  <2>4. /\ state \in [Tasks -> {"PENDING", "RUNNING", "DONE"}]
        /\ outcome \in [Tasks -> Outcomes]
        /\ panic_message \in [Tasks -> Messages]
        /\ joined \in [Tasks -> BOOLEAN] /\ discard \in [Tasks -> BOOLEAN]
        /\ runs \in [Tasks -> Nat] /\ discards \in [Tasks -> Nat]
        /\ told \in [Tasks -> Outcomes \cup {"none"}]
    BY DEF Init, Outcomes, Messages
  <2>5. /\ wpc \in [Workers -> {"lock", "top", "idle", "body", "done", "exited"}]
        /\ wtask \in [Workers -> Tasks \cup {NoTask}]
        /\ woutcome \in [Workers -> Outcomes]
    BY DEF Init, Outcomes
  <2>6. trace \in Trace
    BY EmptySeqType DEF Init, Trace
  <2> QED
    BY <2>1, <2>2, <2>3, <2>4, <2>5, <2>6 DEF TypeOK, Trace
<1>2. RuntimeInv
  BY BoundsAssumption DEF Init, RuntimeInv, LockInv, ThreadsInv, ParentInv,
     QueueInv, ClaimInv, Spawned, Tasks, Workers, NoWorker
<1>3. RunsOnce
  BY DEF Init, RunsOnce, Spawned, Tasks
<1> QED
  BY <1>1, <1>2, <1>3 DEF Inv

\* Every step keeps Inv: one lemma per part.
LEMMA StepInv == Inv /\ [Next]_vars => Inv'
  BY TypeStep, LockStep, ThreadsStep, ParentStep, QueueStep, ClaimStep, RunsStep
     DEF Inv, RuntimeInv

(***************************************************************************)
(* The types, the runtime invariant and "every spawned body runs exactly    *)
(* once" hold of every scope, however many tasks and workers it has.        *)
(***************************************************************************)
THEOREM InvHolds == Spec => []Inv
  BY InitInv, StepInv, PTL DEF Spec

\* Type correctness of the runtime's state.
THEOREM TypeCorrect == Spec => []TypeOK
<1>1. Inv => TypeOK
  BY DEF Inv
<1> QED
  BY <1>1, InvHolds, PTL

\* The parts of the inductive invariant, as the property the runs check.
THEOREM RuntimeInvHolds == Spec => []RuntimeInv
<1>1. Inv => RuntimeInv
  BY DEF Inv
<1> QED
  BY <1>1, InvHolds, PTL

(***************************************************************************)
(* A body never runs twice, and has run when its task is done.              *)
(***************************************************************************)
THEOREM BodiesRunOnce == Spec => []RunsOnce
<1>1. Inv => RunsOnce
  BY DEF Inv
<1> QED
  BY <1>1, InvHolds, PTL

(***************************************************************************)
(* The barrier: a closed scope has no thread, a free mutex, and only        *)
(* finished, joined tasks.  destroy_primitives is safe.                     *)
(***************************************************************************)
THEOREM ScopeExitIsBarrier == Spec => []Barrier
<1>1. Inv => Barrier
  <2> SUFFICES ASSUME Inv, ~open PROVE Barrier
    BY DEF Barrier
  <2>1. \A w \in Workers : wpc[w] = "exited"
    BY BoundsAssumption DEF Inv, RuntimeInv, ThreadsInv, Workers
  <2>2. lock = NoWorker
    BY <2>1 DEF Inv, RuntimeInv, LockInv, TypeOK
  <2>3. \A t \in Spawned : state[t] = "DONE" /\ joined[t]
    BY DEF Inv, RuntimeInv, ParentInv, QueueInv
  <2> QED
    BY <2>1, <2>2, <2>3 DEF Barrier
<1> QED
  BY <1>1, InvHolds, PTL

(***************************************************************************)
(* What an explicit join returned is the task's final outcome.              *)
(***************************************************************************)
THEOREM JoinsTellOutcomes == Spec => []JoinTellsOutcome
<1>1. Init => JoinTellsOutcome
  BY DEF Init, JoinTellsOutcome, Spawned, Tasks
<1>2. Inv /\ JoinTellsOutcome /\ [Next]_vars => JoinTellsOutcome'
  BY JoinTellsStep DEF Inv, RuntimeInv
<1> QED
  BY <1>1, <1>2, InvHolds, PTL DEF Spec

(***************************************************************************)
(* Scope exit discards every successful result nobody consumed, once, and   *)
(* no result the parent took.                                               *)
(***************************************************************************)
THEOREM DiscardsAreExact == Spec => []DiscardsUnconsumed
<1>1. Init => DiscardsUnconsumed
  BY DEF Init, DiscardsUnconsumed, Spawned, Tasks
<1>2. Inv /\ JoinTellsOutcome /\ DiscardsUnconsumed /\ [Next]_vars
        => DiscardsUnconsumed'
  BY DiscardsStep DEF Inv, RuntimeInv
<1> QED
  BY <1>1, <1>2, InvHolds, JoinsTellOutcomes, PTL DEF Spec

(***************************************************************************)
(* Cancellation is visible exactly when the parent or a published panic     *)
(* asked for it.                                                            *)
(***************************************************************************)
THEOREM CancellationIsJustified == Spec => []CancelJustified
<1>1. Init => CancelJustified
  BY DEF Init, CancelJustified, Spawned, Tasks
<1>2. Inv /\ CancelJustified /\ [Next]_vars => CancelJustified'
  BY CancelStep DEF Inv, RuntimeInv
<1> QED
  BY <1>1, <1>2, InvHolds, PTL DEF Spec

(***************************************************************************)
(* No wake-up is lost.  A signal adds an awake worker for the task it is    *)
(* about, a claim takes one away with its task, and a worker goes to sleep  *)
(* or exits only when the queue is empty.                                   *)
(***************************************************************************)
AwakeIn(f) == {w \in Workers : f[w] \in {"lock", "top"}}

Awake == AwakeIn(wpc)

\* The awake workers can be counted.
LEMMA AwakeIsFinite ==
    ASSUME NEW f
    PROVE  IsFiniteSet(AwakeIn(f)) /\ Cardinality(AwakeIn(f)) \in Nat
<1>1. IsFiniteSet(Workers) /\ AwakeIn(f) \subseteq Workers
  BY BoundsAssumption, FS_Interval DEF Workers, AwakeIn
<1> QED
  BY <1>1, FS_Subset, FS_CardinalityType

\* How many workers are awake after one of them went to sleep or woke up.
LEMMA AwakeChanges ==
    ASSUME TypeOK, TypeOK', NEW w \in Workers, NEW pc,
           wpc' = [wpc EXCEPT ![w] = pc]
    PROVE  /\ Cardinality(Awake)' \in Nat
           /\ w \in Awake /\ pc \notin {"lock", "top"}
                => Cardinality(Awake)' = Cardinality(Awake) - 1
           /\ w \notin Awake /\ pc \in {"lock", "top"}
                => Cardinality(Awake)' = Cardinality(Awake) + 1
           /\ (w \in Awake <=> pc \in {"lock", "top"})
                => Cardinality(Awake)' = Cardinality(Awake)
<1>1. IsFiniteSet(Awake) /\ Cardinality(Awake) \in Nat
  BY AwakeIsFinite DEF Awake
<1>2. IsFiniteSet(Awake') /\ Cardinality(Awake') \in Nat
  <2>1. Awake' = AwakeIn(wpc')
    BY DEF Awake, AwakeIn
  <2>2. IsFiniteSet(AwakeIn(wpc')) /\ Cardinality(AwakeIn(wpc')) \in Nat
    BY AwakeIsFinite
  <2> QED
    BY ONLY <2>1, <2>2
<1>3. Awake' = IF pc \in {"lock", "top"} THEN Awake \cup {w} ELSE Awake \ {w}
  <2>1. \A v \in Workers : wpc'[v] = IF v = w THEN pc ELSE wpc[v]
    BY DEF TypeOK
  <2>2. \A v : v \in Awake' <=>
           v \in Workers /\ (IF v = w THEN pc ELSE wpc[v]) \in {"lock", "top"}
    BY <2>1 DEF Awake, AwakeIn
  <2>3. \A v : v \in Awake <=> v \in Workers /\ wpc[v] \in {"lock", "top"}
    BY DEF Awake, AwakeIn
  <2>4. CASE pc \in {"lock", "top"}
    BY <2>2, <2>3, <2>4
  <2>5. CASE pc \notin {"lock", "top"}
    BY <2>2, <2>3, <2>5
  <2> QED
    BY <2>4, <2>5
<1> QED
  BY <1>1, <1>2, <1>3, FS_AddElement, FS_RemoveElement

\* Every step wakes as many workers as it leaves tasks for them.
LEMMA WorkConservingStep ==
    ASSUME TypeOK, TypeOK', WorkConserving, [Next]_vars
    PROVE  WorkConserving'
<1>1. /\ spawned \in Nat /\ next_pending \in 0 .. spawned
      /\ spawned' \in Nat /\ next_pending' \in 0 .. spawned'
      /\ wpc \in [Workers -> {"lock", "top", "idle", "body", "done", "exited"}]
      /\ Cardinality(Awake) \in Nat /\ Cardinality(Awake') \in Nat
  <2>1. Awake' = AwakeIn(wpc') /\ Awake = AwakeIn(wpc)
    BY DEF Awake, AwakeIn
  <2>2. Cardinality(Awake) \in Nat /\ Cardinality(Awake') \in Nat
    BY <2>1, AwakeIsFinite
  <2> QED
    BY <2>2, BoundsAssumption DEF TypeOK
<1>2. /\ WorkConserving <=>
            (Idle # {} => spawned - next_pending <= Cardinality(Awake))
      /\ WorkConserving' <=>
            (Idle' # {} => spawned' - next_pending' <= Cardinality(Awake'))
  BY DEF WorkConserving, Awake, AwakeIn
<1>3. ASSUME UNCHANGED <<wpc, spawned, next_pending>>
      PROVE  WorkConserving'
  BY <1>3 DEF WorkConserving, Idle
<1>4. ASSUME spawned' = next_pending'
      PROVE  WorkConserving'
  BY <1>1, <1>2, <1>4
<1>5. CASE Entered
  BY <1>4, <1>5 DEF Entered, kofun_par_scope_enter
<1>6. ASSUME NEW hasDiscard \in Discards, kofun_par_spawn(hasDiscard)
      PROVE  WorkConserving'
  <2>1. spawned' = spawned + 1 /\ next_pending' = next_pending /\ signal_work_ready
    BY <1>6 DEF kofun_par_spawn
  <2>2. CASE Idle = {}
    BY <1>2, <2>1, <2>2 DEF signal_work_ready, Idle
  <2>3. CASE Idle # {}
    <3>1. PICK w \in Idle : wpc' = [wpc EXCEPT ![w] = "lock"]
      BY <2>1, <2>3 DEF signal_work_ready
    <3>2. w \in Workers /\ w \notin Awake
      BY <3>1 DEF Idle, Awake, AwakeIn
    <3>3. Cardinality(Awake') = Cardinality(Awake) + 1
      BY <3>1, <3>2, AwakeChanges
    <3> QED
      BY <1>1, <1>2, <2>1, <2>3, <3>3
  <2> QED
    BY <2>2, <2>3
<1>7. CASE stop_workers
  <2>1. Idle' = {}
    BY <1>1, <1>7 DEF stop_workers, broadcast_work_ready, Idle
  <2> QED
    BY <1>2, <2>1
<1>8. ASSUME NEW w \in Workers, WorkerRuns(w) \/ worker_spurious_wakeup(w)
      PROVE  WorkConserving'
  <2>1. CASE worker_acquire(w)
    <3>1. UNCHANGED <<spawned, next_pending>> /\ Idle' = Idle
          /\ w \in Awake /\ wpc' = [wpc EXCEPT ![w] = "top"]
      BY <1>1, <2>1 DEF worker_acquire, scopeVars, Idle, Awake, AwakeIn
    <3>2. Cardinality(Awake') = Cardinality(Awake)
      BY <3>1, AwakeChanges
    <3> QED
      BY <1>2, <3>1, <3>2
  <2>2. CASE worker_waits(w) \/ worker_exits(w)
    BY <1>4, <2>2 DEF worker_waits, worker_exits, scopeVars
  <2>3. CASE worker_claims(w)
    <3>1. spawned' = spawned /\ next_pending' = next_pending + 1 /\ Idle' = Idle
          /\ w \in Awake /\ wpc' = [wpc EXCEPT ![w] = "body"]
      BY <1>1, <2>3 DEF worker_claims, pop, Idle, Awake, AwakeIn
    <3>2. Cardinality(Awake') = Cardinality(Awake) - 1
      <4>1. "body" \notin {"lock", "top"}
        OBVIOUS
      <4> QED
        BY <3>1, <4>1, AwakeChanges
    <3> QED
      BY <1>1, <1>2, <3>1, <3>2
  <2>4. ASSUME NEW result \in BodyResults, worker_body(w, result)
        PROVE  WorkConserving'
    <3>1. UNCHANGED <<spawned, next_pending>> /\ Idle' = Idle
          /\ w \notin Awake /\ wpc' = [wpc EXCEPT ![w] = "done"]
      BY <1>1, <2>4 DEF worker_body, scopeVars, Idle, Awake, AwakeIn
    <3>2. Cardinality(Awake') = Cardinality(Awake)
      <4>1. "done" \notin {"lock", "top"}
        OBVIOUS
      <4> QED
        BY <3>1, <4>1, AwakeChanges
    <3> QED
      BY <1>2, <3>1, <3>2
  <2>5. CASE worker_publishes(w)
    <3>1. UNCHANGED <<spawned, next_pending>> /\ Idle' = Idle
          /\ w \notin Awake /\ wpc' = [wpc EXCEPT ![w] = "top"]
      BY <1>1, <2>5 DEF worker_publishes, Idle, Awake, AwakeIn
    <3>2. Cardinality(Awake') = Cardinality(Awake) + 1
      BY <3>1, AwakeChanges
    <3> QED
      BY <1>1, <1>2, <3>1, <3>2
  <2>6. CASE worker_spurious_wakeup(w)
    <3>1. UNCHANGED <<spawned, next_pending>> /\ Idle # {}
          /\ w \notin Awake /\ wpc' = [wpc EXCEPT ![w] = "lock"]
      BY <1>1, <2>6 DEF worker_spurious_wakeup, scopeVars, Idle, Awake, AwakeIn
    <3>2. Cardinality(Awake') = Cardinality(Awake) + 1
      BY <3>1, AwakeChanges
    <3> QED
      BY <1>1, <1>2, <3>1, <3>2
  <2> QED
    BY <1>8, <2>1, <2>2, <2>3, <2>4, <2>5, <2>6 DEF WorkerRuns
<1> QED
  BY <1>3, <1>5, <1>6, <1>7, <1>8, StepCases DEF vars, Refused, Return,
     ParentInCall, kofun_par_join, kofun_par_scope_cancel,
     kofun_par_scope_exit, wait_for_sleep, join_returns, drain_joins,
     drain_skips, reap_worker, report_begins, report_task, scope_closes,
     parent_spurious_wakeup, scopeVars, taskVars, workerVars, parentVars,
     resultVars, seenVars

(***************************************************************************)
(* While a worker sleeps, the awake ones are enough for the queue: one      *)
(* pthread_cond_signal per spawn loses no task, for any number of workers.  *)
(***************************************************************************)
THEOREM WorkIsConserved == Spec => []WorkConserving
<1>1. Init => WorkConserving
  BY DEF Init, WorkConserving, Idle
<1>2. TypeOK /\ TypeOK' /\ WorkConserving /\ [Next]_vars => WorkConserving'
  BY WorkConservingStep
<1> QED
  BY <1>1, <1>2, TypeCorrect, PTL DEF Spec
=============================================================================
