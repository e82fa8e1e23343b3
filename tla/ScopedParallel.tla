--------------------------- MODULE ScopedParallel ---------------------------
(***************************************************************************)
(* The scoped parallelism runtime of bootstrap/stage2/scoped_parallel_v1.c: *)
(* one `par` scope, its parent thread and its bounded set of worker         *)
(* threads.                                                                 *)
(*                                                                          *)
(* Grain of atomicity.  Everything shared is guarded by one mutex, so a     *)
(* critical section is one step; the mutex is still a variable, because a   *)
(* worker keeps it from publishing an outcome to its next look at the       *)
(* queue.  Condition variables are modelled by who sleeps on them: a sleep  *)
(* ends by a signal, a broadcast, or spuriously, and the thread must then   *)
(* take the mutex again.  A body runs without the mutex, for as long as it  *)
(* likes, and is an arbitrary choice of outcome.                            *)
(*                                                                          *)
(* The parent is any sequence of API calls, the refused ones included.  It  *)
(* never enters a scope that is open: the C code would reinitialise a live  *)
(* mutex.                                                                   *)
(***************************************************************************)
EXTENDS Integers, Sequences, FiniteSets

CONSTANTS
    MaxTasks,    \* KOFUN_PAR_MAX_TASKS: the task slots of a scope
    MaxWorkers,  \* KOFUN_PAR_MAX_WORKERS: the worker threads of a scope
    MaxEntries,  \* a bound on how often the scope object is entered
    BodyResults, \* the results the bodies of this instance may return
    Discards     \* whether this instance's spawns pass a discard callback

\* What a body may return, with the message it recorded through
\* kofun_par_task_panic.  A value that is no outcome becomes a panic.
AllResults ==
    {<<"SUCCESS", "none">>, <<"CANCELLED", "none">>, <<"PANIC", "own">>,
     <<"PANIC", "none">>, <<"PANIC", "no valid outcome">>}

ASSUME BoundsAssumption ==
    /\ MaxTasks \in Nat \ {0}
    /\ MaxWorkers \in Nat \ {0}
    /\ MaxEntries \in Nat
    /\ BodyResults \subseteq AllResults /\ BodyResults # {}
    /\ Discards \subseteq BOOLEAN

Tasks   == 0 .. MaxTasks - 1
Workers == 1 .. MaxWorkers
NoTask  == -1                      \* KOFUN_PAR_NO_TASK
NoWorker == 0                      \* the mutex is free

Outcomes == {"SUCCESS", "PANIC", "CANCELLED"}
Statuses == {"OK", "ARGUMENT", "THREAD", "CAPACITY", "HANDLE", "STATE"}
Messages == {"none", "own", "no valid outcome"}
Anchors  == {"scope.enter", "task.spawn", "task.join.explicit",
             "task.join.scope-exit", "scope.exit"}

VARIABLES
    \* struct KofunParScope
    open, capacity, spawned, next_pending, worker_count, shutting_down,
    parent_cancelled, cancel_requested,
    \* struct KofunParTask, one function per field
    state, outcome, panic_message, joined, discard,
    \* the mutex, and where each worker thread is in worker_main
    lock, wpc, wtask, woutcome,
    \* the parent thread: the call it is inside, that call's loop index,
    \* whether it sleeps on task_done, and the local of scope exit
    ppc, cursor, asleep, cancelled,
    \* what the calls return: the last status and the report of the last exit
    status, report,
    \* what the environment observes: entries, anchors of the current entry,
    \* body runs and discard calls per task, the outcome a join gave the parent
    entries, trace, runs, discards, told

scopeVars  == <<open, capacity, spawned, next_pending, worker_count,
                shutting_down, parent_cancelled, cancel_requested>>
taskVars   == <<state, outcome, panic_message, joined, discard>>
workerVars == <<wpc, wtask, woutcome>>
parentVars == <<ppc, cursor, asleep>>
resultVars == <<status, report, cancelled>>
seenVars   == <<entries, trace, runs, discards, told>>
vars == <<scopeVars, taskVars, lock, workerVars, parentVars, resultVars,
          seenVars>>

Spawned == {t \in Tasks : t < spawned}

NoReport == [outcome |-> "SUCCESS", primary |-> NoTask,
             message |-> "none", related |-> <<>>]

\* A scope nobody has entered.  Task slots hold arbitrary earlier contents;
\* kofun_par_scope_enter does not clear them and no call reads a slot at or
\* above `spawned`.
Init ==
    /\ open = FALSE
    /\ capacity = 0 /\ spawned = 0 /\ next_pending = 0 /\ worker_count = 0
    /\ shutting_down = FALSE
    /\ parent_cancelled = FALSE /\ cancel_requested = FALSE
    /\ state = [t \in Tasks |-> "PENDING"]
    /\ outcome = [t \in Tasks |-> "SUCCESS"]
    /\ panic_message = [t \in Tasks |-> "none"]
    /\ joined = [t \in Tasks |-> FALSE]
    /\ discard = [t \in Tasks |-> FALSE]
    /\ lock = NoWorker
    /\ wpc = [w \in Workers |-> "exited"]
    /\ wtask = [w \in Workers |-> NoTask]
    /\ woutcome = [w \in Workers |-> "SUCCESS"]
    /\ ppc = "user" /\ cursor = 0 /\ asleep = FALSE
    /\ status = "OK" /\ report = NoReport /\ cancelled = FALSE
    /\ entries = 0 /\ trace = <<>>
    /\ runs = [t \in Tasks |-> 0]
    /\ discards = [t \in Tasks |-> 0]
    /\ told = [t \in Tasks |-> "none"]

emit(anchor, task) == trace' = Append(trace, <<anchor, task>>)

Idle == {w \in Workers : wpc[w] = "idle"}   \* asleep on work_ready

\* Mutants: no signal; a signal only when the queue was empty.
signal_work_ready_lost == UNCHANGED wpc

signal_work_ready_first ==
    IF Idle = {} \/ next_pending # spawned THEN UNCHANGED wpc
    ELSE \E w \in Idle : wpc' = [wpc EXCEPT ![w] = "lock"]

\* pthread_cond_signal(&work_ready): one sleeper, if any, goes for the mutex.
signal_work_ready ==
    IF Idle = {} THEN UNCHANGED wpc
    ELSE \E w \in Idle : wpc' = [wpc EXCEPT ![w] = "lock"]

\* pthread_cond_broadcast(&work_ready).
broadcast_work_ready ==
    wpc' = [w \in Workers |-> IF w \in Idle THEN "lock" ELSE wpc[w]]

\* A call that only returns a status.
Return(s) ==
    /\ status' = s
    /\ UNCHANGED <<scopeVars, taskVars, lock, workerVars, parentVars, report,
                   cancelled, seenVars>>

-----------------------------------------------------------------------------
\* kofun_par_scope_enter.  `started` is how many pthread_create calls
\* succeeded before the first that failed.
enter_refused(workers, cap) ==
    /\ ppc = "user" /\ ~open
    /\ workers = 0 \/ workers > MaxWorkers \/ cap > MaxTasks
    /\ Return("ARGUMENT")

\* A mutex or condition could not be initialised: nothing else was written.
enter_no_primitives ==
    /\ ppc = "user" /\ ~open
    /\ Return("THREAD")

\* Mutant: an earlier entry's request survives.
clear_cancel_half == parent_cancelled' = FALSE /\ UNCHANGED cancel_requested

clear_cancel == parent_cancelled' = FALSE /\ cancel_requested' = FALSE

wanted(workers, cap) == IF workers < cap THEN workers ELSE cap

kofun_par_scope_enter(workers, cap, started) ==
    /\ ppc = "user" /\ ~open /\ entries < MaxEntries
    /\ entries' = entries + 1
    /\ workers \in Workers /\ cap \in 0 .. MaxTasks
    /\ started \in 0 .. wanted(workers, cap)
    /\ capacity' = cap
    /\ spawned' = 0 /\ next_pending' = 0
    /\ worker_count' = started
    /\ shutting_down' = FALSE
    /\ clear_cancel
    /\ wpc' = [w \in Workers |-> IF w <= started THEN "lock" ELSE "exited"]
    /\ IF wanted(workers, cap) > 0 /\ started = 0
       THEN /\ open' = FALSE /\ status' = "THREAD" /\ trace' = <<>>
       ELSE /\ open' = TRUE /\ status' = "OK"
            /\ trace' = <<<<"scope.enter", NoTask>>>>
    /\ UNCHANGED <<taskVars, lock, wtask, woutcome, parentVars, report,
                   cancelled, runs, discards, told>>

\* kofun_par_spawn.
full_never == FALSE                      \* mutant: no capacity check

full == spawned = capacity

spawn_refused ==
    /\ ppc = "user"
    /\ ~open \/ full
    /\ Return(IF ~open THEN "STATE" ELSE "CAPACITY")

\* The slot as it is handed to the queue.  Mutant: it keeps its earlier state.
slot_reset_keeps_state(ordinal) ==
    /\ joined' = [joined EXCEPT ![ordinal] = FALSE]
    /\ UNCHANGED state

slot_reset(ordinal) ==
    /\ state' = [state EXCEPT ![ordinal] = "PENDING"]
    /\ joined' = [joined EXCEPT ![ordinal] = FALSE]

kofun_par_spawn(hasDiscard) ==
    /\ ppc = "user" /\ open /\ ~full
    /\ lock = NoWorker
    /\ LET ordinal == spawned IN
        /\ panic_message' = [panic_message EXCEPT ![ordinal] = "none"]
        /\ outcome' = [outcome EXCEPT ![ordinal] = "SUCCESS"]
        /\ slot_reset(ordinal)
        /\ discard' = [discard EXCEPT ![ordinal] = hasDiscard]
        /\ runs' = [runs EXCEPT ![ordinal] = 0]
        /\ discards' = [discards EXCEPT ![ordinal] = 0]
        /\ told' = [told EXCEPT ![ordinal] = "none"]
        /\ spawned' = ordinal + 1
        /\ emit("task.spawn", ordinal)
    /\ signal_work_ready
    /\ status' = "OK"
    /\ UNCHANGED <<open, capacity, next_pending, worker_count, shutting_down,
                   parent_cancelled, cancel_requested, lock, wtask, woutcome,
                   parentVars, report, cancelled, entries>>

\* kofun_par_join, up to the call of wait_for.  `handle` may be any ordinal.
join_refused(handle) ==
    /\ ppc = "user"
    /\ ~open \/ handle >= spawned \/ joined[handle]
    /\ Return(IF ~open THEN "STATE" ELSE "HANDLE")

kofun_par_join(handle) ==
    /\ ppc = "user" /\ open
    /\ handle < spawned /\ ~joined[handle]
    /\ ppc' = "join" /\ cursor' = handle
    /\ UNCHANGED <<scopeVars, taskVars, lock, workerVars, asleep, resultVars,
                   seenVars>>

\* kofun_par_scope_cancel takes no lock.
kofun_par_scope_cancel ==
    /\ ppc = "user" /\ open
    /\ parent_cancelled' = TRUE /\ cancel_requested' = TRUE
    /\ status' = "OK"
    /\ UNCHANGED <<open, capacity, spawned, next_pending, worker_count,
                   shutting_down, taskVars, lock, workerVars, parentVars,
                   report, cancelled, seenVars>>

cancel_or_exit_refused ==
    /\ ppc = "user" /\ ~open
    /\ Return("STATE")

\* kofun_par_scope_exit, up to its first loop iteration.
kofun_par_scope_exit ==
    /\ ppc = "user" /\ open
    /\ ppc' = "drain" /\ cursor' = 0
    /\ UNCHANGED <<scopeVars, taskVars, lock, workerVars, asleep, resultVars,
                   seenVars>>

-----------------------------------------------------------------------------
\* wait_for, called by a join ("join") and by the barrier loop ("drain").
InWaitFor ==
    \/ ppc = "join"
    \/ ppc = "drain" /\ cursor < spawned /\ ~joined[cursor]

task_done_assumed == TRUE                \* mutant: a wake-up is believed

task_done == state[cursor] = "DONE"

\* The task is not done: sleep on task_done, releasing the mutex.
wait_for_sleep ==
    /\ InWaitFor /\ ~asleep /\ lock = NoWorker
    /\ ~task_done
    /\ asleep' = TRUE
    /\ UNCHANGED <<scopeVars, taskVars, lock, workerVars, ppc, cursor,
                   resultVars, seenVars>>

\* wait_for returns to kofun_par_join, which returns to the parent.
join_returns ==
    /\ ppc = "join" /\ ~asleep /\ lock = NoWorker
    /\ task_done
    /\ joined' = [joined EXCEPT ![cursor] = TRUE]
    /\ told' = [told EXCEPT ![cursor] = outcome[cursor]]
    /\ emit("task.join.explicit", cursor)
    /\ status' = "OK"
    /\ ppc' = "user" /\ cursor' = 0
    /\ UNCHANGED <<scopeVars, state, outcome, panic_message, discard, lock,
                   workerVars, asleep, report, cancelled, entries, runs,
                   discards>>

discards_result == outcome[cursor] = "SUCCESS" /\ discard[cursor]

\* wait_for returns to the barrier loop: join the handle, discard the result.
drain_joins ==
    /\ ppc = "drain" /\ cursor < spawned /\ ~joined[cursor]
    /\ ~asleep /\ lock = NoWorker
    /\ task_done
    /\ joined' = [joined EXCEPT ![cursor] = TRUE]
    /\ emit("task.join.scope-exit", cursor)
    /\ IF discards_result
       THEN discards' = [discards EXCEPT ![cursor] = @ + 1]
       ELSE UNCHANGED discards
    /\ cursor' = cursor + 1
    /\ UNCHANGED <<scopeVars, state, outcome, panic_message, discard, lock,
                   workerVars, ppc, asleep, resultVars, entries, runs, told>>

\* The barrier loop passes over a handle that was joined explicitly.
drain_skips ==
    /\ ppc = "drain" /\ cursor < spawned /\ joined[cursor]
    /\ cursor' = cursor + 1
    /\ UNCHANGED <<scopeVars, taskVars, lock, workerVars, ppc, asleep,
                   resultVars, seenVars>>

\* stop_workers: ask, then pthread_join each worker in turn.
stop_workers ==
    /\ ppc = "drain" /\ cursor = spawned /\ lock = NoWorker
    /\ shutting_down' = TRUE
    /\ broadcast_work_ready
    /\ ppc' = "reap" /\ cursor' = 1
    /\ UNCHANGED <<open, capacity, spawned, next_pending, worker_count,
                   parent_cancelled, cancel_requested, taskVars, lock, wtask,
                   woutcome, asleep, resultVars, seenVars>>

all_reaped_short == cursor >= worker_count  \* mutant: the last is not joined

all_reaped == cursor > worker_count

reap_worker ==
    /\ ppc = "reap" /\ ~all_reaped
    /\ wpc[cursor] = "exited"
    /\ cursor' = cursor + 1
    /\ UNCHANGED <<scopeVars, taskVars, lock, workerVars, ppc, asleep,
                   resultVars, seenVars>>

\* The end of kofun_par_scope_exit, when the parent is alone: one pass over
\* the slots in spawn order, panic before cancellation, and the scope is
\* closed.  `cancelled` is the local variable of that name.
cancelled_at_first_tasks == FALSE        \* mutant: only tasks count

cancelled_at_first == parent_cancelled

report_begins ==
    /\ ppc = "reap" /\ all_reaped
    /\ worker_count' = 0
    /\ report' = NoReport
    /\ cancelled' = cancelled_at_first
    /\ ppc' = "report" /\ cursor' = 0
    /\ UNCHANGED <<open, capacity, spawned, next_pending, shutting_down,
                   parent_cancelled, cancel_requested, taskVars, lock,
                   workerVars, asleep, status, seenVars>>

\* The report after slot `cursor`.  Mutant: the last panic becomes primary.
report_panic_last ==
    IF outcome[cursor] # "PANIC" THEN report
    ELSE [report EXCEPT !.primary = cursor,
                        !.message = panic_message[cursor],
                        !.related = IF report.primary = NoTask THEN @
                                    ELSE Append(@, report.primary)]

report_panic ==
    IF outcome[cursor] # "PANIC" THEN report
    ELSE IF report.primary = NoTask
         THEN [report EXCEPT !.primary = cursor,
                             !.message = panic_message[cursor]]
         ELSE [report EXCEPT !.related = Append(@, cursor)]

report_task ==
    /\ ppc = "report" /\ cursor < spawned
    /\ cancelled' = (cancelled \/ outcome[cursor] = "CANCELLED")
    /\ report' = report_panic
    /\ cursor' = cursor + 1
    /\ UNCHANGED <<scopeVars, taskVars, lock, workerVars, ppc, asleep, status,
                   seenVars>>

scope_closes ==
    /\ ppc = "report" /\ cursor = spawned
    /\ report' = [report EXCEPT !.outcome =
                      IF report.primary # NoTask THEN "PANIC"
                      ELSE IF cancelled THEN "CANCELLED" ELSE @]
    /\ open' = FALSE
    /\ emit("scope.exit", NoTask)
    /\ status' = "OK"
    /\ ppc' = "user" /\ cursor' = 0
    /\ cancelled' = FALSE                 \* the local goes out of scope
    /\ UNCHANGED <<capacity, spawned, next_pending, worker_count,
                   shutting_down, parent_cancelled, cancel_requested, taskVars,
                   lock, workerVars, asleep, entries, runs, discards, told>>

-----------------------------------------------------------------------------
\* worker_main.  "lock": wants the mutex to look at the queue; "top": holds
\* it at the head of the loop; "idle": asleep on work_ready; "body": runs a
\* task; "done": wants the mutex to publish the outcome; "exited".
worker_acquire(w) ==
    /\ wpc[w] = "lock" /\ lock = NoWorker
    /\ lock' = w
    /\ wpc' = [wpc EXCEPT ![w] = "top"]
    /\ UNCHANGED <<scopeVars, taskVars, wtask, woutcome, parentVars,
                   resultVars, seenVars>>

worker_waits(w) ==
    /\ wpc[w] = "top"
    /\ next_pending = spawned /\ ~shutting_down
    /\ lock' = NoWorker
    /\ wpc' = [wpc EXCEPT ![w] = "idle"]
    /\ UNCHANGED <<scopeVars, taskVars, wtask, woutcome, parentVars,
                   resultVars, seenVars>>

worker_exits(w) ==
    /\ wpc[w] = "top"
    /\ next_pending = spawned /\ shutting_down
    /\ lock' = NoWorker
    /\ wpc' = [wpc EXCEPT ![w] = "exited"]
    /\ UNCHANGED <<scopeVars, taskVars, wtask, woutcome, parentVars,
                   resultVars, seenVars>>

pop == next_pending' = next_pending + 1

worker_claims(w) ==
    /\ wpc[w] = "top"
    /\ next_pending # spawned
    /\ wtask' = [wtask EXCEPT ![w] = next_pending]
    /\ state' = [state EXCEPT ![next_pending] = "RUNNING"]
    /\ pop
    /\ lock' = NoWorker
    /\ wpc' = [wpc EXCEPT ![w] = "body"]
    /\ UNCHANGED <<open, capacity, spawned, worker_count, shutting_down,
                   parent_cancelled, cancel_requested, outcome, panic_message,
                   joined, discard, woutcome, parentVars, resultVars,
                   seenVars>>

worker_body(w, result) ==
    /\ wpc[w] = "body"
    /\ result \in BodyResults
    /\ woutcome' = [woutcome EXCEPT ![w] = result[1]]
    /\ panic_message' = [panic_message EXCEPT ![wtask[w]] = result[2]]
    /\ runs' = [runs EXCEPT ![wtask[w]] = @ + 1]
    /\ wpc' = [wpc EXCEPT ![w] = "done"]
    /\ UNCHANGED <<scopeVars, state, outcome, joined, discard, lock, wtask,
                   parentVars, resultVars, entries, trace, discards, told>>

cancel_siblings(w) ==
    cancel_requested' = (cancel_requested \/ woutcome[w] = "PANIC")

\* pthread_cond_broadcast(&task_done).  Mutant: the parent sleeps on.
broadcast_task_done_lost == UNCHANGED asleep

broadcast_task_done == asleep' = FALSE

\* Publish the outcome, request cancellation after a panic, wake the parent,
\* and go back to the head of the loop with the mutex still held.
worker_publishes(w) ==
    /\ wpc[w] = "done" /\ lock = NoWorker
    /\ lock' = w
    /\ outcome' = [outcome EXCEPT ![wtask[w]] = woutcome[w]]
    /\ state' = [state EXCEPT ![wtask[w]] = "DONE"]
    /\ cancel_siblings(w)
    /\ broadcast_task_done
    /\ wpc' = [wpc EXCEPT ![w] = "top"]
    /\ wtask' = [wtask EXCEPT ![w] = NoTask]
    /\ woutcome' = [woutcome EXCEPT ![w] = "SUCCESS"]
    /\ UNCHANGED <<open, capacity, spawned, next_pending, worker_count,
                   shutting_down, parent_cancelled, panic_message, joined,
                   discard, ppc, cursor, resultVars, seenVars>>

\* POSIX lets either wait return without a signal.
worker_spurious_wakeup(w) ==
    /\ wpc[w] = "idle"
    /\ wpc' = [wpc EXCEPT ![w] = "lock"]
    /\ UNCHANGED <<scopeVars, taskVars, lock, wtask, woutcome, parentVars,
                   resultVars, seenVars>>

parent_spurious_wakeup ==
    /\ asleep
    /\ asleep' = FALSE
    /\ UNCHANGED <<scopeVars, taskVars, lock, workerVars, ppc, cursor,
                   resultVars, seenVars>>

-----------------------------------------------------------------------------
ParentCalls ==
    \/ \E workers \in 0 .. MaxWorkers + 1, cap \in 0 .. MaxTasks + 1 :
          \/ enter_refused(workers, cap)
          \/ \E started \in 0 .. MaxWorkers :
                kofun_par_scope_enter(workers, cap, started)
    \/ enter_no_primitives
    \/ spawn_refused
    \/ \E hasDiscard \in Discards : kofun_par_spawn(hasDiscard)
    \/ \E handle \in Tasks : join_refused(handle) \/ kofun_par_join(handle)
    \/ kofun_par_scope_cancel
    \/ cancel_or_exit_refused
    \/ kofun_par_scope_exit

ParentInCall ==
    \/ wait_for_sleep
    \/ join_returns
    \/ drain_joins
    \/ drain_skips
    \/ stop_workers
    \/ reap_worker
    \/ report_begins
    \/ report_task
    \/ scope_closes

WorkerRuns(w) ==
    \/ worker_acquire(w)
    \/ worker_waits(w)
    \/ worker_exits(w)
    \/ worker_claims(w)
    \/ \E result \in BodyResults : worker_body(w, result)
    \/ worker_publishes(w)

Next ==
    \/ ParentCalls
    \/ ParentInCall
    \/ parent_spurious_wakeup
    \/ \E w \in Workers : WorkerRuns(w) \/ worker_spurious_wakeup(w)

Spec == Init /\ [][Next]_vars

\* Fairness: a thread that can run for ever does run, and a body returns.
\* The parent owes no call.  No thread is promised a contended mutex; but
\* POSIX does not bound spurious wake-ups either, and a waiter that is
\* woken for nothing again and again could keep the mutex busy, so they are
\* assumed to stop.
Spurious == parent_spurious_wakeup \/ \E w \in Workers : worker_spurious_wakeup(w)

FairSpec ==
    /\ Spec
    /\ WF_vars(ParentInCall)
    /\ \A w \in Workers : WF_vars(WorkerRuns(w))
    /\ <>[][~Spurious]_vars
-----------------------------------------------------------------------------
\* The fields of KofunParScope and of its tasks keep their ranges, and every
\* thread is at a place the code has.
TypeOK ==
    /\ open \in BOOLEAN
    /\ capacity \in 0 .. MaxTasks
    /\ spawned \in 0 .. capacity
    /\ next_pending \in 0 .. spawned
    /\ worker_count \in 0 .. MaxWorkers
    /\ shutting_down \in BOOLEAN
    /\ parent_cancelled \in BOOLEAN
    /\ cancel_requested \in BOOLEAN
    /\ state \in [Tasks -> {"PENDING", "RUNNING", "DONE"}]
    /\ outcome \in [Tasks -> Outcomes]
    /\ panic_message \in [Tasks -> Messages]
    /\ joined \in [Tasks -> BOOLEAN]
    /\ discard \in [Tasks -> BOOLEAN]
    /\ lock \in Workers \cup {NoWorker}
    /\ wpc \in [Workers -> {"lock", "top", "idle", "body", "done", "exited"}]
    /\ wtask \in [Workers -> Tasks \cup {NoTask}]
    /\ woutcome \in [Workers -> Outcomes]
    /\ ppc \in {"user", "join", "drain", "reap", "report"}
    /\ cursor \in Nat
    /\ asleep \in BOOLEAN
    /\ cancelled \in BOOLEAN
    /\ status \in Statuses
    /\ report \in [outcome : Outcomes, primary : Tasks \cup {NoTask},
                   message : Messages, related : Seq(Tasks)]
    /\ entries \in 0 .. MaxEntries
    /\ trace \in Seq(Anchors \X (Tasks \cup {NoTask}))
    /\ runs \in [Tasks -> Nat]
    /\ discards \in [Tasks -> Nat]
    /\ told \in [Tasks -> Outcomes \cup {"none"}]

\* No wake-up is lost: while some worker sleeps, there are at least as many
\* awake workers on their way to the queue as tasks waiting in it.  One
\* pthread_cond_signal per spawn is enough, although signals may find
\* nobody asleep and woken workers may lose the task to a busy one.
WorkConserving ==
    Idle # {} =>
        spawned - next_pending
            <= Cardinality({w \in Workers : wpc[w] \in {"lock", "top"}})

\* The barrier: once a scope is closed no worker thread exists that could
\* touch its destroyed mutex and conditions, and no spawned task is left
\* unfinished or unjoined.
Barrier ==
    ~open =>
        /\ lock = NoWorker
        /\ \A w \in Workers : wpc[w] = "exited"
        /\ \A t \in Spawned : state[t] = "DONE" /\ joined[t]

\* "Every spawned body runs exactly once": never twice, never after it was
\* published, and it has run when the parent is told it is done.
RunsOnce ==
    \A t \in Spawned :
        /\ runs[t] <= 1
        /\ state[t] = "PENDING" => runs[t] = 0
        /\ state[t] = "DONE" => runs[t] = 1

\* A successful result is discarded once if scope exit joined it and never
\* if the parent did: the parent owns what an explicit join gave it.
DiscardsUnconsumed ==
    \A t \in Spawned :
        discards[t] =
            IF joined[t] /\ told[t] = "none" /\ outcome[t] = "SUCCESS"
               /\ discard[t]
            THEN 1 ELSE 0

\* What a join told the parent is the task's final outcome, whatever woke
\* the parent.
JoinTellsOutcome ==
    \A t \in Spawned :
        told[t] # "none" => joined[t] /\ state[t] = "DONE" /\ told[t] = outcome[t]

\* Cancellation is requested exactly when the parent asked for it or a task
\* that panicked has published its outcome.
CancelJustified ==
    cancel_requested <=>
        \/ parent_cancelled
        \/ \E t \in Spawned : state[t] = "DONE" /\ outcome[t] = "PANIC"

\* The report of a closed scope: panic before cancellation, the primary
\* panic is the earliest spawned one, the others follow in spawn order, and
\* completion order plays no part.
Exited == ~open /\ trace # <<>>

ReportByOrdinal ==
    Exited =>
        LET panicked == {t \in Spawned : outcome[t] = "PANIC"}
            rest == report.related
        IN /\ report.outcome = "PANIC" <=> panicked # {}
           /\ report.outcome = "SUCCESS" =>
                 ~parent_cancelled /\ \A t \in Spawned : outcome[t] = "SUCCESS"
           /\ panicked = {} => report.primary = NoTask
           /\ panicked # {} =>
                 /\ report.primary \in panicked
                 /\ \A t \in panicked : report.primary <= t
                 /\ report.message = panic_message[report.primary]
           /\ {rest[i] : i \in DOMAIN rest} = panicked \ {report.primary}
           /\ \A i, j \in DOMAIN rest : i < j => rest[i] < rest[j]

\* The inductive invariant behind the safety properties above, in parts:
\* who holds the mutex; which threads exist; where the parent's loops are;
\* that the queue is the slots from next_pending on; and that a task being
\* run is run by one worker.
LockInv == \A w \in Workers : wpc[w] = "top" <=> lock = w

ThreadsInv ==
    /\ \A w \in Workers : w > worker_count => wpc[w] = "exited"
    /\ ~open \/ ppc = "report" => worker_count = 0
    /\ ~open => ppc = "user"
    /\ ppc = "reap" =>
          /\ cursor \in 1 .. worker_count + 1
          /\ \A w \in Workers : w < cursor => wpc[w] = "exited"

ParentInv ==
    /\ ppc = "join" => cursor < spawned /\ ~joined[cursor]
    /\ ppc = "drain" =>
          cursor <= spawned /\ \A t \in Tasks : t < cursor => joined[t]
    /\ ppc \in {"reap", "report"} \/ ~open => \A t \in Spawned : joined[t]

QueueInv ==
    \A t \in Spawned :
        /\ state[t] = "PENDING" <=> t >= next_pending
        /\ joined[t] => state[t] = "DONE"

ClaimInv ==
    \A w \in Workers :
        wpc[w] \in {"body", "done"} =>
            /\ wtask[w] \in Spawned
            /\ state[wtask[w]] = "RUNNING"
            /\ runs[wtask[w]] = IF wpc[w] = "body" THEN 0 ELSE 1
            /\ \A v \in Workers \ {w} :
                  wpc[v] \in {"body", "done"} => wtask[v] # wtask[w]

RuntimeInv ==
    LockInv /\ ThreadsInv /\ ParentInv /\ QueueInv /\ ClaimInv

\* Every call returns: a join waits for one task, scope exit for all of
\* them and for the workers, and neither waits for ever.
CallsReturn == (ppc # "user") ~> (ppc = "user")

\* A spawned task is started even if the parent never joins it.
TasksStart ==
    \A t \in Tasks :
        (open /\ t < spawned /\ state[t] = "PENDING") ~> (state[t] # "PENDING")

-----------------------------------------------------------------------------
\* The runtime implements the contract of its header.  A task is finished
\* when its outcome is published, and the slots at or above `spawned` are
\* no tasks, whatever they hold from an earlier entry.
Slot(t, value, default) == IF t < spawned THEN value ELSE default

FinishedSlots ==
    [t \in Tasks |->
        Slot(t, IF state[t] = "DONE" THEN <<outcome[t], panic_message[t]>>
                ELSE <<"none", "none">>, <<"none", "none">>)]

JoinedSlots ==
    [t \in Tasks |->
        Slot(t, CASE ~joined[t] -> "no"
                  [] joined[t] /\ told[t] # "none" -> "explicit"
                  [] OTHER -> "exit", "no")]

DisposableSlots == [t \in Tasks |-> Slot(t, discard[t], FALSE)]

DisposedSlots == [t \in Tasks |-> Slot(t, discards[t], 0)]

Closing == ppc \in {"drain", "reap", "report"}

FinalReport ==
    IF Exited
    THEN [report EXCEPT !.related =
             {report.related[i] : i \in DOMAIN report.related}]
    ELSE [NoReport EXCEPT !.related = {}]

Contract == INSTANCE ParContract WITH
    closing    <- Closing,
    finished   <- FinishedSlots,
    joined     <- JoinedSlots,
    disposable <- DisposableSlots,
    disposed   <- DisposedSlots,
    cancelled  <- parent_cancelled,
    requested  <- cancel_requested,
    anchors    <- trace,
    report     <- FinalReport

\* Every behaviour of the runtime is one the contract allows: joins only of
\* finished tasks, scope exit in spawn order, the verdict by spawn ordinal.
ImplementsContract == Contract!Spec
=============================================================================
