-------------------- MODULE ScopedParallelContractProofs --------------------
(***************************************************************************)
(* What a scope tells its parent, for any number of tasks, workers and      *)
(* entries: the report of its exit (bootstrap/stage2/scoped_parallel_v1.c,  *)
(* the pass over the slots at the end of kofun_par_scope_exit), and the     *)
(* contract of its header, ParContract, that the runtime implements.        *)
(*                                                                          *)
(* The report needs an invariant of its own, ReportInv: what the pass has   *)
(* collected after its first slots, and that nothing moves the outcomes     *)
(* under a closed scope's report, because no thread is left to do it.       *)
(***************************************************************************)
EXTENDS ScopedParallelProofs, SequenceTheorems

PanickedTo(n) == {t \in Tasks : t < n /\ outcome[t] = "PANIC"}

CancelledTo(n) ==
    parent_cancelled \/ \E t \in Tasks : t < n /\ outcome[t] = "CANCELLED"

\* The panics among the first n slots, as the report lists them.
PrimaryOK(n) ==
    \/ /\ PanickedTo(n) = {}
       /\ report.primary = NoTask
       /\ report.message = "none"
    \/ /\ report.primary \in PanickedTo(n)
       /\ \A t \in PanickedTo(n) : report.primary <= t
       /\ report.message = panic_message[report.primary]

RelatedOK(n) ==
    /\ \A i \in 1 .. Len(report.related) :
          report.related[i] \in PanickedTo(n) \ {report.primary}
    /\ \A t \in PanickedTo(n) \ {report.primary} :
          \E i \in 1 .. Len(report.related) : report.related[i] = t
    /\ \A i, j \in 1 .. Len(report.related) :
          i < j => report.related[i] < report.related[j]

OutcomeOK ==
    report.outcome = IF report.primary # NoTask THEN "PANIC"
                     ELSE IF CancelledTo(spawned) THEN "CANCELLED" ELSE "SUCCESS"

Passed == IF ppc = "report" THEN cursor ELSE spawned

ReportInv ==
    /\ ppc = "report" =>
          /\ cursor <= spawned
          /\ report.outcome = "SUCCESS"
          /\ cancelled <=> CancelledTo(cursor)
    /\ ppc = "report" \/ Exited => PrimaryOK(Passed) /\ RelatedOK(Passed)
    /\ Exited => OutcomeOK

\* A body that has returned and waits to publish returned one of its results.
ResultInv ==
    \A w \in Workers :
        wpc[w] = "done" => <<woutcome[w], panic_message[wtask[w]]>> \in BodyResults

(***************************************************************************)
(* While the parent makes its report, and once the scope is closed, there   *)
(* is no thread left.                                                       *)
(***************************************************************************)
LEMMA Alone ==
    ASSUME Inv, ppc = "report" \/ ~open
    PROVE  \A w \in Workers : wpc[w] = "exited"
  BY BoundsAssumption DEF Inv, RuntimeInv, ThreadsInv, Workers

\* A worker that does anything is a thread of an open scope whose parent is
\* not at its report.
LEMMA WorkersAreThreads ==
    ASSUME Inv, NEW w \in Workers, WorkerRuns(w) \/ worker_spurious_wakeup(w)
    PROVE  open /\ ppc # "report"
<1>1. wpc[w] # "exited"
  BY DEF WorkerRuns, worker_acquire, worker_waits, worker_exits, worker_claims,
     worker_body, worker_publishes, worker_spurious_wakeup
<1> QED
  BY <1>1, Alone

(***************************************************************************)
(* One more slot of the report.                                             *)
(***************************************************************************)
LEMMA SlotReported ==
    ASSUME TypeOK, NEW n \in Tasks, PrimaryOK(n), RelatedOK(n),
           n = cursor, report' = report_panic,
           UNCHANGED <<outcome, panic_message, parent_cancelled>>
    PROVE  PrimaryOK(n + 1)' /\ RelatedOK(n + 1)' /\ report'.outcome = report.outcome
<1> DEFINE P == PanickedTo(n)
           Q == PanickedTo(n + 1)
<1>1. /\ n \in Nat /\ Tasks \subseteq Nat
      /\ report \in [outcome : Outcomes, primary : Tasks \cup {NoTask},
                     message : Messages, related : Seq(Tasks)]
      /\ NoTask \notin Tasks
  BY BoundsAssumption DEF TypeOK, Tasks, NoTask
<1>2. Q' = Q /\ Q = IF outcome[n] = "PANIC" THEN P \cup {n} ELSE P
  <2>1. Q' = Q
    BY DEF PanickedTo
  <2>2. \A t \in Tasks : t < n + 1 <=> t < n \/ t = n
    BY BoundsAssumption DEF Tasks
  <2>3. \A t : t \in Q <=> t \in P \/ (t = n /\ outcome[n] = "PANIC")
    BY <1>1, <2>2 DEF PanickedTo
  <2> QED
    BY <2>1, <2>3
<1>3. n \notin P /\ P \subseteq Tasks /\ \A t \in P : t < n
  BY <1>1 DEF PanickedTo
<1>4. CASE outcome[n] # "PANIC"
  BY <1>2, <1>4 DEF report_panic, PrimaryOK, RelatedOK
<1>5. CASE outcome[n] = "PANIC" /\ report.primary = NoTask
  <2>1. P = {} /\ Q = {n}
    BY <1>1, <1>2, <1>3, <1>5 DEF PrimaryOK
  <2>2. /\ report'.primary = n /\ report'.message = panic_message[n]
        /\ report'.related = report.related /\ report'.outcome = report.outcome
    BY <1>1, <1>5 DEF report_panic
  <2>3. report.related = <<>>
    BY <1>1, <2>1, LenProperties, EmptySeq DEF RelatedOK
  <2>4. Len(report'.related) = 0
    BY <2>2, <2>3
  <2> QED
    BY <1>1, <1>2, <2>1, <2>2, <2>4 DEF PrimaryOK, RelatedOK
<1>6. CASE outcome[n] = "PANIC" /\ report.primary # NoTask
  <2> DEFINE r == report.related
             s == report'.related
             p == report.primary
  <2>1. /\ report'.primary = p /\ report'.message = report.message
        /\ s = Append(r, n) /\ report'.outcome = report.outcome
    BY <1>1, <1>6 DEF report_panic
  <2>2. p \in P /\ (\A t \in P : p <= t) /\ report.message = panic_message[p]
    BY <1>1, <1>6 DEF PrimaryOK
  <2>3. Q = P \cup {n} /\ p # n
    BY <1>2, <1>3, <1>6, <2>2
  <2>4. /\ r \in Seq(Tasks) /\ Len(r) \in Nat /\ Len(s) = Len(r) + 1
        /\ \A i \in 1 .. Len(r) : s[i] = r[i]
        /\ s[Len(r) + 1] = n
    BY <1>1, <2>1
  <2>5. /\ \A i \in 1 .. Len(r) : r[i] \in P \ {p}
        /\ \A t \in P \ {p} : \E i \in 1 .. Len(r) : r[i] = t
        /\ \A i, j \in 1 .. Len(r) : i < j => r[i] < r[j]
    BY DEF RelatedOK
  <2>6. PrimaryOK(n + 1)'
    <3>1. p <= n /\ \A t \in P \cup {n} : p <= t
      <4> HIDE DEF P, p
      <4>1. p < n /\ p \in Nat
        BY <1>1, <1>3, <2>2
      <4> QED
        BY <1>1, <2>2, <4>1
    <3>2. UNCHANGED panic_message
      OBVIOUS
    <3> HIDE DEF P, Q
    <3>3. /\ report'.primary \in Q'
          /\ \A t \in Q' : report'.primary <= t
          /\ report'.message = panic_message'[report'.primary]
      BY <1>2, <2>1, <2>2, <2>3, <3>1, <3>2
    <3> QED
      BY <3>3 DEF PrimaryOK, Q
  <2> HIDE DEF P, Q, r, s, p
  <2>7. \A i \in 1 .. Len(s) : s[i] \in Q \ {p}
    BY <2>3, <2>4, <2>5
  <2>8. \A t \in Q \ {p} : \E i \in 1 .. Len(s) : s[i] = t
    <3> SUFFICES ASSUME NEW t \in Q \ {p}
                 PROVE  \E i \in 1 .. Len(s) : s[i] = t
      OBVIOUS
    <3>1. CASE t = n
      <4>1. Len(r) + 1 \in 1 .. Len(s)
        BY <2>4
      <4> QED
        BY <3>1, <4>1, <2>4
    <3>2. CASE t # n
      <4>1. PICK i \in 1 .. Len(r) : r[i] = t
        BY <2>3, <2>5, <3>2
      <4>2. i \in 1 .. Len(s)
        BY <2>4
      <4> QED
        BY <4>1, <4>2, <2>4
    <3> QED
      BY <3>1, <3>2
  <2>9. \A i, j \in 1 .. Len(s) : i < j => s[i] < s[j]
    <3> SUFFICES ASSUME NEW i \in 1 .. Len(s), NEW j \in 1 .. Len(s), i < j
                 PROVE  s[i] < s[j]
      OBVIOUS
    <3>1. i \in 1 .. Len(r) /\ s[i] = r[i]
      BY <2>4
    <3>2. CASE j \in 1 .. Len(r)
      BY <2>4, <2>5, <3>1, <3>2
    <3>3. CASE j = Len(r) + 1
      BY <1>3, <2>4, <2>5, <3>1, <3>3
    <3> QED
      BY <2>4, <3>2, <3>3
  <2>10. RelatedOK(n + 1)'
    BY <1>2, <2>1, <2>7, <2>8, <2>9 DEF RelatedOK, Q, s, p
  <2> QED
    BY <2>1, <2>6, <2>10
<1> QED
  BY <1>4, <1>5, <1>6

(***************************************************************************)
(* The report's invariant.  The pass starts with no slot, takes one at a    *)
(* time, and the scope is closed behind the last; from then on the outcomes *)
(* stay until the next entry, which clears the trace or opens the scope.    *)
(***************************************************************************)
LEMMA ReportStep ==
    ASSUME Inv, ReportInv, [Next]_vars
    PROVE  ReportInv'
<1>1. /\ MaxTasks \in Nat /\ Tasks = 0 .. MaxTasks - 1
      /\ capacity \in 0 .. MaxTasks /\ spawned \in 0 .. capacity /\ cursor \in Nat
      /\ TypeOK
  BY BoundsAssumption DEF Inv, TypeOK, Tasks
<1>2. ASSUME UNCHANGED <<outcome, panic_message, parent_cancelled, report,
                         cancelled, spawned, open, trace>>,
             UNCHANGED <<ppc, cursor>> \/ (open /\ "report" \notin {ppc, ppc'})
      PROVE  ReportInv'
  BY <1>2 DEF ReportInv, Passed, Exited, OutcomeOK, CancelledTo, PrimaryOK,
     RelatedOK, PanickedTo
<1>3. ASSUME open' /\ ppc' # "report"
      PROVE  ReportInv'
  BY <1>3 DEF ReportInv, Exited
<1>4. CASE Entered
  <2>1. ppc' # "report" /\ (open' \/ trace' = <<>>)
    BY <1>4 DEF Entered, kofun_par_scope_enter, parentVars
  <2> QED
    BY <2>1 DEF ReportInv, Exited
<1>5. CASE report_begins
  <2>1. PanickedTo(0)' = {} /\ (CancelledTo(0)' <=> parent_cancelled')
    BY <1>1 DEF PanickedTo, CancelledTo
  <2>2. /\ ppc' = "report" /\ cursor' = 0 /\ report' = NoReport /\ open' = open
        /\ cancelled' = parent_cancelled' /\ spawned' = spawned
    BY <1>5 DEF report_begins, cancelled_at_first
  <2>3. open
    BY <1>5 DEF report_begins, Inv, RuntimeInv, ThreadsInv
  <2>4. PrimaryOK(0)' /\ RelatedOK(0)'
    BY <2>1, <2>2 DEF PrimaryOK, RelatedOK, NoReport
  <2> QED
    BY <1>1, <2>1, <2>2, <2>3, <2>4 DEF ReportInv, Exited, Passed, NoReport
<1>6. CASE report_task
  <2>1. /\ ppc = "report" /\ cursor < spawned /\ cursor' = cursor + 1
        /\ cancelled' = (cancelled \/ outcome[cursor] = "CANCELLED")
        /\ report' = report_panic
        /\ UNCHANGED <<ppc, outcome, panic_message, parent_cancelled, spawned,
                       open, trace>>
    BY <1>6 DEF report_task, scopeVars, taskVars, seenVars
  <2>2. open
    BY <2>1 DEF Inv, RuntimeInv, ThreadsInv
  <2>3. PICK n \in Tasks : n = cursor
    BY <1>1, <2>1
  <2>4. PrimaryOK(n) /\ RelatedOK(n) /\ report.outcome = "SUCCESS"
        /\ (cancelled <=> CancelledTo(n))
    BY <2>1, <2>3 DEF ReportInv, Passed
  <2>5. PrimaryOK(n + 1)' /\ RelatedOK(n + 1)' /\ report'.outcome = "SUCCESS"
    BY <1>1, <2>1, <2>3, <2>4, SlotReported
  <2>6. cancelled' <=> CancelledTo(n + 1)'
    <3>1. \A t \in Tasks : t < n + 1 <=> t < n \/ t = n
      BY <1>1
    <3> QED
      BY <2>1, <2>3, <2>4, <3>1 DEF CancelledTo
  <2>7. cursor' = n + 1 /\ Passed' = n + 1 /\ cursor' <= spawned'
    BY <1>1, <2>1, <2>3 DEF Passed
  <2> QED
    BY <2>1, <2>2, <2>5, <2>6, <2>7 DEF ReportInv, Exited
<1>7. CASE scope_closes
  <2>1. /\ ppc = "report" /\ cursor = spawned /\ ~open' /\ ppc' = "user"
        /\ report' = [report EXCEPT !.outcome =
                        IF report.primary # NoTask THEN "PANIC"
                        ELSE IF cancelled THEN "CANCELLED" ELSE @]
        /\ UNCHANGED <<outcome, panic_message, parent_cancelled, spawned>>
    BY <1>7 DEF scope_closes, taskVars
  <2>2. PrimaryOK(spawned) /\ RelatedOK(spawned) /\ report.outcome = "SUCCESS"
        /\ (cancelled <=> CancelledTo(spawned))
    BY <2>1 DEF ReportInv, Passed
  <2>3. /\ report'.primary = report.primary /\ report'.message = report.message
        /\ report'.related = report.related
        /\ report'.outcome = IF report.primary # NoTask THEN "PANIC"
                             ELSE IF cancelled THEN "CANCELLED" ELSE "SUCCESS"
    BY <1>1, <2>1, <2>2 DEF TypeOK
  <2>4. PrimaryOK(spawned)' /\ RelatedOK(spawned)'
    BY <2>1, <2>2, <2>3 DEF PrimaryOK, RelatedOK, PanickedTo
  <2>5. OutcomeOK'
    BY <2>1, <2>2, <2>3 DEF OutcomeOK, CancelledTo
  <2> QED
    BY <2>1, <2>4, <2>5 DEF ReportInv, Passed
<1>8. ASSUME NEW w \in Workers, WorkerRuns(w) \/ worker_spurious_wakeup(w)
      PROVE  ReportInv'
  <2>1. open /\ ppc # "report"
    BY <1>8, WorkersAreThreads
  <2>2. open' = open /\ ppc' = ppc
    BY <1>8 DEF WorkerRuns, worker_acquire, worker_waits, worker_exits,
       worker_claims, worker_body, worker_publishes, worker_spurious_wakeup,
       scopeVars, parentVars
  <2> QED
    BY <1>3, <2>1, <2>2
<1>9. ASSUME NEW hasDiscard \in Discards, kofun_par_spawn(hasDiscard)
      PROVE  ReportInv'
  BY <1>3, <1>9 DEF kofun_par_spawn, parentVars
<1>10. CASE join_returns \/ drain_joins
  <2>1. open
    BY <1>10 DEF join_returns, drain_joins, Inv, RuntimeInv, ThreadsInv
  <2> QED
    BY <1>3, <1>10, <2>1 DEF join_returns, drain_joins, scopeVars
<1>11. CASE kofun_par_scope_cancel
  BY <1>3, <1>11 DEF kofun_par_scope_cancel, parentVars
<1>12. CASE drain_skips \/ stop_workers \/ reap_worker
  <2>1. open
    BY <1>12 DEF drain_skips, stop_workers, reap_worker, Inv, RuntimeInv, ThreadsInv
  <2> QED
    BY <1>3, <1>12, <2>1 DEF drain_skips, stop_workers, reap_worker, scopeVars
<1>13. CASE wait_for_sleep \/ parent_spurious_wakeup \/ Refused \/ UNCHANGED vars
  BY <1>2, <1>13 DEF wait_for_sleep, parent_spurious_wakeup, Refused, Return,
     vars, scopeVars, taskVars, workerVars, parentVars, resultVars, seenVars
<1>14. ASSUME \/ \E handle \in Tasks : kofun_par_join(handle)
              \/ kofun_par_scope_exit
       PROVE  ReportInv'
  BY <1>3, <1>14 DEF kofun_par_join, kofun_par_scope_exit, scopeVars
<1> QED
  BY <1>4, <1>5, <1>6, <1>7, <1>8, <1>9, <1>10, <1>11, <1>12, <1>13, <1>14,
     StepCases DEF ParentInCall

\* kofun_par_scope_exit: at every slot of its last pass, and after it, the
\* report has the first panic, the later ones in order, and the cancellation
\* of the slots passed so far.
THEOREM ReportInvHolds == Spec => []ReportInv
<1>1. Init => ReportInv
  BY DEF Init, ReportInv, Exited
<1>2. Inv /\ ReportInv /\ [Next]_vars => ReportInv'
  BY ReportStep
<1> QED
  BY <1>1, <1>2, InvHolds, PTL DEF Spec

(***************************************************************************)
(* The report of a closed scope follows spawn order, not completion order:  *)
(* panic before cancellation, the earliest spawned panic first.             *)
(***************************************************************************)
THEOREM ReportsAreByOrdinal == Spec => []ReportByOrdinal
<1>1. Inv /\ ReportInv => ReportByOrdinal
  <2> SUFFICES ASSUME Inv, ReportInv, Exited PROVE ReportByOrdinal
    BY DEF ReportByOrdinal
  <2> DEFINE panicked == {t \in Spawned : outcome[t] = "PANIC"}
             rest == report.related
  <2>1. /\ ppc = "user" /\ outcome \in [Tasks -> Outcomes] /\ NoTask \notin Tasks
        /\ rest \in Seq(Tasks) /\ DOMAIN rest = 1 .. Len(rest)
    BY BoundsAssumption, LenProperties DEF Inv, TypeOK, RuntimeInv, ThreadsInv,
       Exited, Tasks, NoTask
  <2>2. PrimaryOK(spawned) /\ RelatedOK(spawned) /\ OutcomeOK
    BY <2>1 DEF ReportInv, Passed
  <2>3. panicked = PanickedTo(spawned) /\ panicked \subseteq Tasks
    BY DEF PanickedTo, Spawned
  <2>4. report.primary # NoTask <=> panicked # {}
    BY <2>1, <2>2, <2>3 DEF PrimaryOK
  <2>5. report.outcome = "PANIC" <=> panicked # {}
    BY <2>2, <2>4 DEF OutcomeOK
  <2>6. report.outcome = "SUCCESS" =>
           ~parent_cancelled /\ \A t \in Spawned : outcome[t] = "SUCCESS"
    BY <2>1, <2>2, <2>4 DEF OutcomeOK, CancelledTo, Spawned, Outcomes
  <2>7. /\ panicked = {} => report.primary = NoTask
        /\ panicked # {} =>
              /\ report.primary \in panicked
              /\ \A t \in panicked : report.primary <= t
              /\ report.message = panic_message[report.primary]
    BY <2>2, <2>3 DEF PrimaryOK
  <2>8. {rest[i] : i \in DOMAIN rest} = panicked \ {report.primary}
    BY <2>1, <2>2, <2>3 DEF RelatedOK
  <2>9. \A i, j \in DOMAIN rest : i < j => rest[i] < rest[j]
    BY <2>1, <2>2 DEF RelatedOK
  <2> QED
    BY <2>5, <2>6, <2>7, <2>8, <2>9 DEF ReportByOrdinal
<1> QED
  BY <1>1, InvHolds, ReportInvHolds, PTL

(***************************************************************************)
(* What a worker is about to publish is what its body returned: no spawn    *)
(* and no other body writes into a slot that is being run.                  *)
(***************************************************************************)
LEMMA ResultPair ==
    ASSUME NEW result \in BodyResults
    PROVE  result = <<result[1], result[2]>>
<1>1. PICK a, b : result = <<a, b>>
  BY BoundsAssumption DEF AllResults
<1>2. result[1] = a /\ result[2] = b
  BY <1>1
<1> QED
  BY <1>1, <1>2

\* Only a body chooses what it publishes.
LEMMA ResultStep ==
    ASSUME Inv, ResultInv, [Next]_vars
    PROVE  ResultInv'
<1>1. /\ MaxTasks \in Nat /\ Tasks = 0 .. MaxTasks - 1 /\ NoTask \notin Tasks
      /\ capacity \in 0 .. MaxTasks /\ spawned \in 0 .. capacity
      /\ wpc \in [Workers -> {"lock", "top", "idle", "body", "done", "exited"}]
      /\ wtask \in [Workers -> Tasks \cup {NoTask}]
      /\ woutcome \in [Workers -> Outcomes]
      /\ panic_message \in [Tasks -> Messages]
      /\ ClaimInv
  BY BoundsAssumption DEF Inv, TypeOK, RuntimeInv, Tasks, NoTask
<1>2. ASSUME UNCHANGED <<wtask, woutcome, panic_message>>,
             \A v \in Workers : wpc'[v] = "done" => wpc[v] = "done"
      PROVE  ResultInv'
  BY <1>2 DEF ResultInv
<1>3. CASE Entered
  BY <1>1, <1>2, <1>3 DEF Entered, kofun_par_scope_enter, taskVars
<1>4. ASSUME NEW hasDiscard \in Discards, kofun_par_spawn(hasDiscard)
      PROVE  ResultInv'
  <2>1. spawned \in Tasks
    BY <1>1, <1>4 DEF kofun_par_spawn, full
  <2>2. \A v \in Workers : wpc'[v] = "done" => wpc[v] = "done"
    BY <1>1, <1>4 DEF kofun_par_spawn, signal_work_ready, Idle
  <2>3. \A v \in Workers : wpc[v] = "done" =>
           wtask[v] \in Tasks /\ wtask[v] # spawned
    BY <1>1 DEF ClaimInv, Spawned
  <2> QED
    BY <1>1, <1>4, <2>1, <2>2, <2>3 DEF kofun_par_spawn, ResultInv
<1>5. CASE stop_workers
  BY <1>1, <1>2, <1>5 DEF stop_workers, broadcast_work_ready, Idle, taskVars
<1>6. ASSUME NEW w \in Workers, WorkerRuns(w) \/ worker_spurious_wakeup(w)
      PROVE  ResultInv'
  <2>1. CASE worker_claims(w)
    BY <1>1, <2>1 DEF worker_claims, ResultInv
  <2>2. ASSUME NEW result \in BodyResults, worker_body(w, result)
        PROVE  ResultInv'
    <3>1. result = <<result[1], result[2]>>
      BY ResultPair
    <3>2. wtask[w] \in Tasks
      BY <1>1, <2>2 DEF worker_body, ClaimInv, Spawned
    <3>3. \A v \in Workers \ {w} : wpc[v] = "done" => wtask[v] # wtask[w]
      BY <1>1, <2>2 DEF worker_body, ClaimInv
    <3> QED
      BY <1>1, <2>2, <3>1, <3>2, <3>3 DEF worker_body, ResultInv
  <2>3. CASE worker_publishes(w)
    BY <1>1, <2>3 DEF worker_publishes, ResultInv
  <2>4. CASE \/ worker_acquire(w) \/ worker_waits(w) \/ worker_exits(w)
             \/ worker_spurious_wakeup(w)
    BY <1>1, <1>2, <2>4 DEF worker_acquire, worker_waits, worker_exits,
       worker_spurious_wakeup, taskVars
  <2> QED
    BY <1>6, <2>1, <2>2, <2>3, <2>4 DEF WorkerRuns
<1> QED
  BY <1>2, <1>3, <1>4, <1>5, <1>6, StepCases DEF vars, Refused, Return,
     ParentInCall, kofun_par_join, kofun_par_scope_cancel,
     kofun_par_scope_exit, wait_for_sleep, join_returns, drain_joins,
     drain_skips, reap_worker, report_begins, report_task, scope_closes,
     parent_spurious_wakeup, scopeVars, taskVars, workerVars, parentVars,
     resultVars, seenVars

\* Nothing but a body's own result is ever published for it.
THEOREM ResultInvHolds == Spec => []ResultInv
<1>1. Init => ResultInv
  BY DEF Init, ResultInv
<1>2. Inv /\ ResultInv /\ [Next]_vars => ResultInv'
  BY ResultStep
<1> QED
  BY <1>1, <1>2, InvHolds, PTL DEF Spec

(***************************************************************************)
(* What the contract sees of a state, and when a step leaves it alone.      *)
(***************************************************************************)
Seen == <<open, Closing, spawned, FinishedSlots, JoinedSlots, DisposableSlots,
          DisposedSlots, parent_cancelled, cancel_requested, trace, FinalReport>>

\* All the invariants the refinement rests on.
Known == Inv /\ ReportInv /\ ResultInv /\ JoinTellsOutcome /\ DiscardsUnconsumed

\* The contract sees nothing but Seen.
LEMMA SeenIsContract == (UNCHANGED Seen) => UNCHANGED Contract!contractVars
  BY DEF Seen, Contract!contractVars

\* A step of an open scope, or one that keeps the report, shows no other report.
LEMMA ReportSame ==
    ASSUME open \/ UNCHANGED <<report, trace>>, UNCHANGED open
    PROVE  FinalReport' = FinalReport
  BY DEF FinalReport, Exited, NoReport

\* What is finished does not change with what is not published.
LEMMA FinishedSame ==
    ASSUME UNCHANGED <<spawned, outcome, panic_message>>,
           \A t \in Spawned : state'[t] = "DONE" <=> state[t] = "DONE"
    PROVE  FinishedSlots' = FinishedSlots
  BY DEF FinishedSlots, Slot, Spawned

\* Nothing of an earlier entry is a task of a scope that has no task yet.
LEMMA NoSlots ==
    ASSUME spawned = 0
    PROVE  /\ FinishedSlots = Contract!EmptyScope
           /\ JoinedSlots = [t \in Tasks |-> "no"]
           /\ DisposableSlots = [t \in Tasks |-> FALSE]
           /\ DisposedSlots = [t \in Tasks |-> 0]
<1>1. \A t \in Tasks : ~(t < spawned)
  BY BoundsAssumption DEF Tasks
<1> QED
  BY <1>1 DEF FinishedSlots, JoinedSlots, DisposableSlots, DisposedSlots, Slot,
     Contract!EmptyScope, Contract!Unfinished, Contract!Tasks, Tasks

\* A scope that was never left has no verdict.
LEMMA NoFinalReport ==
    ASSUME ~Exited
    PROVE  FinalReport = Contract!NoVerdict
  BY DEF FinalReport, NoReport, Contract!NoVerdict, Contract!NoTask, NoTask

\* A runtime at rest is a contract at rest.
LEMMA ContractInit == Init => Contract!Init
<1> SUFFICES ASSUME Init PROVE Contract!Init
  OBVIOUS
<1>1. spawned = 0 /\ ~Exited /\ ~Closing /\ open = FALSE
      /\ parent_cancelled = FALSE /\ cancel_requested = FALSE /\ trace = <<>>
  BY DEF Init, Exited, Closing
<1> QED
  BY <1>1, NoSlots, NoFinalReport DEF Contract!Init, Contract!Tasks, Tasks

(***************************************************************************)
(* Entering a scope: the contract's Enter, or EnterFails when no worker     *)
(* could be started.                                                        *)
(***************************************************************************)
LEMMA EnterImplements ==
    ASSUME Inv, Entered
    PROVE  Contract!Enter \/ Contract!EnterFails
<1>1. /\ ~open /\ ppc' = "user" /\ ppc = "user" /\ spawned' = 0
      /\ parent_cancelled' = FALSE /\ cancel_requested' = FALSE
      /\ \/ open' = FALSE /\ trace' = <<>>
         \/ open' = TRUE /\ trace' = <<<<"scope.enter", NoTask>>>>
  BY DEF Entered, kofun_par_scope_enter, clear_cancel, parentVars
<1>2. /\ FinishedSlots' = Contract!EmptyScope
      /\ JoinedSlots' = [t \in Tasks |-> "no"]
      /\ DisposableSlots' = [t \in Tasks |-> FALSE]
      /\ DisposedSlots' = [t \in Tasks |-> 0]
  <2>1. \A t \in Tasks : ~(t < spawned')
    BY <1>1, BoundsAssumption DEF Tasks
  <2> QED
    BY <2>1 DEF FinishedSlots, JoinedSlots, DisposableSlots, DisposedSlots, Slot,
       Contract!EmptyScope, Contract!Unfinished, Contract!Tasks, Tasks
<1>3. FinalReport' = Contract!NoVerdict
  BY <1>1 DEF FinalReport, Exited, NoReport, Contract!NoVerdict,
     Contract!NoTask, NoTask
<1>4. Closing' = FALSE
  BY <1>1 DEF Closing
<1>5. Contract!Reset
  BY <1>1, <1>2, <1>3, <1>4 DEF Contract!Reset, Contract!Tasks, Tasks
<1>6. CASE open' = FALSE /\ trace' = <<>>
  <2>1. open' = open
    BY <1>1, <1>6 DEF Inv, TypeOK
  <2> QED
    BY <1>1, <1>5, <1>6, <2>1 DEF Contract!EnterFails
<1>7. CASE open' = TRUE /\ trace' = <<<<"scope.enter", NoTask>>>>
  BY <1>1, <1>5, <1>7 DEF Contract!Enter, Contract!NoTask, NoTask
<1> QED
  BY <1>1, <1>6, <1>7

\* A spawned task is a new task of the contract.
LEMMA SpawnImplements ==
    ASSUME Inv, NEW hasDiscard \in Discards, kofun_par_spawn(hasDiscard)
    PROVE  \E d \in BOOLEAN : Contract!Spawn(d)
<1>1. /\ MaxTasks \in Nat /\ Tasks = 0 .. MaxTasks - 1 /\ spawned \in Tasks
      /\ hasDiscard \in BOOLEAN
      /\ state \in [Tasks -> {"PENDING", "RUNNING", "DONE"}]
      /\ joined \in [Tasks -> BOOLEAN] /\ told \in [Tasks -> Outcomes \cup {"none"}]
      /\ discard \in [Tasks -> BOOLEAN] /\ discards \in [Tasks -> Nat]
      /\ outcome \in [Tasks -> Outcomes] /\ panic_message \in [Tasks -> Messages]
  BY BoundsAssumption DEF Inv, TypeOK, Tasks, kofun_par_spawn, full
<1>2. /\ open /\ ppc = "user" /\ UNCHANGED <<open, ppc, parent_cancelled, cancel_requested>>
      /\ spawned' = spawned + 1
      /\ state' = [state EXCEPT ![spawned] = "PENDING"]
      /\ joined' = [joined EXCEPT ![spawned] = FALSE]
      /\ discard' = [discard EXCEPT ![spawned] = hasDiscard]
      /\ discards' = [discards EXCEPT ![spawned] = 0]
      /\ outcome' = [outcome EXCEPT ![spawned] = "SUCCESS"]
      /\ panic_message' = [panic_message EXCEPT ![spawned] = "none"]
      /\ told' = [told EXCEPT ![spawned] = "none"]
      /\ trace' = Append(trace, <<"task.spawn", spawned>>)
  BY DEF kofun_par_spawn, slot_reset, parentVars, emit
<1>3. \A t \in Tasks : t < spawned' <=> t < spawned \/ t = spawned
  BY <1>1, <1>2
<1>4. \A t \in Tasks : t # spawned =>
         /\ state'[t] = state[t] /\ joined'[t] = joined[t] /\ told'[t] = told[t]
         /\ discard'[t] = discard[t] /\ discards'[t] = discards[t]
         /\ outcome'[t] = outcome[t] /\ panic_message'[t] = panic_message[t]
  BY <1>1, <1>2
<1>5. /\ state'[spawned] = "PENDING" /\ ~joined'[spawned] /\ ~(spawned < spawned)
      /\ discard'[spawned] = hasDiscard /\ discards'[spawned] = 0
  BY <1>1, <1>2
<1>6. FinishedSlots' = FinishedSlots
  BY <1>3, <1>4, <1>5 DEF FinishedSlots, Slot
<1>7. JoinedSlots' = JoinedSlots
  BY <1>3, <1>4, <1>5 DEF JoinedSlots, Slot
<1>8. DisposableSlots' = [DisposableSlots EXCEPT ![spawned] = hasDiscard]
  BY <1>3, <1>4, <1>5 DEF DisposableSlots, Slot
<1>9. DisposedSlots' = DisposedSlots
  BY <1>3, <1>4, <1>5 DEF DisposedSlots, Slot
<1>10. FinalReport' = FinalReport /\ ~Closing /\ Closing' = Closing
  BY <1>2, ReportSame DEF Closing
<1>11. Contract!Spawn(hasDiscard)
  BY <1>1, <1>2, <1>6, <1>7, <1>8, <1>9, <1>10 DEF Contract!Spawn, Contract!Tasks
<1> QED
  BY <1>1, <1>11

\* The types of what the contract reads, in one place.
LEMMA SlotTypes ==
    ASSUME Inv
    PROVE  /\ MaxTasks \in Nat /\ Tasks = 0 .. MaxTasks - 1 /\ Contract!Tasks = Tasks
           /\ capacity \in 0 .. MaxTasks /\ spawned \in 0 .. capacity
           /\ cursor \in Nat
           /\ state \in [Tasks -> {"PENDING", "RUNNING", "DONE"}]
           /\ joined \in [Tasks -> BOOLEAN] /\ discard \in [Tasks -> BOOLEAN]
           /\ discards \in [Tasks -> Nat]
           /\ outcome \in [Tasks -> {"SUCCESS", "PANIC", "CANCELLED"}]
           /\ told \in [Tasks -> {"SUCCESS", "PANIC", "CANCELLED", "none"}]
  BY BoundsAssumption DEF Inv, TypeOK, Tasks, Outcomes, Contract!Tasks

\* A task is finished for the contract when its outcome is published.
LEMMA FinishedSlot ==
    ASSUME Inv, NEW t \in Tasks, t < spawned
    PROVE  /\ state[t] = "DONE" =>
                /\ FinishedSlots[t] = <<outcome[t], panic_message[t]>>
                /\ FinishedSlots[t][1] = outcome[t]
                /\ FinishedSlots[t][2] = panic_message[t]
                /\ FinishedSlots[t] # Contract!Unfinished
           /\ state[t] # "DONE" => FinishedSlots[t] = Contract!Unfinished
<1>1. outcome[t] # "none"
  BY SlotTypes
<1>2. CASE state[t] = "DONE"
  <2>1. FinishedSlots[t] = <<outcome[t], panic_message[t]>>
    BY <1>2 DEF FinishedSlots, Slot
  <2>2. <<outcome[t], panic_message[t]>> # <<"none", "none">>
    BY <1>1
  <2> QED
    BY <1>2, <2>1, <2>2 DEF Contract!Unfinished
<1>3. CASE state[t] # "DONE"
  BY <1>3 DEF FinishedSlots, Slot, Contract!Unfinished
<1> QED
  BY <1>2, <1>3

\* How the contract sees that a slot is joined.
LEMMA JoinedSlot ==
    ASSUME Inv, NEW t \in Tasks, t < spawned
    PROVE  /\ ~joined[t] => JoinedSlots[t] = "no"
           /\ joined[t] /\ told[t] # "none" => JoinedSlots[t] = "explicit"
           /\ joined[t] /\ told[t] = "none" => JoinedSlots[t] = "exit"
  BY SlotTypes DEF JoinedSlots, Slot

\* An explicit join.
LEMMA JoinImplements ==
    ASSUME Inv, join_returns
    PROVE  Contract!Join(cursor)
<1>1. /\ ppc = "join" /\ open /\ open' = open /\ spawned' = spawned
      /\ ~Closing /\ Closing' = Closing /\ cursor < spawned /\ ~joined[cursor]
      /\ state[cursor] = "DONE"
      /\ joined' = [joined EXCEPT ![cursor] = TRUE]
      /\ told' = [told EXCEPT ![cursor] = outcome[cursor]]
      /\ trace' = Append(trace, <<"task.join.explicit", cursor>>)
      /\ UNCHANGED <<state, outcome, panic_message, discard, discards,
                     parent_cancelled, cancel_requested>>
  BY DEF join_returns, Inv, RuntimeInv, ThreadsInv, ParentInv, task_done, emit,
     scopeVars, Closing
<1>2. cursor \in Tasks /\ Contract!Tasks = Tasks /\ outcome[cursor] # "none"
  <2>1. cursor \in Tasks /\ Contract!Tasks = Tasks
    BY <1>1, SlotTypes
  <2> QED
    BY <2>1, SlotTypes
<1>3. /\ FinishedSlots[cursor] # Contract!Unfinished /\ JoinedSlots[cursor] = "no"
  BY <1>1, <1>2, FinishedSlot, JoinedSlot
<1>4. JoinedSlots' = [JoinedSlots EXCEPT ![cursor] = "explicit"]
  <2>1. joined'[cursor] /\ told'[cursor] # "none"
    BY <1>1, <1>2, SlotTypes
  <2>2. \A t \in Tasks \ {cursor} : joined'[t] = joined[t] /\ told'[t] = told[t]
    BY <1>1, SlotTypes
  <2> QED
    BY <1>1, <1>2, <2>1, <2>2 DEF JoinedSlots, Slot
<1>5. /\ FinishedSlots' = FinishedSlots /\ DisposableSlots' = DisposableSlots
      /\ DisposedSlots' = DisposedSlots
  BY <1>1 DEF FinishedSlots, DisposableSlots, DisposedSlots, Slot
<1>6. FinalReport' = FinalReport
  BY <1>1, ReportSame
<1> QED
  BY <1>1, <1>2, <1>3, <1>4, <1>5, <1>6 DEF Contract!Join, Contract!Exists

\* A join of scope exit, with the disposal of a result nobody took.
LEMMA DrainImplements ==
    ASSUME Inv, JoinTellsOutcome, DiscardsUnconsumed, drain_joins
    PROVE  Contract!JoinAtExit(cursor)
<1>1. /\ ppc = "drain" /\ ppc' = ppc /\ open /\ open' = open /\ spawned' = spawned
      /\ Closing /\ Closing' /\ cursor < spawned /\ ~joined[cursor]
      /\ state[cursor] = "DONE"
      /\ \A t \in Tasks : t < cursor => joined[t]
      /\ joined' = [joined EXCEPT ![cursor] = TRUE]
      /\ trace' = Append(trace, <<"task.join.scope-exit", cursor>>)
      /\ discards' = IF discards_result
                     THEN [discards EXCEPT ![cursor] = discards[cursor] + 1]
                     ELSE discards
      /\ UNCHANGED <<state, outcome, panic_message, discard, told,
                     parent_cancelled, cancel_requested>>
  BY DEF drain_joins, Inv, RuntimeInv, ThreadsInv, ParentInv, task_done, emit,
     scopeVars, Closing
<1>2. cursor \in Tasks /\ Contract!Tasks = Tasks /\ cursor \in Spawned
  BY <1>1, SlotTypes DEF Spawned
<1>3. FinishedSlots[cursor] # Contract!Unfinished /\ JoinedSlots[cursor] = "no"
      /\ FinishedSlots[cursor][1] = outcome[cursor]
  BY <1>1, <1>2, FinishedSlot, JoinedSlot
<1>4. \A u \in Tasks : u < cursor => JoinedSlots[u] # "no"
  <2> SUFFICES ASSUME NEW u \in Tasks, u < cursor PROVE JoinedSlots[u] # "no"
    OBVIOUS
  <2>1. u < spawned /\ joined[u]
    BY <1>1, SlotTypes
  <2> QED
    BY <2>1, JoinedSlot
<1>5. told[cursor] = "none" /\ discards[cursor] = 0
  BY <1>1, <1>2 DEF JoinTellsOutcome, DiscardsUnconsumed
<1>6. JoinedSlots' = [JoinedSlots EXCEPT ![cursor] = "exit"]
  <2>1. joined'[cursor] /\ told'[cursor] = "none"
    BY <1>1, <1>2, <1>5, SlotTypes
  <2>2. \A t \in Tasks \ {cursor} : joined'[t] = joined[t] /\ told'[t] = told[t]
    BY <1>1, SlotTypes
  <2> QED
    BY <1>1, <1>2, <2>1, <2>2 DEF JoinedSlots, Slot
<1>7. /\ FinishedSlots' = FinishedSlots /\ DisposableSlots' = DisposableSlots
  BY <1>1 DEF FinishedSlots, DisposableSlots, Slot
<1>8. DisposedSlots' = [DisposedSlots EXCEPT ![cursor] =
                          IF FinishedSlots[cursor][1] = "SUCCESS"
                             /\ DisposableSlots[cursor]
                          THEN 1 ELSE 0]
  <2>1. discards'[cursor] = IF outcome[cursor] = "SUCCESS" /\ discard[cursor]
                            THEN 1 ELSE 0
    BY <1>1, <1>2, <1>5, SlotTypes DEF discards_result
  <2>2. \A t \in Tasks \ {cursor} : discards'[t] = discards[t]
    BY <1>1, SlotTypes
  <2>3. DisposableSlots[cursor] = discard[cursor]
    BY <1>1, <1>2 DEF DisposableSlots, Slot
  <2> QED
    BY <1>1, <1>2, <1>3, <2>1, <2>2, <2>3 DEF DisposedSlots, Slot
<1>9. FinalReport' = FinalReport
  BY <1>1, ReportSame
<1> QED
  BY <1>1, <1>2, <1>3, <1>4, <1>6, <1>7, <1>8, <1>9 DEF Contract!JoinAtExit,
     Contract!Exists, Contract!OutcomeOf

(***************************************************************************)
(* Closing the scope: the verdict is the report of ReportInv.               *)
(***************************************************************************)
LEMMA CloseImplements ==
    ASSUME Inv, Inv', ReportInv', scope_closes
    PROVE  Contract!Close
<1>1. /\ ppc = "report" /\ ppc' = "user" /\ open /\ open' = FALSE
      /\ Closing /\ ~Closing' /\ spawned' = spawned
      /\ \A t \in Spawned : joined[t] /\ state[t] = "DONE"
      /\ trace' = Append(trace, <<"scope.exit", NoTask>>)
      /\ UNCHANGED <<state, outcome, panic_message, joined, discard, told,
                     discards, parent_cancelled, cancel_requested>>
  BY DEF scope_closes, Inv, RuntimeInv, ThreadsInv, ParentInv, QueueInv, emit,
     taskVars, Closing
<1>2. Exited'
  <2>1. trace \in Trace
    BY DEF Inv, TypeOK, Trace
  <2>2. trace' # <<>>
    BY <1>1, <2>1 DEF Trace
  <2> QED
    BY <1>1, <2>2 DEF Exited
<1>3. /\ FinishedSlots' = FinishedSlots /\ JoinedSlots' = JoinedSlots
      /\ DisposableSlots' = DisposableSlots /\ DisposedSlots' = DisposedSlots
  BY <1>1 DEF FinishedSlots, JoinedSlots, DisposableSlots, DisposedSlots, Slot
<1>4. \A t \in Tasks : t < spawned => JoinedSlots[t] # "no"
  BY <1>1, JoinedSlot DEF Spawned
<1>5. /\ Contract!Panicked = PanickedTo(spawned)
      /\ CancelledTo(spawned) <=>
            \/ parent_cancelled
            \/ \E t \in Contract!Tasks :
                  Contract!Exists(t) /\ Contract!OutcomeOf(t) = "CANCELLED"
      /\ \A t \in PanickedTo(spawned) : FinishedSlots[t][2] = panic_message[t]
  <2>1. \A t \in Tasks : t < spawned => FinishedSlots[t][1] = outcome[t]
                                        /\ FinishedSlots[t][2] = panic_message[t]
    BY <1>1, FinishedSlot DEF Spawned
  <2>2. Contract!Tasks = Tasks
    BY SlotTypes
  <2>3. Contract!Panicked = PanickedTo(spawned)
    BY <2>1, <2>2 DEF Contract!Panicked, Contract!Exists, Contract!OutcomeOf,
       PanickedTo
  <2>4. \A t \in Tasks : t < spawned /\ outcome[t] = "CANCELLED" <=>
           Contract!Exists(t) /\ Contract!OutcomeOf(t) = "CANCELLED"
    BY <2>1 DEF Contract!Exists, Contract!OutcomeOf
  <2>5. \A t \in PanickedTo(spawned) : FinishedSlots[t][2] = panic_message[t]
    BY <2>1 DEF PanickedTo
  <2> QED
    BY <2>2, <2>3, <2>4, <2>5 DEF CancelledTo
<1>6. PrimaryOK(spawned)' /\ RelatedOK(spawned)' /\ OutcomeOK'
  BY <1>1, <1>2 DEF ReportInv, Passed
<1>7. PanickedTo(spawned)' = PanickedTo(spawned)
      /\ (CancelledTo(spawned)' <=> CancelledTo(spawned))
  BY <1>1 DEF PanickedTo, CancelledTo
<1>8. /\ report' \in [outcome : Outcomes, primary : Tasks \cup {NoTask},
                      message : Messages, related : Seq(Tasks)]
      /\ NoTask \notin Tasks /\ NoTask = -1
  BY BoundsAssumption DEF Inv, TypeOK, Tasks, NoTask
<1> DEFINE F == FinalReport'
           P == PanickedTo(spawned)
           r == report'.related
<1>9. /\ F.outcome = report'.outcome /\ F.primary = report'.primary
      /\ F.message = report'.message
      /\ F.related = {r[i] : i \in 1 .. Len(r)}
  <2>1. DOMAIN r = 1 .. Len(r)
    BY <1>8, LenProperties
  <2> QED
    BY <1>2, <1>8, <2>1 DEF FinalReport
<1>10. F.related = P \ {F.primary}
  <2>1. /\ \A i \in 1 .. Len(r) : r[i] \in P \ {F.primary}
        /\ \A t \in P \ {F.primary} : \E i \in 1 .. Len(r) : r[i] = t
    BY <1>6, <1>7, <1>9 DEF RelatedOK
  <2> QED
    BY <1>9, <2>1
<1>11. ASSUME P # {} PROVE Contract!Verdict(FinalReport')
  <2>1. /\ F.primary \in P /\ \A t \in P : F.primary <= t
        /\ F.message = FinishedSlots[F.primary][2]
    BY <1>1, <1>5, <1>6, <1>7, <1>9, <1>11 DEF PrimaryOK
  <2>2. F.outcome = "PANIC"
    <3>1. F.primary # NoTask
      BY <1>8, <2>1 DEF PanickedTo
    <3> QED
      BY <1>6, <1>9, <3>1 DEF OutcomeOK
  <2> QED
    BY <1>5, <1>10, <1>11, <2>1, <2>2 DEF Contract!Verdict
<1>12. ASSUME P = {} PROVE Contract!Verdict(FinalReport')
  <2>1. F.primary = NoTask /\ F.message = "none" /\ F.related = {}
    BY <1>6, <1>7, <1>9, <1>10, <1>12 DEF PrimaryOK
  <2>2. F.outcome = IF CancelledTo(spawned) THEN "CANCELLED" ELSE "SUCCESS"
    BY <1>1, <1>6, <1>7, <1>9, <2>1 DEF OutcomeOK
  <2> QED
    BY <1>5, <1>8, <1>12, <2>1, <2>2 DEF Contract!Verdict, Contract!NoTask
<1>13. Contract!Verdict(FinalReport')
  BY <1>11, <1>12
<1> QED
  BY <1>1, <1>3, <1>4, <1>13, SlotTypes DEF Contract!Close, Contract!Exists,
     Contract!NoTask, NoTask

(***************************************************************************)
(* Publishing an outcome is how a task finishes.                            *)
(***************************************************************************)
LEMMA PublishImplements ==
    ASSUME Inv, ResultInv, NEW w \in Workers, worker_publishes(w)
    PROVE  \E t \in Contract!Tasks, result \in BodyResults : Contract!Finish(t, result)
<1> DEFINE t == wtask[w]
           result == <<woutcome[w], panic_message[t]>>
<1>1. /\ wpc[w] = "done" /\ t \in Spawned /\ state[t] = "RUNNING"
      /\ outcome' = [outcome EXCEPT ![t] = woutcome[w]]
      /\ state' = [state EXCEPT ![t] = "DONE"]
      /\ cancel_requested' = (cancel_requested \/ woutcome[w] = "PANIC")
      /\ UNCHANGED <<open, ppc, spawned, panic_message, joined, discard,
                     discards, told, parent_cancelled, trace, report>>
  BY DEF worker_publishes, cancel_siblings, Inv, RuntimeInv, ClaimInv,
     resultVars, seenVars
<1>2. open
  BY WorkersAreThreads DEF WorkerRuns
<1>3. result \in BodyResults
  BY <1>1 DEF ResultInv
<1>4. result[1] = woutcome[w] /\ result[2] = panic_message[t]
  OBVIOUS
<1>5. t \in Tasks /\ t < spawned /\ Contract!Tasks = Tasks
  BY <1>1, SlotTypes DEF Spawned
<1>6. FinishedSlots[t] = Contract!Unfinished
  BY <1>1, <1>5, FinishedSlot
<1>7. FinishedSlots' = [FinishedSlots EXCEPT ![t] = result]
  <2>1. state'[t] = "DONE" /\ outcome'[t] = woutcome[w]
    BY <1>1, <1>5, SlotTypes
  <2>2. \A u \in Tasks \ {t} : state'[u] = state[u] /\ outcome'[u] = outcome[u]
    BY <1>1, SlotTypes
  <2>3. spawned' = spawned /\ panic_message' = panic_message
        /\ <<outcome'[t], panic_message'[t]>> = result
    BY <1>1, <2>1
  <2> HIDE DEF t, result
  <2> QED
    BY <1>5, <2>1, <2>2, <2>3 DEF FinishedSlots, Slot
<1>8. /\ JoinedSlots' = JoinedSlots /\ DisposableSlots' = DisposableSlots
      /\ DisposedSlots' = DisposedSlots /\ Closing' = Closing
      /\ FinalReport' = FinalReport
  BY <1>1 DEF JoinedSlots, DisposableSlots, DisposedSlots, Slot, Closing,
     FinalReport, Exited
<1> HIDE DEF t, result
<1>9. Contract!Finish(t, result)
  BY <1>1, <1>2, <1>4, <1>5, <1>6, <1>7, <1>8 DEF Contract!Finish, Contract!Exists
<1> QED
  BY <1>3, <1>5, <1>9

(***************************************************************************)
(* What the other steps of a thread do is invisible to the contract: who    *)
(* holds the mutex, who sleeps, which task is claimed, and a body's result  *)
(* before it is published.                                                  *)
(***************************************************************************)
LEMMA WorkerIsUnseen ==
    ASSUME Inv, NEW w \in Workers,
           \/ worker_acquire(w) \/ worker_waits(w) \/ worker_exits(w)
           \/ worker_claims(w) \/ worker_spurious_wakeup(w)
           \/ \E result \in BodyResults : worker_body(w, result)
    PROVE  UNCHANGED Seen
<1>1. UNCHANGED <<open, ppc, spawned, outcome, joined, discard, discards, told,
                  parent_cancelled, cancel_requested, trace, report>>
  BY DEF worker_acquire, worker_waits, worker_exits, worker_claims,
     worker_body, worker_spurious_wakeup, scopeVars, taskVars, parentVars,
     resultVars, seenVars
<1>2. FinishedSlots' = FinishedSlots
  <2>1. CASE worker_claims(w)
    <3>1. \A t \in Spawned : state'[t] = "DONE" <=> state[t] = "DONE"
      <4>1. /\ next_pending \in 0 .. spawned /\ next_pending # spawned
            /\ state' = [state EXCEPT ![next_pending] = "RUNNING"]
        BY <2>1 DEF worker_claims, Inv, TypeOK
      <4>2. next_pending \in Spawned /\ state[next_pending] = "PENDING"
        BY <4>1, SlotTypes DEF Inv, RuntimeInv, QueueInv, Spawned
      <4> QED
        BY <4>1, <4>2, SlotTypes DEF Spawned
    <3> QED
      BY <1>1, <2>1, <3>1, FinishedSame DEF worker_claims
  <2>2. CASE \E result \in BodyResults : worker_body(w, result)
    <3>1. /\ wtask[w] \in Spawned /\ state[wtask[w]] # "DONE" /\ state' = state
          /\ \E m : panic_message' = [panic_message EXCEPT ![wtask[w]] = m]
      BY <2>2 DEF worker_body, Inv, RuntimeInv, ClaimInv
    <3>2. \A t \in Tasks : state[t] = "DONE" => panic_message'[t] = panic_message[t]
      BY <3>1 DEF Inv, TypeOK
    <3> QED
      BY <1>1, <3>1, <3>2 DEF FinishedSlots, Slot
  <2>3. CASE \/ worker_acquire(w) \/ worker_waits(w) \/ worker_exits(w)
             \/ worker_spurious_wakeup(w)
    BY <2>3 DEF worker_acquire, worker_waits, worker_exits,
       worker_spurious_wakeup, scopeVars, taskVars, FinishedSlots, Slot
  <2> QED
    BY <2>1, <2>2, <2>3
<1> QED
  BY <1>1, <1>2 DEF Seen, JoinedSlots, DisposableSlots, DisposedSlots, Slot,
     Closing, FinalReport, Exited

\* So is what the parent does between the joins of its exit and its close.
LEMMA ParentIsUnseen ==
    ASSUME Inv,
           \/ \E handle \in Tasks : kofun_par_join(handle)
           \/ drain_skips \/ stop_workers \/ reap_worker \/ report_begins
           \/ report_task
    PROVE  UNCHANGED Seen
<1>1. open
  BY DEF kofun_par_join, drain_skips, stop_workers, reap_worker, report_begins,
     report_task, Inv, RuntimeInv, ThreadsInv
<1>2. /\ UNCHANGED <<open, spawned, state, outcome, panic_message, joined,
                     discard, discards, told, parent_cancelled,
                     cancel_requested, trace>>
      /\ Closing' = Closing
  BY DEF kofun_par_join, drain_skips, stop_workers, reap_worker, report_begins,
     report_task, scopeVars, taskVars, seenVars, Closing
<1>3. FinalReport' = FinalReport
  BY <1>1, <1>2, ReportSame
<1> QED
  BY <1>2, <1>3 DEF Seen, FinishedSlots, JoinedSlots, DisposableSlots,
     DisposedSlots, Slot

\* A refused call, a sleep and a wake-up show the contract nothing.
LEMMA RestIsUnseen ==
    ASSUME wait_for_sleep \/ parent_spurious_wakeup \/ Refused \/ UNCHANGED vars
    PROVE  UNCHANGED Seen
<1>1. UNCHANGED <<open, ppc, spawned, state, outcome, panic_message, joined,
                  discard, discards, told, parent_cancelled, cancel_requested,
                  trace, report>>
  BY DEF wait_for_sleep, parent_spurious_wakeup, Refused, Return, vars,
     scopeVars, taskVars, workerVars, parentVars, resultVars, seenVars
<1> QED
  BY <1>1 DEF Seen, FinishedSlots, JoinedSlots, DisposableSlots, DisposedSlots,
     Slot, Closing, FinalReport, Exited

\* The parent's request to cancel, and the beginning of its exit.
LEMMA CallImplements ==
    ASSUME Inv, kofun_par_scope_cancel \/ kofun_par_scope_exit
    PROVE  Contract!Cancel \/ Contract!BeginExit
<1>1. /\ open /\ open' = open /\ ~Closing
      /\ UNCHANGED <<spawned, state, outcome, panic_message, joined, discard,
                     discards, told, trace>>
  BY DEF kofun_par_scope_cancel, kofun_par_scope_exit, scopeVars, taskVars,
     seenVars, Closing
<1>2. /\ FinishedSlots' = FinishedSlots /\ JoinedSlots' = JoinedSlots
      /\ DisposableSlots' = DisposableSlots /\ DisposedSlots' = DisposedSlots
  BY <1>1 DEF FinishedSlots, JoinedSlots, DisposableSlots, DisposedSlots, Slot
<1>3. FinalReport' = FinalReport
  BY <1>1, ReportSame
<1>4. CASE kofun_par_scope_cancel
  BY <1>1, <1>2, <1>3, <1>4 DEF kofun_par_scope_cancel, parentVars, Closing,
     Contract!Cancel
<1>5. CASE kofun_par_scope_exit
  BY <1>1, <1>2, <1>3, <1>5 DEF kofun_par_scope_exit, scopeVars, Closing,
     Contract!BeginExit
<1> QED
  BY <1>4, <1>5

(***************************************************************************)
(* Every step is a step of the contract or one it does not see.             *)
(***************************************************************************)
LEMMA ContractStep ==
    ASSUME Known, Known', [Next]_vars
    PROVE  Contract!Next \/ UNCHANGED Seen
<1>1. Inv /\ ResultInv /\ JoinTellsOutcome /\ DiscardsUnconsumed
  BY DEF Known
<1>2. CASE Entered
  BY <1>1, <1>2, EnterImplements DEF Contract!Next
<1>3. ASSUME NEW hasDiscard \in Discards, kofun_par_spawn(hasDiscard)
      PROVE  Contract!Next
  BY <1>1, <1>3, SpawnImplements DEF Contract!Next
<1>4. CASE join_returns
  <2>1. cursor \in Contract!Tasks
    BY <1>1, <1>4, SlotTypes DEF join_returns, Inv, RuntimeInv, ParentInv
  <2> QED
    BY <1>1, <1>4, <2>1, JoinImplements DEF Contract!Next
<1>5. CASE drain_joins
  <2>1. cursor \in Contract!Tasks
    BY <1>1, <1>5, SlotTypes DEF drain_joins
  <2> QED
    BY <1>1, <1>5, <2>1, DrainImplements DEF Contract!Next
<1>6. CASE scope_closes
  BY <1>1, <1>6, CloseImplements DEF Known, Contract!Next
<1>7. CASE kofun_par_scope_cancel \/ kofun_par_scope_exit
  BY <1>1, <1>7, CallImplements DEF Contract!Next
<1>8. ASSUME NEW w \in Workers, worker_publishes(w)
      PROVE  Contract!Next
  BY <1>1, <1>8, PublishImplements DEF Contract!Next
<1>9. ASSUME NEW w \in Workers, WorkerRuns(w) \/ worker_spurious_wakeup(w)
      PROVE  Contract!Next \/ UNCHANGED Seen
  BY <1>1, <1>8, <1>9, WorkerIsUnseen DEF WorkerRuns
<1>10. ASSUME \/ \E handle \in Tasks : kofun_par_join(handle)
              \/ drain_skips \/ stop_workers \/ reap_worker \/ report_begins
              \/ report_task
       PROVE  UNCHANGED Seen
  BY <1>1, <1>10, ParentIsUnseen
<1>11. ASSUME wait_for_sleep \/ parent_spurious_wakeup \/ Refused \/ UNCHANGED vars
       PROVE  UNCHANGED Seen
  BY <1>11, RestIsUnseen
<1> QED
  BY <1>2, <1>3, <1>4, <1>5, <1>6, <1>7, <1>9, <1>10, <1>11, StepCases
     DEF ParentInCall

(***************************************************************************)
(* The runtime implements the contract of its header: whatever the threads  *)
(* do, the parent sees tasks that finish once, joins of finished tasks, an  *)
(* exit in spawn order and the verdict by spawn ordinal.                    *)
(***************************************************************************)
THEOREM ContractHolds == Spec => ImplementsContract
<1>1. Init => Contract!Init
  BY ContractInit
<1>2. Known /\ Known' /\ [Next]_vars => [Contract!Next]_(Contract!contractVars)
  BY ContractStep, SeenIsContract
<1>3. Spec => []Known
  BY InvHolds, ReportInvHolds, ResultInvHolds, JoinsTellOutcomes,
     DiscardsAreExact, PTL DEF Known
<1> QED
  BY <1>1, <1>2, <1>3, PTL DEF Spec, ImplementsContract, Contract!Spec
=============================================================================
