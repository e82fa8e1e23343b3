---------------------------- MODULE ParContract ----------------------------
(***************************************************************************)
(* What a `par` scope promises its parent, as the contract comment of       *)
(* bootstrap/stage2/scoped_parallel_v1.h states it: tasks finish on their   *)
(* own, in any order; an explicit join hands over a finished task; scope    *)
(* exit joins the rest in spawn order and closes behind the last one.       *)
(* There are no threads, no queue, no mutex and no waiting here: those are  *)
(* the business of ScopedParallel, which implements this specification.     *)
(***************************************************************************)
EXTENDS Integers, Sequences, FiniteSets

CONSTANTS
    MaxTasks,     \* how many tasks a scope can hold
    BodyResults   \* the pairs <<outcome, message>> a task may finish with

Tasks      == 0 .. MaxTasks - 1
NoTask     == -1
Unfinished == <<"none", "none">>
EmptyScope == [t \in Tasks |-> Unfinished]
NoVerdict  == [outcome |-> "SUCCESS", primary |-> NoTask,
               message |-> "none", related |-> {}]

VARIABLES
    open, closing,         \* the scope's life: closed, open, exiting
    spawned,               \* tasks 0 .. spawned-1 exist
    finished,              \* each task's result, once it has one
    joined,                \* how each task was joined
    disposable, disposed,  \* has the result a disposer; how often it ran
    cancelled, requested,  \* the parent cancelled; cancellation is visible
    anchors,               \* the logical trace
    report                 \* what scope exit reported

contractVars == <<open, closing, spawned, finished, joined, disposable,
                  disposed, cancelled, requested, anchors, report>>

Exists(t)   == t < spawned
OutcomeOf(t) == finished[t][1]
Panicked    == {t \in Tasks : Exists(t) /\ OutcomeOf(t) = "PANIC"}

Reset ==
    /\ spawned' = 0 /\ closing' = FALSE
    /\ finished' = EmptyScope
    /\ joined' = [t \in Tasks |-> "no"]
    /\ disposable' = [t \in Tasks |-> FALSE]
    /\ disposed' = [t \in Tasks |-> 0]
    /\ cancelled' = FALSE /\ requested' = FALSE
    /\ report' = NoVerdict

Init ==
    /\ open = FALSE /\ closing = FALSE /\ spawned = 0
    /\ finished = EmptyScope
    /\ joined = [t \in Tasks |-> "no"]
    /\ disposable = [t \in Tasks |-> FALSE]
    /\ disposed = [t \in Tasks |-> 0]
    /\ cancelled = FALSE /\ requested = FALSE
    /\ anchors = <<>>
    /\ report = NoVerdict

Enter ==
    /\ ~open
    /\ open' = TRUE
    /\ anchors' = <<<<"scope.enter", NoTask>>>>
    /\ Reset

EnterFails ==
    /\ ~open
    /\ anchors' = <<>>
    /\ Reset
    /\ UNCHANGED open

Spawn(hasDiscard) ==
    /\ open /\ ~closing
    /\ spawned \in Tasks
    /\ spawned' = spawned + 1
    /\ disposable' = [disposable EXCEPT ![spawned] = hasDiscard]
    /\ anchors' = Append(anchors, <<"task.spawn", spawned>>)
    /\ UNCHANGED <<open, closing, finished, joined, disposed, cancelled,
                   requested, report>>

\* A task finishes once; a panic asks its siblings to stop.
Finish(t, result) ==
    /\ open /\ Exists(t)
    /\ finished[t] = Unfinished
    /\ finished' = [finished EXCEPT ![t] = result]
    /\ requested' = (requested \/ result[1] = "PANIC")
    /\ UNCHANGED <<open, closing, spawned, joined, disposable, disposed,
                   cancelled, anchors, report>>

Join(t) ==
    /\ open /\ ~closing /\ Exists(t)
    /\ finished[t] # Unfinished /\ joined[t] = "no"
    /\ joined' = [joined EXCEPT ![t] = "explicit"]
    /\ anchors' = Append(anchors, <<"task.join.explicit", t>>)
    /\ UNCHANGED <<open, closing, spawned, finished, disposable, disposed,
                   cancelled, requested, report>>

Cancel ==
    /\ open /\ ~closing
    /\ cancelled' = TRUE /\ requested' = TRUE
    /\ UNCHANGED <<open, closing, spawned, finished, joined, disposable,
                   disposed, anchors, report>>

BeginExit ==
    /\ open /\ ~closing
    /\ closing' = TRUE
    /\ UNCHANGED <<open, spawned, finished, joined, disposable, disposed,
                   cancelled, requested, anchors, report>>

\* The earliest unjoined task, once it is finished; its result is disposed of.
JoinAtExit(t) ==
    /\ open /\ closing /\ Exists(t)
    /\ finished[t] # Unfinished /\ joined[t] = "no"
    /\ \A u \in Tasks : u < t => joined[u] # "no"
    /\ joined' = [joined EXCEPT ![t] = "exit"]
    /\ disposed' = [disposed EXCEPT ![t] =
                      IF OutcomeOf(t) = "SUCCESS" /\ disposable[t] THEN 1 ELSE 0]
    /\ anchors' = Append(anchors, <<"task.join.scope-exit", t>>)
    /\ UNCHANGED <<open, closing, spawned, finished, disposable, cancelled,
                   requested, report>>

\* The primary panic is the earliest spawned one, whatever finished first.
Verdict(r) ==
    IF Panicked # {}
    THEN /\ r.outcome = "PANIC"
         /\ r.primary \in Panicked
         /\ \A t \in Panicked : r.primary <= t
         /\ r.message = finished[r.primary][2]
         /\ r.related = Panicked \ {r.primary}
    ELSE /\ r.primary = NoTask /\ r.message = "none" /\ r.related = {}
         /\ r.outcome = IF cancelled \/ \E t \in Tasks : Exists(t) /\ OutcomeOf(t) = "CANCELLED"
                        THEN "CANCELLED" ELSE "SUCCESS"

Close ==
    /\ open /\ closing
    /\ \A t \in Tasks : Exists(t) => joined[t] # "no"
    /\ open' = FALSE /\ closing' = FALSE
    /\ Verdict(report')
    /\ anchors' = Append(anchors, <<"scope.exit", NoTask>>)
    /\ UNCHANGED <<spawned, finished, joined, disposable, disposed, cancelled,
                   requested>>

Next ==
    \/ Enter \/ EnterFails \/ Cancel \/ BeginExit \/ Close
    \/ \E hasDiscard \in BOOLEAN : Spawn(hasDiscard)
    \/ \E t \in Tasks :
          \/ Join(t) \/ JoinAtExit(t)
          \/ \E result \in BodyResults : Finish(t, result)

Spec == Init /\ [][Next]_contractVars
=============================================================================
