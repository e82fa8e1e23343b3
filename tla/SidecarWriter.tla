---------------------------- MODULE SidecarWriter ----------------------------
(***************************************************************************)
(* writeTypedSidecarAtomic of tooling/typed-sidecar/codec.mjs: calls in      *)
(* several processes replace one typed sidecar, a lock file between them.    *)
(*                                                                          *)
(* An action is the code between two awaits, which are calls of the file     *)
(* system.  A document is its generation.sequence and the source it is       *)
(* about; the versions of the source are numbered, and its digest is the     *)
(* number.  The temporary file of a call, whose name no other call has, is   *)
(* not modelled: it is there from "written" to "finally", and longer when    *)
(* its process dies, but nobody else looks at it.                            *)
(***************************************************************************)
EXTENDS Integers, Sequences

CONSTANTS
    Calls,           \* the calls of writeTypedSidecarAtomic
    Processes,
    ProcessOf,       \* the process of each call
    Sequence,        \* the sequence of the document of each call
    Refreshing,      \* the calls whose refreshCurrentSourceDigest reads the source
    Attempts,        \* LOCK_WAIT_MILLISECONDS / LOCK_POLL_MILLISECONDS
    Nobody,          \* no call
    MaxEdits         \* how often the source is edited

ASSUME CallsAssumption ==
    /\ ProcessOf \in [Calls -> Processes]
    /\ Sequence \in [Calls -> Nat]
    /\ Refreshing \subseteq Calls
    /\ Nobody \notin Calls
ASSUME BoundsAssumption == Attempts \in Nat /\ MaxEdits \in Nat

VARIABLES
    destination,     \* what is at the destination
    lock,            \* the call whose lock file exists, or Nobody
    source,          \* the version of the source
    stage,           \* how far each call has got
    queue,           \* writeQueues: the calls of each process, in order
    tries,           \* the attempts at the lock
    digest,          \* currentSourceDigest of each call
    current,         \* what each call read at the destination, until it decides
    answer,          \* what each call returns: "ok", TS006 or the reason of TS005
    lockedAt         \* history: the source when each call got the lock

files == <<destination, lock>>
vars  == <<files, source, stage, queue, tries, digest, current,
           answer, lockedAt>>

\* A destination: nothing, a document of this file or of another one, bytes
\* that are no document, or a symlink or directory.
Document(sequence, version) ==
    [kind |-> "document", sequence |-> sequence, source |-> version]
NoDocument(kind) == [kind |-> kind, sequence |-> 0, source |-> 0]

Init ==
    /\ destination \in {NoDocument(k) : k \in {"absent", "other", "invalid", "unsafe"}}
                         \cup {Document(1, 0)}
    /\ lock = Nobody
    /\ source = 0
    /\ stage = [c \in Calls |-> "idle"]
    /\ queue = [p \in Processes |-> <<>>]
    /\ tries = [c \in Calls |-> 0]
    /\ digest = [c \in Calls |-> 0]
    /\ current = [c \in Calls |-> NoDocument("absent")]
    /\ answer = [c \in Calls |-> "none"]
    /\ lockedAt = [c \in Calls |-> 0]

-----------------------------------------------------------------------------
(* The decision *)

\* Mutant: an equal sequence replaces too.
replacementAgainst_equal(d, c, version) ==
    CASE d.kind = "invalid" -> "invalid-old"
      [] d.kind # "invalid" /\ digest[c] # version -> "source-mismatch"
      [] d.kind = "other" /\ digest[c] = version -> "wrong-file"
      [] d.kind = "document" /\ digest[c] = version /\ Sequence[c] < d.sequence ->
           "stale-sequence"
      [] OTHER -> "allow"

\* replacementAgainst and canReplaceTypedSidecar.
replacementAgainst(d, c, version) ==
    CASE d.kind = "invalid" -> "invalid-old"
      [] d.kind # "invalid" /\ digest[c] # version -> "source-mismatch"
      [] d.kind = "other" /\ digest[c] = version -> "wrong-file"
      [] d.kind = "document" /\ digest[c] = version /\ Sequence[c] <= d.sequence ->
           "stale-sequence"
      [] OTHER -> "allow"

Go(c, from, to) == stage[c] = from /\ stage' = [stage EXCEPT ![c] = to]

\* A throw: on to the finally block, with what it did not make left alone.
Throw(c, from, why) ==
    /\ Go(c, from, "finally")
    /\ answer' = [answer EXCEPT ![c] = why]

-----------------------------------------------------------------------------
(* One call, await by await *)

\* The caller encoded a document for the source as it read it.
writeTypedSidecarAtomic(c) ==
    /\ Go(c, "idle", "queued")
    /\ queue' = [queue EXCEPT ![ProcessOf[c]] = Append(@, c)]
    /\ digest' = [digest EXCEPT ![c] = source]
    /\ UNCHANGED <<files, source, tries, current, answer, lockedAt>>

\* Mutant: a call does not wait for the one before it.
serializeDestination_at_once(c) ==
    /\ Go(c, "queued", "locking")
    /\ UNCHANGED <<files, source, queue, tries, digest, current, answer, lockedAt>>

\* serializeDestination: the calls of a process go one by one.
serializeDestination(c) ==
    /\ queue[ProcessOf[c]] # <<>> /\ Head(queue[ProcessOf[c]]) = c
    /\ Go(c, "queued", "locking")
    /\ UNCHANGED <<files, source, queue, tries, digest, current, answer, lockedAt>>

\* Mutant: the call waits for as long as the lock is there.
acquireDestinationLock_patient(c) ==
    /\ lock = Nobody
    /\ Go(c, "locking", "locked")
    /\ lock' = c
    /\ lockedAt' = [lockedAt EXCEPT ![c] = source]
    /\ UNCHANGED <<destination, source, queue, tries, digest, current, answer>>

\* acquireDestinationLock: one exclusive open, then the timer.
acquireDestinationLock(c) ==
    /\ \/ /\ lock = Nobody
          /\ Go(c, "locking", "locked")
          /\ lock' = c
          /\ lockedAt' = [lockedAt EXCEPT ![c] = source]
          /\ tries' = [tries EXCEPT ![c] = 0]
          /\ UNCHANGED answer
       \/ /\ lock # Nobody /\ tries[c] >= Attempts
          /\ Throw(c, "locking", "TS006")
          /\ UNCHANGED <<lock, lockedAt, tries>>
       \/ /\ stage[c] = "locking"
          /\ lock # Nobody /\ tries[c] < Attempts
          /\ tries' = [tries EXCEPT ![c] = @ + 1]
          /\ UNCHANGED <<lock, stage, lockedAt, answer>>
    /\ UNCHANGED <<destination, source, queue, digest, current>>

\* lockHandle.stat().
statLock(c) ==
    /\ Go(c, "locked", "held")
    /\ UNCHANGED <<files, source, queue, tries, digest, current, answer, lockedAt>>

\* readDestination and the first decision.
readInitial(c) ==
    /\ LET reason == IF destination.kind = "unsafe" THEN "TS006"
                     ELSE replacementAgainst(destination, c, digest[c])
       IN  \/ reason # "allow" /\ Throw(c, "held", reason)
           \/ reason = "allow" /\ Go(c, "held", "creating") /\ UNCHANGED answer
    /\ UNCHANGED <<files, source, queue, tries, digest, current, lockedAt>>

\* The temporary file is opened, statted, written, synchronized and closed.
writeTemporary(c) ==
    /\ Go(c, "creating", "written")
    /\ UNCHANGED <<files, source, queue, tries, digest, current, answer, lockedAt>>

\* The destination is read again, then the temporary file is statted; what
\* was safe to read is still, for only writers change the destination.
readCurrent(c) ==
    /\ Go(c, "written", "deciding")
    /\ current' = [current EXCEPT ![c] = destination]
    /\ UNCHANGED <<files, source, queue, tries, digest, answer, lockedAt>>

\* Mutant: the digest is not refreshed.
commitSourceDigest_captured(c) == digest[c]

\* The callback is optional: without it, or when it hashes again the bytes that
\* the caller passed (currentSourceBytes), the captured digest stands.
commitSourceDigest(c) == IF c \in Refreshing THEN source ELSE digest[c]

\* A source that cannot be read is another one.
unreadable(c) == IF c \in Refreshing THEN {"source-mismatch"} ELSE {}

\* The second decision.
decide(c) ==
    /\ LET reason == replacementAgainst(current[c], c, commitSourceDigest(c))
       IN  \/ \E why \in {reason} \cup unreadable(c) :
                 why # "allow" /\ Throw(c, "deciding", why)
           \/ reason = "allow" /\ Go(c, "deciding", "renaming") /\ UNCHANGED answer
    /\ current' = [current EXCEPT ![c] = NoDocument("absent")]
    /\ UNCHANGED <<files, source, queue, tries, digest, lockedAt>>

\* The temporary file takes the place of the destination.
rename(c) ==
    /\ Throw(c, "renaming", "ok")
    /\ destination' = Document(Sequence[c], digest[c])
    /\ UNCHANGED <<lock, source, queue, tries, digest, current, lockedAt>>

\* assertNotCancelled throws, or a call of the file system fails.
throws(c) ==
    /\ \E from \in {"locking", "locked", "held", "creating", "written",
                    "deciding", "renaming"} : Throw(c, from, "TS006")
    /\ UNCHANGED <<files, source, queue, tries, digest, current, lockedAt>>

\* Mutant: the lock is removed by its name, by those who did not get it too.
safeUnlinkOwned_by_name(c) == lock' = Nobody

\* The lock file that this call made is removed.
safeUnlinkOwned(c) == lock' = IF lock = c THEN Nobody ELSE lock

\* The finally block and release(): the promise resolves and the next call of
\* the process starts.  The removal may fail, and no one is told; it is not
\* even tried for a lock whose stat failed.  The locals of the call are reset.
finally(c) ==
    /\ Go(c, "finally", "done")
    /\ safeUnlinkOwned(c) \/ UNCHANGED lock
    /\ queue' = [queue EXCEPT ![ProcessOf[c]] = Tail(@)]
    /\ digest' = [digest EXCEPT ![c] = 0]
    /\ lockedAt' = [lockedAt EXCEPT ![c] = 0]
    /\ UNCHANGED <<destination, source, tries, current, answer>>

-----------------------------------------------------------------------------
(* Around the calls *)

edit ==
    /\ source < MaxEdits
    /\ source' = source + 1
    /\ UNCHANGED <<files, stage, queue, tries, digest, current, answer, lockedAt>>

\* A process dies; its files stay.
crash(p) ==
    /\ \E c \in Calls : ProcessOf[c] = p /\ stage[c] \notin {"idle", "done", "dead"}
    /\ stage' = [c \in Calls |-> IF ProcessOf[c] = p /\ stage[c] # "done"
                                 THEN "dead" ELSE stage[c]]
    /\ queue' = [queue EXCEPT ![p] = <<>>]
    /\ UNCHANGED <<files, source, tries, digest, current, answer, lockedAt>>

Step(c) ==
    \/ serializeDestination(c) \/ acquireDestinationLock(c) \/ statLock(c)
    \/ readInitial(c) \/ writeTemporary(c) \/ readCurrent(c) \/ decide(c)
    \/ rename(c) \/ finally(c)

Next ==
    \/ \E c \in Calls : writeTypedSidecarAtomic(c) \/ Step(c) \/ throws(c)
    \/ edit
    \/ \E p \in Processes : crash(p)

\* The event loop of a living process does not starve; no call need fail.
Spec == Init /\ [][Next]_vars /\ \A c \in Calls : WF_vars(Step(c))

-----------------------------------------------------------------------------
Stages == {"idle", "queued", "locking", "locked", "held", "creating", "written",
           "deciding", "renaming", "finally", "done", "dead"}
Kinds == {"absent", "document", "other", "invalid", "unsafe"}
Destination == [kind : Kinds, sequence : Nat, source : Nat]
Answers == {"none", "ok", "TS006", "invalid-old", "source-mismatch", "wrong-file",
            "stale-sequence"}

\* The type invariant; a call under way is the first of its process.
TypeOK ==
    /\ \A c \in Calls :
          stage[c] \notin {"idle", "queued", "done", "dead"} =>
              queue[ProcessOf[c]] # <<>> /\ Head(queue[ProcessOf[c]]) = c
    /\ destination \in Destination
    /\ lock \in Calls \cup {Nobody}
    /\ source \in Nat
    /\ stage \in [Calls -> Stages]
    /\ queue \in [Processes -> Seq(Calls)]
    /\ tries \in [Calls -> Nat]
    /\ digest \in [Calls -> Nat]
    /\ current \in [Calls -> Destination]
    /\ answer \in [Calls -> Answers]
    /\ lockedAt \in [Calls -> Nat]

-----------------------------------------------------------------------------
(* Safety *)

\* The stages at which a call works on the destination.
Holding == {"locked", "held", "creating", "written", "deciding", "renaming"}

\* One call at a time works on the destination, in all processes, also after
\* calls that timed out, were cancelled, failed or died; the lock is its own.
LockIsExclusive == \A c \in Calls : stage[c] \in Holding => lock = c

\* What a call is told stays true: once it is told that its document is there,
\* or that it came too late, its generation or a later one is there for good.
AnswersHold ==
    \A c \in Calls :
        answer[c] \in {"ok", "stale-sequence"} =>
            /\ destination.kind = "document"
            /\ destination.sequence >= Sequence[c]

\* A call that refreshes the digest from the source never stores a document
\* about a source that was edited before the call got the lock, however long it
\* waited and although the digest it was given still agrees with the document.
\* The other calls promise nothing of the kind.
FreshWhenLocked ==
    [][\A c \in Refreshing :
          answer'[c] = "ok" /\ answer[c] # "ok" =>
              destination'.source >= lockedAt[c]]_vars

(* Refinement *)

Outcome(c) ==
    CASE answer[c] = "none" -> "open"
      [] answer[c] = "ok" -> "ok"
      [] answer[c] = "stale-sequence" -> "stale"
      [] OTHER -> "failed"

Contract == INSTANCE SidecarContract
    WITH stored <- destination, outcome <- [c \in Calls |-> Outcome(c)]

\* The writers implement an atomic register whose generation only grows.
ImplementsContract == Contract!Spec

(* Liveness *)

\* Every call returns, unless its process dies, also behind a lock file that
\* nobody will ever remove.
EveryCallReturns ==
    \A c \in Calls : stage[c] = "queued" ~> stage[c] \in {"done", "dead"}
=============================================================================
