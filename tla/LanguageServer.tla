--------------------------- MODULE LanguageServer ---------------------------
(***************************************************************************)
(* The documents of tooling/lsp/server.js and their analyses, with the      *)
(* operations and the worker thread of semantic-sidecar.mjs.                *)
(*                                                                          *)
(* The server is one thread: an action is one callback of its event loop    *)
(* together with the promise continuations that run right after it.  Only   *)
(* the first await of an analysis may be followed by more notifications,    *)
(* those that arrived in the same chunk of input.  The worker is another    *)
(* thread; it may crash, which the server learns from an `error' event and,  *)
(* later, from an `exit' event.                                             *)
(*                                                                          *)
(* A text stands for the source, its tokens, its bytes and its digest; what *)
(* was computed from a text is modelled by that text.                       *)
(***************************************************************************)
EXTENDS Integers, Sequences

CONSTANTS
    Uris, Texts, Versions,    \* documents, sources, version numbers
    Openings,                 \* the <<uri, version, text>> of each didOpen
    Nothing,                  \* no text: nothing computed, nothing listed
    MaxSessions,              \* how often the client opens a document
    MaxChanges,               \* how often it changes one
    MaxCrashes                \* how often a worker crashes

ASSUME BoundsAreNumbers ==
    /\ Versions \subseteq Nat
    /\ MaxSessions \in Nat /\ MaxChanges \in Nat /\ MaxCrashes \in Nat
    /\ Openings \in [1 .. MaxSessions -> SUBSET (Uris \X Versions \X Texts)]
    /\ Nothing \notin Texts

VARIABLES
    documents,        \* documents: what the server keeps of each URI
    sessionSequence,  \* the epoch of the last document opened
    phase,            \* "serving", "shutdown" (shutdownRequested) or "exited"
    published,        \* the last publishDiagnostics of each URI
    adapter,          \* semanticAdapterPromise: "loading", "loaded", "failed"
    analyses,         \* the calls of runSemanticAnalysis that have not returned
    pending,          \* the operations whose promise is not resolved
    worker,           \* the current worker thread, 0 if there is none
    threads,          \* every worker thread created: its state and its mailbox
    torn,             \* history: the URIs whose last change was half applied
    rejections,       \* history: how often a worker rejected the analysis of a URI
    changes, crashes  \* how often the client changed a text, a worker crashed

client == <<documents, sessionSequence, phase, torn, rejections, changes>>
tasks  == <<adapter, analyses, pending, worker, threads, crashes>>
vars   == <<client, published, tasks>>

Closed == [open |-> FALSE]

\* The document that didOpen creates, before its first analysis.
Opened(epoch, version, text) ==
    [open |-> TRUE, epoch |-> epoch, version |-> version, text |-> text,
     generation |-> 0, state |-> "pending", sidecar |-> Nothing,
     tokens |-> Nothing, lexicalIndex |-> Nothing]

Open == {u \in Uris : documents[u].open}

Settled == {"semantic", "syntactic-fallback"}

Init ==
    /\ documents = [u \in Uris |-> Closed]
    /\ sessionSequence = 0
    /\ phase = "serving"
    /\ published = [u \in Uris |-> [version |-> 0, about |-> Nothing]]
    /\ adapter = "loading"
    /\ analyses = {} /\ pending = {}
    /\ worker = 0 /\ threads = <<>>
    /\ torn = {} /\ rejections = [u \in Uris |-> 0]
    /\ changes = 0 /\ crashes = 0

-----------------------------------------------------------------------------
(* The analysis of a document *)

\* An operation is named by the analysis and the attempt it belongs to.
Operation(a) == <<a.epoch, a.generation, a.retry>>

\* The analyses that hold the signal of the current controller of d.
HoldsSignal(a, d) == a.epoch = d.epoch /\ a.generation = d.generation

\* controller.abort(): an operation of the worker resolves as cancelled, and
\* its analysis returns; one that has not got that far sees it when it does.
Aborted(S) ==
    {[a EXCEPT !.aborted = TRUE] : a \in {b \in S : b.stage # "posted"}}

AbortDocuments(S) ==
    LET hit == {a \in analyses : \E d \in S : HoldsSignal(a, d)}
    IN  /\ pending' = pending \ {Operation(a) : a \in hit}
        /\ analyses' = (analyses \ hit) \cup Aborted(hit)

\* Mutant: the first attempt already counts as the retry.
Captured_last(u, d) ==
    [uri |-> u, epoch |-> d.epoch, version |-> d.version,
     generation |-> d.generation, text |-> d.text,
     aborted |-> FALSE, retry |-> 1, stage |-> "await"]

\* What an analysis captures of the document it is scheduled for.
Captured(u, d) ==
    [uri |-> u, epoch |-> d.epoch, version |-> d.version,
     generation |-> d.generation, text |-> d.text,
     aborted |-> FALSE, retry |-> 0, stage |-> "await"]

\* Mutant: the sidecar of the text before the change is kept.
scheduleSemanticAnalysis_kept(u, old, d) ==
    LET scheduled == [d EXCEPT !.generation = @ + 1, !.state = "pending"]
        hit == {a \in analyses : old.open /\ HoldsSignal(a, old)}
    IN  /\ documents' = [documents EXCEPT ![u] = scheduled]
        /\ pending' = pending \ {Operation(a) : a \in hit}
        /\ analyses' = (analyses \ hit) \cup Aborted(hit)
                         \cup {Captured(u, scheduled)}
        /\ torn' = torn \ {u}
        /\ rejections' = [rejections EXCEPT ![u] = 0]

\* old is the document whose analysis is aborted, d the one to analyse.
scheduleSemanticAnalysis(u, old, d) ==
    LET scheduled == [d EXCEPT !.generation = @ + 1, !.state = "pending",
                               !.sidecar = Nothing]
        hit == {a \in analyses : old.open /\ HoldsSignal(a, old)}
    IN  /\ documents' = [documents EXCEPT ![u] = scheduled]
        /\ pending' = pending \ {Operation(a) : a \in hit}
        /\ analyses' = (analyses \ hit) \cup Aborted(hit)
                         \cup {Captured(u, scheduled)}
        /\ torn' = torn \ {u}
        /\ rejections' = [rejections EXCEPT ![u] = 0]

\* Mutant: the version stands for the text.
currentAnalysis_by_version(a) ==
    LET d == documents[a.uri]
    IN  /\ d.open /\ d.epoch = a.epoch
        /\ d.version = a.version /\ d.generation = a.generation
        /\ ~a.aborted

currentAnalysis(a) ==
    LET d == documents[a.uri]
    IN  /\ d.open /\ d.epoch = a.epoch
        /\ d.version = a.version /\ d.generation = a.generation
        /\ d.text = a.text
        /\ ~a.aborted

\* The document after the result of its analysis.
Concluded(d, a, result) ==
    CASE result = "sidecar" -> [d EXCEPT !.state = "semantic", !.sidecar = a.text]
      [] result = "ETS04" ->
           [d EXCEPT !.state = "syntactic-fallback", !.sidecar = Nothing,
                     !.tokens = d.text]
      [] result = "failure" /\ a.retry = 1 ->
           [d EXCEPT !.state = "discarded-invalid-sidecar", !.sidecar = Nothing]
      [] OTHER -> d

\* Mutant: a failed attempt is never repeated.
Retried_never(a, result) == FALSE

Retried(a, result) == result = "failure" /\ a.retry = 0

\* The diagnostics that are published with it.
Diagnostics(d, a, result) ==
    [version |-> d.version,
     about |-> CASE result = "sidecar" -> a.text
                 [] result = "ETS04" -> d.text
                 [] OTHER -> Nothing]

\* runSemanticAnalysis from the result on, for the analyses in S.
Conclude(S, result) ==
    LET current == {a \in S : currentAnalysis(a)}
        again   == {a \in current : Retried(a, result)}
        done    == [u \in Uris |-> {a \in current \ again : a.uri = u}]
    IN  /\ documents' = [u \in Uris |->
              IF done[u] = {} THEN documents[u]
              ELSE Concluded(documents[u], CHOOSE a \in done[u] : TRUE, result)]
        /\ published' = [u \in Uris |->
              IF done[u] = {} THEN published[u]
              ELSE Diagnostics(documents[u], CHOOSE a \in done[u] : TRUE, result)]
        /\ analyses' = (analyses \ S) \cup
              {[a EXCEPT !.stage = "immediate", !.retry = 1] : a \in again}

-----------------------------------------------------------------------------
(* Notifications and requests *)

didOpen(u, version, text) ==
    /\ sessionSequence < MaxSessions
    /\ <<u, version, text>> \in Openings[sessionSequence + 1]
    /\ sessionSequence' = sessionSequence + 1
    /\ scheduleSemanticAnalysis(u, documents[u],
                                Opened(sessionSequence + 1, version, text))
    /\ UNCHANGED <<phase, changes, published, adapter, worker, threads,
                   crashes>>

\* A newer version whose edits all apply; an older one is ignored.
didChange(u, version, text) ==
    /\ changes < MaxChanges
    /\ u \in Open /\ version > documents[u].version
    /\ changes' = changes + 1
    /\ scheduleSemanticAnalysis(u, documents[u],
           [documents[u] EXCEPT !.text = text, !.version = version])
    /\ UNCHANGED <<sessionSequence, phase, published, adapter, worker, threads,
                   crashes>>

\* applyChanges applies the first edits and returns false at a later one.
didChangeHalf(u, version, text) ==
    /\ changes < MaxChanges
    /\ u \in Open /\ version > documents[u].version
    /\ text # documents[u].text
    /\ changes' = changes + 1
    /\ documents' = [documents EXCEPT ![u].text = text]
    /\ torn' = torn \cup {u}
    /\ UNCHANGED <<sessionSequence, phase, rejections, published, tasks>>

didClose(u) ==
    /\ u \in Open
    /\ AbortDocuments({documents[u]})
    /\ published' = [published EXCEPT
                       ![u] = [version |-> documents[u].version, about |-> Nothing]]
    /\ documents' = [documents EXCEPT ![u] = Closed]
    /\ torn' = torn \ {u}
    /\ rejections' = [rejections EXCEPT ![u] = 0]
    /\ UNCHANGED <<sessionSequence, phase, changes, adapter, worker, threads,
                   crashes>>

\* NoCrashNorShutdown bounds the model: a run has a crash or a shutdown.
NoCrashNorShutdown == phase = "serving" /\ crashes = 0

shutdown ==
    /\ NoCrashNorShutdown
    /\ phase' = "shutdown"
    /\ AbortDocuments({documents[u] : u \in Open})
    /\ UNCHANGED <<documents, sessionSequence, torn, changes, published,
                   adapter, worker, threads, rejections, crashes>>

\* The process ends, on `exit' or at the end of its input.
exit ==
    /\ phase' = "exited"
    /\ documents' = [u \in Uris |-> Closed]
    /\ torn' = {} /\ rejections' = [u \in Uris |-> 0]
    /\ analyses' = {} /\ pending' = {} /\ worker' = 0 /\ threads' = <<>>
    /\ UNCHANGED <<sessionSequence, changes, published, adapter, crashes>>

\* Mutant: the memoised index is not compared with the text.
IndexUsed_memo(d) ==
    IF d.state = "syntactic-fallback" /\ d.tokens # Nothing THEN d.tokens
    ELSE IF d.lexicalIndex # Nothing THEN d.lexicalIndex
    ELSE d.text

\* completionIndex: the text whose index a request works on.
IndexUsed(d) ==
    IF d.state = "syntactic-fallback" /\ d.tokens # Nothing THEN d.tokens
    ELSE IF d.lexicalIndex = d.text THEN d.lexicalIndex
    ELSE d.text

\* A request that needs the index of a settled document keeps what it built.
buildLexicalIndex(u) ==
    /\ u \in Open /\ documents[u].state \in Settled
    /\ ~(documents[u].state = "syntactic-fallback" /\ documents[u].tokens # Nothing)
    /\ documents[u].lexicalIndex # documents[u].text
    /\ documents' = [documents EXCEPT ![u].lexicalIndex = documents[u].text]
    /\ UNCHANGED <<sessionSequence, phase, torn, rejections, changes, published, tasks>>

-----------------------------------------------------------------------------
(* The adapter and its worker *)

adapterSettles(to) ==
    /\ adapter = "loading"
    /\ adapter' = to
    /\ UNCHANGED <<client, published, analyses, pending, worker, threads,
                   crashes>>

NewThread == [state |-> "up", inbox |-> <<>>]

\* produce: the signal, the worker, the operation, the message.
post(a) ==
    /\ adapter = "loaded" /\ ~a.aborted
    /\ LET created == IF worker = 0 THEN Append(threads, NewThread) ELSE threads
           current == IF worker = 0 THEN Len(created) ELSE worker
       IN  /\ worker' = current
           /\ threads' = [created EXCEPT ![current].inbox = Append(@, Operation(a))]
    /\ pending' = pending \cup {Operation(a)}
    /\ analyses' = (analyses \ {a}) \cup {[a EXCEPT !.stage = "posted"]}
    /\ UNCHANGED <<documents, published>>

\* An aborted analysis ends; one whose adapter failed to load fails.
end_unposted(a) ==
    /\ \/ adapter = "loaded" /\ a.aborted /\ Conclude({a}, "cancelled")
       \/ adapter = "failed" /\ Conclude({a}, "failure")
    /\ UNCHANGED <<pending, worker, threads>>

\* runSemanticAnalysis up to its second await, from its caller or setImmediate.
runSemanticAnalysis(a) ==
    /\ a.stage \in {"await", "immediate"}
    /\ adapter # "loading"
    /\ UNCHANGED <<sessionSequence, phase, torn, changes, adapter, rejections,
                   crashes>>
    /\ post(a) \/ end_unposted(a)

Owner(op) == {a \in analyses : a.stage = "posted" /\ Operation(a) = op}

\* The worker analyses the next message; its answer finds the operation or not.
worker_answers(w, result) ==
    /\ threads[w].state = "up" /\ threads[w].inbox # <<>>
    /\ threads' = [threads EXCEPT ![w].inbox = Tail(@)]
    /\ UNCHANGED <<sessionSequence, phase, torn, changes, adapter, worker, crashes>>
    /\ LET op == Head(threads[w].inbox)
           found == {a \in Owner(op) : op \in pending}
       IN  /\ Conclude(found, result)
           /\ pending' = pending \ {op}
           /\ rejections' = [u \in Uris |-> rejections[u] +
                 IF result = "failure" /\ \E a \in found : a.uri = u THEN 1 ELSE 0]

worker_crashes(w) ==
    /\ crashes < MaxCrashes /\ phase = "serving"
    /\ threads[w].state = "up"
    /\ threads' = [threads EXCEPT ![w] = [state |-> "crashed", inbox |-> <<>>]]
    /\ crashes' = crashes + 1
    /\ UNCHANGED <<client, published, adapter, analyses, pending, worker>>

\* Mutant: the handlers clear the operations without resolving them.
worker_event_silent(w, from, to) ==
    /\ threads[w].state = from
    /\ threads' = [threads EXCEPT ![w].state = to]
    /\ worker' = 0
    /\ pending' = {}
    /\ UNCHANGED <<client, published, adapter, analyses, crashes>>

\* The `error' and the `exit' handler fail whatever is pending, and forget the
\* current worker, whichever it is.
worker_event(w, from, to) ==
    /\ threads[w].state = from
    /\ threads' = [threads EXCEPT ![w].state = to]
    /\ worker' = 0
    /\ pending' = {}
    /\ Conclude(UNION {Owner(op) : op \in pending}, "failure")
    /\ UNCHANGED <<sessionSequence, phase, torn, changes, adapter, rejections, crashes>>

-----------------------------------------------------------------------------
Notification ==
    \/ \E u \in Uris, v \in Versions, t \in Texts :
          didOpen(u, v, t) \/ didChange(u, v, t) \/ didChangeHalf(u, v, t)
    \/ \E u \in Uris : didClose(u) \/ buildLexicalIndex(u)
    \/ shutdown
    \/ exit

Results == {"sidecar", "ETS04", "failure"}

Task ==
    \/ \E to \in {"loaded", "failed"} : adapterSettles(to)
    \/ \E a \in analyses : runSemanticAnalysis(a)
    \/ \E w \in DOMAIN threads :
          \/ \E result \in Results : worker_answers(w, result)
          \/ worker_event(w, "crashed", "errored")
          \/ worker_event(w, "errored", "gone")

Next ==
    /\ phase # "exited"
    /\ Notification \/ Task \/ \E w \in DOMAIN threads : worker_crashes(w)

\* The event loop and the worker thread do not starve; a crash need not come.
Spec == Init /\ [][Next]_vars /\ WF_vars(phase # "exited" /\ Task)

-----------------------------------------------------------------------------
Analysis ==
    [uri : Uris, epoch : 1 .. MaxSessions, version : Versions,
     generation : 1 .. MaxChanges + 1, text : Texts, aborted : BOOLEAN,
     retry : 0 .. 1, stage : {"await", "posted", "immediate"}]

\* The type invariant.
TypeOK ==
    /\ \A u \in Open :
         /\ documents[u].epoch \in 1 .. sessionSequence
         /\ documents[u].state \in
              Settled \cup {"pending", "discarded-invalid-sidecar"}
         /\ documents[u].sidecar # Nothing <=> documents[u].state = "semantic"
    /\ sessionSequence \in 0 .. MaxSessions
    /\ phase \in {"serving", "shutdown", "exited"}
    /\ adapter \in {"loading", "loaded", "failed"}
    /\ analyses \subseteq Analysis
    /\ worker \in 0 .. Len(threads)
    /\ torn \subseteq Open

-----------------------------------------------------------------------------
(* Safety *)

\* What the answer to a request about a settled document is computed from.
AnsweredFrom(d) ==
    {IndexUsed(d)} \cup
        CASE d.state = "semantic" -> {d.sidecar}
          [] d.state = "syntactic-fallback" -> {d.tokens}

\* No request is answered from an old text, whatever analyses of earlier
\* versions, sessions or attempts come in late, unless the last change of the
\* document was half applied: then the answers mix two texts.
AnswersAreCurrent ==
    \A u \in Open \ torn :
        documents[u].state \in Settled =>
            AnsweredFrom(documents[u]) = {documents[u].text}

\* Diagnostics that are published for an open document are about the text it
\* has, under the version it has, even after a half-applied change.
DiagnosticsAreCurrent ==
    [][\A u \in Open' :
          published'[u] # published[u] =>
              /\ published'[u].version = documents'[u].version
              /\ published'[u].about \in {documents'[u].text, Nothing}]_vars

\* The operation has a worker that will answer it or die.
Served(op) ==
    \E w \in DOMAIN threads :
        \/ threads[w].state = "up" /\ \E i \in DOMAIN threads[w].inbox :
                                          threads[w].inbox[i] = op
        \/ threads[w].state \in {"crashed", "errored"}

\* A pending document has an analysis of its own under way, and nothing that
\* happens to workers and other documents loses it: an operation that nobody
\* will ever resolve would leave the document without answers.
PendingIsInFlight ==
    phase = "serving" =>
        \A u \in Open \ torn :
            documents[u].state = "pending" =>
                \E a \in analyses :
                    /\ a.uri = u /\ currentAnalysis(a)
                    /\ a.stage = "posted" =>
                          Operation(a) \in pending /\ Served(Operation(a))

\* A document is given up only after two failures: the worker rejected both
\* attempts, unless a worker crashed, whose events may fail the operations of
\* its successor, or the adapter is not there.
DiscardIsDeserved ==
    \A u \in Open :
        documents[u].state = "discarded-invalid-sidecar" =>
            \/ adapter = "failed"
            \/ crashes > 0
            \/ rejections[u] = 2

(* Liveness *)

\* Every document is settled or given up, or closed, in the end, although its
\* worker may crash, unless a change was half applied or the client leaves.
EveryDocumentSettles ==
    \A u \in Uris :
        (u \in Open /\ documents[u].state = "pending") ~>
            \/ u \notin Open
            \/ documents[u].state # "pending"
            \/ u \in torn
            \/ phase # "serving"
=============================================================================
