# Formal verification of kofun

kofun is a programming language with a C bootstrap toolchain, a runtime for
scoped parallelism, and small frameworks (HTTP server, terminal UI, command
line). Most of the repository translates text to text and is tested by goldens.
This directory models the parts that golden tests hardly reach, because several
threads, clients, processes or interrupted runs act at once. The models are
TLA+; TLC checks them on small instances, and TLAPS proves every safety property
of the passing runs for all values of the parameters: any number of tasks,
clients, documents, modules, records, calls and processes. Three properties of the
module graph hold, and are proved, for one run at a time.

- [Parts of the system](#parts-of-the-system)
- [Modules](#modules)
- [Runs](#runs)
- [Proofs](#proofs)
- [Disagreements found](#disagreements-found)
- [What is not modelled](#what-is-not-modelled)
- [Plan](#plan)

To check: `tlc -config <cfg> <MC module>` for a run of `PROJECT.json`, and
`tlapm <module>.tla` for each of `ScopedParallelProofs`,
`ScopedParallelContractProofs`, `KofunHttpProofs`, `KofunHttpStreamProofs`,
`IncrementalGraphProofs`, `LanguageServerProofs`, `SemanticEventsProofs` and
`SidecarWriterProofs`.

## Parts of the system

| part | state | operations | what is hard | what makes it correct |
|---|---|---|---|---|
| scoped parallelism runtime, `bootstrap/stage2/scoped_parallel_v1.[ch]` | the scope struct: task slots, the queue between `next_pending` and `spawned`, worker threads, one mutex, two condition variables | enter, spawn, join, cancel, exit; `worker_main` | lost and spurious wake-ups, claims by several workers, partial thread creation, a panic while siblings run, re-entry of a used struct | a body runs once; no task waits beside a sleeping worker; exit is a barrier; reports follow spawn order, not completion order; unconsumed results are discarded once |
| HTTP server, `framework/http/src/kofun_http.c` | a fixed table of connections with input and output buffers; the epoll batch; the drain deadline | route, accept, read, frame, respond, flush, expire, drain, destroy | stale events and reused descriptors, pipelining, partial sends, full buffers, half-close and reset, SIGTERM at any moment, slow clients | responses in order and whole; nothing after `Connection: close`; the table and the kernel agree; everything is answered or closed; a drain ends |
| incremental module graph, `bootstrap/stage2/incremental_graph.c` | a cache directory (interfaces, manifest), the report, the caller's artifacts | load, decide, execute, propagate, commit manifest, commit report | runs that stop anywhere, edits between and during runs, damaged files, facades and packages, two runs at once | what is reused is what a clean build makes; nothing is executed without need; artifacts are fresh |
| language server, `tooling/lsp/server.js`, `semantic-sidecar.mjs`, `semantic-worker.mjs` | open documents (text, version, generation, session epoch), an analysis per generation, the table of pending operations, one worker thread | open, change, close, query, shutdown, exit | late or aborted answers, one retry, a worker that crashes, changes that are refused half way, memoised indexes | requests and diagnostics are about the text the document has; no analysis is lost; a document settles |
| semantic event stream, `bootstrap/stage2/semantic_events.c` | records in order, relations between them, the phase, failed / cancelled / ended | begin, node, identity, reference, fact, diagnostic, cancellation, end, validate, replay, commit | records that name later ones, calls out of order and after a failure, a cancellation the bytes do not carry, a commit that dies | a finished stream is closed under what it names; its bytes replay; a file is replaced whole |
| typed sidecar writer, `tooling/typed-sidecar/codec.mjs`, `from-stage2.mjs` | the destination, the lock file, a queue of calls per process | `writeTypedSidecarAtomic` | calls in one process and in several, edits of the source meanwhile, timeouts, cancellation, processes that die with the lock | one writer at a time; the generation only grows; answers stay true; a call that refreshes its digest stores no stale source |
| semantic object cache, `bootstrap/stage2/semantic-objects.sh`, `verify-cc-wrapper.sh`, `fuzz-sanitizer-object.sh` | directories of objects keyed by content, tombstones, private temporaries | build, validate, publish by rename, reclaim | concurrent builders, signals between steps | a consumer sees a complete bundle of one profile or none |
| interface files, `bootstrap/stage2/kif_v1.c` | one `.kif` file and its temporary | write, read back, rename, sync | a failure between write, self-read, rename and directory sync | the file is the old interface or the new one, whole |
| wasm linear memory, `bootstrap/wasm/wasi_command_memory.h`, `object_arena.h` | the arena cursor, pages | allocate, grow, validate a reference or index | 32-bit arithmetic at the ceiling | no object overlaps another or leaves memory |
| terminal UI, `framework/tui` | the terminal mode, the decoder's pending bytes | read a key, draw, restore | escape sequences cut by a read, resize signals | keys are decoded the same in any pieces |
| compilers (stage 1, stage 2, native, wasm, self-hosted), command-line framework, standard library, drivers | none that outlives a call | translate, encode, parse | nothing concurrent | the text that comes out |

How they interact: a driver runs the compilers and the module graph, which
publishes `.kif` files through `kif_v1.c` and hands the caller a report of
targets to rebuild; the semantic producer, which the object cache builds, calls
the event stream record by record, and the stream's bytes are projected to a
typed sidecar, which the sidecar writer stores and the language server reads
from its worker; a compiled program that uses `par` is linked with the
parallelism runtime and calls it from generated code. The HTTP server and the
terminal UI are libraries of their own.

`PROJECT.json` lists every hazard with the line where it bites and the
properties that would catch it.

## Modules

### ScopedParallel, ParContract

`ScopedParallel` is the runtime at the grain of its mutex. Every critical
section is one step; the mutex is nevertheless a variable, because a worker
keeps it from the publication of an outcome to its next look at the queue.
`asleep` and the program counter `"idle"` are the sleepers of the two condition
variables; signals, broadcasts and spurious returns move them.

| code | model |
|---|---|
| `kofun_par_scope_enter` | `enter_refused`, `enter_no_primitives`, `kofun_par_scope_enter(workers, cap, started)`: `started` threads were created before the first failure |
| `kofun_par_spawn` | `spawn_refused`, `kofun_par_spawn` (slot reset, queue, one signal) |
| `kofun_par_join`, `wait_for` | `join_refused`, `kofun_par_join`, `wait_for_sleep`, `join_returns` |
| `kofun_par_scope_cancel` | `kofun_par_scope_cancel` |
| `kofun_par_scope_exit`, `stop_workers` | `kofun_par_scope_exit`, `drain_joins`, `drain_skips`, `stop_workers`, `reap_worker`, `report_begins`, `report_task`, `scope_closes` |
| `worker_main` | `worker_acquire`, `worker_waits`, `worker_exits`, `worker_claims`, `worker_body`, `worker_publishes` |

The parent is any sequence of calls, the refused ones included. It never enters
a scope that is open: the C code would initialise a live mutex again, which its
contract forbids. A body is any choice of outcome and message and takes any
time. The callbacks' pointers, names and the trace's text are left out; the
trace is the sequence of its anchors.

`ParContract` states what the header promises, without threads, queue or mutex:
tasks finish on their own, joins hand over finished tasks, the exit joins the
rest in spawn order, and the verdict goes by spawn ordinal. `ScopedParallel`
implements it under the refinement mapping at its end (`ImplementsContract`):
a task is finished when its outcome is published, and slots at or above
`spawned` are no tasks, whatever an earlier entry left in them.

### KofunHttp

The loop of `kofun_http_server_run` with one step per handler: `epoll_wait`
takes a snapshot of events (`batch`), which are dispatched one by one in any
order while clients, signals and the clock move in between; then the sweep
(`expire_connections`). `read_connection`, `process_request`, `drive_requests`,
`consume_request` and `flush_connection` are operators from a connection to a
connection, as in the code they are functions on one `KhConnection`.

Abstractions: data is counted in units (a header is some units and one that
ends it, which stands for what the header says); a response is `ResponseUnits`
long and only its status, the request it answers and `Connection: close` are
kept; what a route computes is "200". A descriptor is a number, given out
lowest first and reused at once, as Linux does. The kernel's send buffer towards
a client has `SendRoom` units. Ticks stand for the clock; ages are cut off at
the timeout. `req`, `for` and `waited` are history that no handler reads: `waited` counts
the ticks since the first unit of the request in the input, and stays 0 while the
input is empty. `peer` is the client behind a connection's socket. `ScriptsAssumption` says how the units
that a client writes are numbered: a header that ends, then its body, then the
next request. Any bytes read like that, from where the last request ended; a
client that stops in the middle of a request is one that writes no more of its
script.

Left out, besides: a connection that is refused because the table is full is
opened and closed in one step, so its descriptor is never seen open; `epoll_ctl` does not
fail when it changes the events of a connection (only when it adds one); a 400 or
404 that a route answers counts as a "200", since it closes nothing and no property
tells them apart; the constructor's failures (`kofun_http_server_new` returns 0 and there
is no server).

A peculiarity that the bounds avoid: with a send buffer smaller than one
response, each read event on a full input starts the 413 anew, and a client that
reads gets prefixes of it without end. `SendRoom >= ResponseUnits` keeps this
out of the liveness run; the response that is torn by the same lines is a finding.

### IncrementalGraph

One action per step of a run that reads or changes files: `load_inventory`,
`load_cached_graph`, `reuse_module` or `publish_interface` and
`finish_execution` per module, `commit_manifest`, `commit_report`. `run_stops`
is a failed write, a cancellation or a crash, between any two steps. The user
edits at any time; damage happens between runs.

A digest is what it digests. What the front end makes of the sources (imports,
edges, interfaces) is a parameter with an assumption, `InterfaceIsLocal`: a
module's interface depends only on its own source, on what its edges resolve to
and on what it may read of the modules it imports (package-internal facts only
inside the package). This is what the code's decision rests on, and TLC
evaluates it for the instance. `InterfaceHasTwoParts` says that an interface is
its public and its package-internal part, the two digests that a module keeps;
`NothingIsNoModule` keeps two model values apart. An order of the modules is any that puts
dependencies first. The manifest's fields are compared as the code compares
them; parsing of a manifest is "usable or `Damaged`". Damage is always noticed: a
manifest altered into another well-formed one would be believed by the code, which
keeps no digest of it, and is not an input of the model. `artifact` is the caller's:
it rebuilds the targets that a successful run reports.

### LanguageServer

The server is one thread, so an action is one callback of its event loop with
the promise continuations that run right after it: a notification (`didOpen`,
`didChange`, `didChangeHalf`, `didClose`, `shutdown`, `exit`), a request that
keeps the index it built (`buildLexicalIndex`), the module loader
(`adapterSettles`), the first await of an analysis (`runSemanticAnalysis`, with
`post` or `end_unposted`), an answer of the worker (`worker_answers`) and its
`error` and `exit` events (`worker_event`). The worker is another thread with a
mailbox; `worker_crashes` loses it.

A text stands for the source, its tokens and its digest; what was computed from
a text is modelled by that text, so that "stale" is "another text". A document
opened again gets the next `sessionEpoch`, also with the same version and text.
`torn` and `rejections` are history: the documents whose last change was half
applied, and how often the worker rejected the current analysis.

Coarser than the code: a failure to encode a source or to start a `Worker` is not
a step of its own (`end_unposted` has the other ways in which nothing is posted); results
that the main thread refuses after the worker accepted them count as rejections by the
worker; the index that a definition request memoises is built in any state of
a document, and the model builds it in settled ones only (what is built before has the
text that the document still has, or is not used); `exit` with the
shutdown of the worker behind it is one step, after which nothing is published.

`didChangeHalf` is `applyChanges` as the code has it: the first edits stay
although a later one is malformed. `AnswersAreCurrent` and `PendingIsInFlight`
leave such documents out; see [below](#disagreements-found).

### SemanticEvents

A stream is a value, and every callback of the sink an operator on streams
(`Begin`, `Node`, ..., `End`), because the code runs the same callbacks twice: once
for the producer and once in `kofun_semantic_validate_stream`, which decodes the
bytes into a fresh stream. `Bytes` is what is serialized; it has no field for a
cancellation that was observed. The actions are the calls of the producer, in
any order and with any record of a set of good and bad ones, `rejected` for
records that are wrong by themselves or find no memory, and
`kofun_semantic_stream_commit` step by step, with `io_fails` and `crash`.

`after(bytes)[n]` is the sink of that replay after `n` records, a recursive
function on the numbers up to the records' length. `RecordsAreOfTheirKind`: each
callback takes a C type of its own, and the first one refuses an exit class
above 3 (`stream_begin_callback`).

A stream that fails is as the code leaves it but for two fields that nobody reads
of a failed stream: `ended`, when memory runs out for the final bytes, and the last
record, when it does for the bytes of a record already counted.

Identifiers are model values; a list in canonical order is a set; a text is
whether it is empty.

### SidecarWriter, SidecarContract

`writeTypedSidecarAtomic` with one action per stretch of code between two
awaits. The destination is nothing, a document (its `generation.sequence` and
the version of the source it is about), another file's document, bytes that do
not decode, or what is unsafe to open. `queue` is `writeQueues`, one per process; `lock`
is the call whose lock file exists, which is what `safeUnlinkOwned` compares
device and inode for. `throws` is `assertNotCancelled` or a failing call of the
file system at any stage; `finally` may fail to remove the lock. `crash` kills all
calls of a process and leaves the files. `lockedAt` is history.

`refreshCurrentSourceDigest` is optional (`tooling/typed-sidecar/README.md:18` and 42).
`Refreshing` are the calls that give one which reads the source again, as the emitters
of `from-stage2.mjs` with a `sourcePath` do; `commitSourceDigest` is the source's digest for
them, or a refusal when the source cannot be read (`unreadable`), and the captured one for
the rest. An emitter with `currentSourceBytes` hashes the bytes it was given again
(`from-stage2.mjs:1437-1440`), so it is among the rest. They may store
a document of a source that was edited meanwhile, and no property says otherwise:
`FreshWhenLocked` is about `Refreshing` only.

`SidecarContract` is what the writers promise together: an atomic register. A
call commits (over nothing or a smaller generation), is refused (an equal or
larger generation is there) or gives up, at one instant; `ImplementsContract` is
the refinement, whose instant is the rename or the step that decides otherwise.

## Runs

| run | instance | states | shows |
|---|---|---|---|
| `par_safety` | 2 tasks, 0-2 workers, 2 entries, three results, with and without a discard callback | 1.2 M | type, barrier, run-once, join outcomes, cancellation, and the refinement of `ParContract`, which has the order of the trace, the discards and the verdict |
| `par_liveness` | 3 tasks, 0-2 workers, 1 entry, success and panic, fair threads | 329 k | no lost wake-up (`WorkConserving`), the report goes by spawn ordinal, calls return, spawned tasks start |
| `http_client` | 1 client, 6 scripts, buffer of 4 units | 199 k | order, framing, statuses, nothing after close, drain; answers, slots freed, drains end |
| `http_slots` | 3 interchangeable clients, 1 slot, batches of 2 | 782 k | table = open sockets, events reach their connection |
| `http_torn_response` | 1 client | - | finding 1 |
| `http_slow_header` | 1 client, headers of up to 4 units, timeout of 2 ticks, time that passes only while the loop waits (`TrickleSpec`) | - | finding 2 |
| `graph_cache` | library, facade, application; 2 edits, 1 damage, 2 profiles | 668 k | the cache and the artifacts are those of a clean build, nothing executed needlessly |
| `graph_lost_report`, `graph_two_runs` | the same modules, fewer versions | - | two findings |
| `lsp_documents` | 2 documents, 2 openings, 2 texts, 1 change, 1 crash or a shutdown | 242 k | answers and diagnostics about the current text, analyses in flight, no early discard, documents settle |
| `semantic_stream` | up to 5 records: 3 nodes, identities, a reference, facts, a diagnostic | 452 k | closure of finished streams, replay, acceptance, commit |
| `sidecar_writers` | 3 calls (2 that refresh the digest), 2 processes, 1 edit, 1 poll of the lock | 98 k | exclusion, freshness, the contract with its answers, calls return |

Why the bounds are enough. *Parallelism*: two tasks on two workers already
give two claims at once, a panic beside a running sibling and a worker that
sleeps while another publishes; the third task makes the queue longer than the
workers and gives two related panics; the second entry finds what the first
left. Between them the instances use every result a body may return. The proofs
remove the bound for all safety properties. *HTTP*: the buffer holds a header of two
units, a body of one and the one unit by which `KH_INPUT_CAPACITY` exceeds
them; scripts are longer, as five pipelined requests fill it while a response
is out. Two descriptors more than the loop's own suffice for one slot: one in
the table and one being refused; three clients make a descriptor pass to
another client twice. *Graph*: the facade chain has one edge inside a package
and one across; the library changes by a comment, an internal and a public
signature, the facade drops its re-export, the application disappears; two
edits give edit-and-revert around an interrupted run.
*Language server*: two openings are two documents that share the worker, or one
document opened again with the same version and text; that the first is `a` loses
nothing, as the documents are interchangeable; one change gives a second
generation, and an analysis has two attempts, so that up to four operations of
three owners meet one crash with its two events. *Event stream*: the
dependencies form a cycle of two nodes and one that leaves it, a node's
diagnostic comes or does not, a provisional node or fact names a node that may turn
out validated, and five records are one of each kind or a
cycle with its neighbours; the limit itself is seven events, so every stream
meets it. *Sidecar*: two calls of one process, and one of another process with the
generation of the older of the two, while one call of the first process does
not refresh its digest; a call of each process can meet in the lock
while the third waits in the queue, and the lock's owner may die at every stage.

`http_*`, `lsp_documents` and `sidecar_writers` do not check deadlock: a server that
has drained or exited stops, and so do finitely many calls. All others do.

### Fairness

- `FairSpec` of `ScopedParallel`: weak fairness of the parent *inside a call*
  and of each worker; the parent owes no call. A body returns. POSIX does not
  bound spurious wake-ups, so a run in which they never stop may keep the mutex
  busy for ever; they are assumed to stop (`<>[][~Spurious]_vars`). A contended
  mutex is not promised: weak fairness is enough because every critical
  section ends.
- `LoopSpec` of `KofunHttp`: as long as the server serves, the loop goes on.
  `LoopRuns` says this without `ENABLED`; it is equivalent to `WF_vars(Loop)`
  because some step of the loop is enabled in every serving state (`epoll_wait`
  has a timeout). What each liveness property needs of the world is its own
  premise: clients that read (`ClientsRead`) for `EverythingIsAnswered`, a clock
  that advances (`TimePasses`) for `EverySlotIsFreed` and `DrainEnds`, which
  hold although clients may never read or write.
- `LanguageServer`: weak fairness of `Task`, the callbacks and answers that are
  due: neither the event loop nor the worker starves. Notifications owe nothing,
  and a crash need not come. Tasks are finitely many between two notifications, so
  fairness of their disjunction serves each.
- `SidecarWriter`: weak fairness of each call's own next step, for a process that
  lives runs its event loop; failing (`throws`), being edited and dying are not
  forced, and no call is owed the lock: `EveryCallReturns` holds because the
  attempts at it are counted.
- `IncrementalGraph` and `SemanticEvents` have no liveness
  property: they are sequential programs.

## Proofs

`ScopedParallelProofs` proves, for every `MaxTasks`, `MaxWorkers`,
`MaxEntries`, set of results and discard choice that `BoundsAssumption` admits:

| theorem | property |
|---|---|
| `TypeCorrect` | `TypeOK` |
| `RuntimeInvHolds` | `RuntimeInv` |
| `BodiesRunOnce` | `RunsOnce` |
| `ScopeExitIsBarrier` | `Barrier` |
| `JoinsTellOutcomes` | `JoinTellsOutcome` |
| `DiscardsAreExact` | `DiscardsUnconsumed` |
| `CancellationIsJustified` | `CancelJustified` |
| `WorkIsConserved` | `WorkConserving` |

None of the properties is inductive by itself: that a task runs once depends on
nobody else holding it, which depends on the queue index, which depends on the
mutex. `RuntimeInv` strengthens them in five parts: `LockInv` (a worker is at
the head of its loop exactly when it holds the mutex), `ThreadsInv` (which
threads exist, and that the reaping loop leaves none behind), `ParentInv` (what
the parent's loops have established up to `cursor`), `QueueInv` (the queue is
the slots from `next_pending` on) and `ClaimInv` (a task being run is run by one
worker, and has run 0 times in its body and once after it). `InvHolds` proves
that `TypeOK /\ RuntimeInv /\ RunsOnce` is inductive, one step per action and per
part that the action disturbs. `Barrier` follows from it. `JoinTellsOutcome`,
`DiscardsUnconsumed` and `CancelJustified` are each inductive relative to it.
`DiscardsUnconsumed` is proved only; TLC checks it as part of the contract.
`WorkConserving` counts: a signal adds an awake worker for the task it is about, a
claim takes one away with its task, and a worker sleeps or exits only at an empty
queue (`AwakeChanges` is what one step does to the number of awake workers).

`ScopedParallelContractProofs` goes on from there:

| theorem | property |
|---|---|
| `ReportInvHolds` | the report after every slot of the last pass (`ReportInv`) |
| `ReportsAreByOrdinal` | `ReportByOrdinal` |
| `ResultInvHolds` | a published result is one that the body returned (`ResultInv`) |
| `ContractHolds` | `ImplementsContract` |

`ReportInv` says what the pass has collected from the slots before `cursor`; it
stays true of a closed scope because no thread is left to move an outcome. The
refinement has one lemma per action that the contract sees: `PublishImplements`
(a task finishes), `JoinImplements`, `DrainImplements` (a join of the exit, with
the discard of a result nobody took) and `CloseImplements` (the verdict) among
them; everything else leaves `Seen`, and so the contract's variables, alone
(`SeenIsContract`, `WorkerIsUnseen`).

`SidecarWriterProofs` proves, for all `Calls`, `Processes`, sequences, `Attempts` and
`MaxEdits`:

| theorem | property |
|---|---|
| `TypeCorrect` | `TypeOK`, with the order of the calls in a process |
| `OneWriterAtATime` | `LockIsExclusive` |
| `AnswersStayTrue` | `AnswersHold` |
| `StoredIsFresh` | `FreshWhenLocked` |
| `ContractHolds` | `ImplementsContract` |

The inductive invariant `IInv` (`IInvHolds`) adds three parts to the properties.
`NoAnswerYet`: a call has no answer before it is over. `Found`: what a call read at
the destination is still there when it decides, and what it decided still holds
when it renames; this is where `LockIsExclusive` is used, for only a rename
changes the destination, and no other call is at its rename. `Fresh`: a call about
to rename that refreshes has a document at least as new as the source was when it got
its lock (`CommittedDigest`).
`AnswersHold` follows, as a rename replaces nothing or a smaller sequence; and so
does the refinement, since every answer is given by a step at which the contract
gives it (`CallCommits`, `CallIsRefused`, `CallGivesUp`). `AnswersHold` is proved only:
TLC checks it as part of the contract. `Decision` states once what
`replacementAgainst` may answer and what each answer tells.

`LanguageServerProofs` proves, for all documents, texts, versions and bounds:

| theorem | property |
|---|---|
| `TypeCorrect` | `TypeOK` |
| `AnswersCurrent` | `AnswersAreCurrent` |
| `DiagnosticsCurrent` | `DiagnosticsAreCurrent` |

The inductive invariant `IInv` (`IInvHolds`) has the types in full (`Typed`), epochs
and generations that count openings and changes (`Counted`), and `Kept`: a
semantic document has a sidecar of its text, a fallback document the tokens of its
text, unless its last change was half applied. `AnswersAreCurrent` needs `Kept` for
what is stored and the comparison in `IndexUsed` for what is memoised. Every result,
whether it comes from the worker, from the events of a crash or from an analysis that
was never posted, goes through `Conclude`, so `ConcludeInv` is the lemma that
matters: `currentAnalysis` compares the captured text with the document's, and only
then is the result stored (`Kept`) and published (`Published`, which is what
`DiagnosticsAreCurrent` says of one step).

The second part of the module is about the work under way:

| theorem | property |
|---|---|
| `FlightHolds` | the invariant `Flight /\ Service /\ Rejected` |
| `PendingFlies` | `PendingIsInFlight` |
| `DiscardsDeserved` | `DiscardIsDeserved` |

`Flight`: an analysis that is not aborted is the only one of a pending document,
for its present epoch, generation and text (unless torn), and every pending
document has one while the server serves. `Service`: a posted analysis has its
operation in the table, and a worker that will answer or an event of a crash
that will fail it; `worker` never points to a thread whose error came. `Rejected`:
without a crash and with the adapter, the worker's rejections of a document are the
number of the attempt. The hard lemmas are `ConcludeFlight`, where one result
concludes several operations, and `EventFlight`, where a late exit takes the
operations of the next worker with it.

`KofunHttpProofs` proves, for all limits, clients and scripts that the
assumptions admit:

| theorem | property |
|---|---|
| `TypesHold` | `TypeOK` |
| `DescriptorsMatch` | `TableMatchesSockets` |
| `EventsMeetTheirConnection` | `EventsReachTheirConnection` |
| `DrainAnswersClose` | `DrainCloses` |

A handler is an operator from a connection to a connection, so that the first part
says of each which fields it may change (the `...Fields` lemmas) and what can come of
it (`Outcome`: the same socket, or a free slot). `IInv` (`Inductive`) has the types,
`TableOK` and `EventsOK`: an event of the batch names a connection that is still the
one it was reported for, because only the dispatch of the event itself closes that
connection, and a descriptor given out meanwhile was free, so that no event that is
left names it. `Smallest` of a set of numbers (a request's first end, the lowest free
descriptor) is dealt with once, in `LeastNatural`.

`KofunHttpStreamProofs` proves what a client reads:

| theorem | property |
|---|---|
| `AnswersAreInOrder` | `ResponsesInOrder` |
| `CloseEndsTheStream` | `NothingAfterClose` |
| `AnswersAreDeserved` | `StatusIsDeserved` |

`StreamsOK` (`StreamsStayTied`) ties three things that the code keeps apart: the
script, the input buffer and the response. A connection is at a boundary of its
client's script; what follows the boundary is in the buffer and then on the wire;
a response that waits is the one that the request at the boundary deserves. It needs
`OutsOK` (what epoll said about sending is still so at the event's turn, since a
connection with a response out is not read) and `PlacesOK` (a client is in the backlog
or in one slot). `ProcessDeserves` is the pure part: what `process_request` finds in
a prefix of the rest of a script is what the whole script says of that request.

`IncrementalGraphProofs` proves, for all modules, packages, sources, edits and
damage:

| theorem | property | under |
|---|---|---|
| `NothingExecutedInVain` | `NoNeedlessExecution` | - |
| `ManifestsAreClean` | `ManifestIsClean` | `OneRun` |
| `CachesAreClean` | `CacheIsClean` | `OneRun` |
| `TargetsStayFresh` | `TargetsAreFresh` | `OneRun`, no stop in phase `"report"` |

The hypotheses are the findings below: `graph_two_runs` violates `ManifestIsClean`
with two runs, and a stop between the two commits breaks `TargetsAreFresh`: it violates
`ReusedTargetsAreCurrent` in `graph_lost_report`, which only looks at targets reported
as reused. `Causes` (`CausesHold`): a module is forced only when an import
of it shows it something new. `Clean` (`CleanHolds`): the manifest is that of a
clean build of the sources it names; dependencies are decided first; what is decided
has its clean interface in the file; a consumer that is not forced would read of
what is decided what it read before (`Unseen`). Then `InterfaceIsLocal` gives that a
reused module has the interface it would have if built.

`SemanticEventsProofs` proves, for all records, exit classes and limits:

| theorem | property |
|---|---|
| `TypesHold` | `TypeOK` |
| `ReadyStreamsAreClosed` | `ReadyStreamIsClosed` |
| `RecordsStay` | `AcceptedRecordsStay` |
| `DestinationIsWhole` | `DestinationIsReplacedWhole` |
| `ReplaysReproduce` | `ReplayReproduces` |

A callback leaves the stream alone, fails it, or takes one record that fits
(`EmitStep`); `IInv` (`Inductive`) keeps nodes and identities unique, references,
owners and affected subjects resolved and, once ended, the closure that was validated. The
firm ground that `ReadyStreamIsClosed` asks for of a validated record is the set of all
validated nodes; a provisional one has none, since any would contain the
dependency that the closure check found not validated. `ReplaysReproduce`
rests on `Replays`: a stream that is still working is, but for an observed
cancellation, what the replay of its records would be, because a cancellation only
refuses records that the replay would take (`NodeTwin` and its like), and the replay
makes it up before a cancelled end (`EndReplays`). That the recursive function `after`
is what its definition says needs no induction over data: every record taken extends
a run by one (`RunGrows`), so that one exists, and the least place where two runs
differ would be no place (`RunsAgree`).

### What stays with TLC

The seven liveness properties (`CallsReturn`, `TasksStart`, `EverythingIsAnswered`,
`EverySlotIsFreed`, `DrainEnds`, `EveryDocumentSettles`, `EveryCallReturns`): fairness
and `ENABLED` are beyond the prover. Every other property of the passing runs is
proved. The violated properties of the runs below are of course not.

## Disagreements found

Each has a run whose counterexample shows it, and an entry with the quoted text
in `PROJECT.json`.

1. `http_torn_response`: a full input buffer makes `read_connection` prepare a
   413 over a response that is partly on the wire, whose rest is never sent; the README
   promises that partial writes retain the response. `PartialWriteRetainsResponse` lets
   the buffer go once the last unit is delivered, as `flush_connection` does.
2. `http_slow_header`: the idle clock restarts at every byte, so a client that
   writes one unit of a header per tick keeps its slot past the timeout, measured
   from the first unit; the README promises that such clients are closed. In
   `TrickleSpec` time passes only when the loop has nothing to do and no
   connection is idle for the timeout, so the server is never late by itself.
3. `graph_lost_report`: the manifest is committed before the report, so a run
   that fails in between has already told the next run that nothing changed: after
   a build, an edit and such a run, the next one reports as reused a target whose
   artifact is of the sources before the edit.
4. `graph_two_runs`: the digest of a published interface is that of the file read
   back, which another run in the same directory may have replaced; the
   manifest then vouches for the other run's interface.

Seen while modelling and not made a run of its own: small pipelined requests
that together fill the input buffer get a 413, although none has a large body.

Three more, which the properties leave out by name:

- A change notification whose later edit is malformed keeps the earlier ones
  (`server.js:1583`). A document that was settled then answers from the old
  sidecar over the new text, and one that was pending stays pending until the
  next change, although "no response or diagnostic carries a stale document
  version" (`spec/roadmap-31-34/lsp.md:116`). Diagnostics stay right
  (`DiagnosticsAreCurrent` includes these documents).
- The lock file of a process that died stays for ever, so "the higher generation
  eventually replaces the lower" (`tooling/typed-sidecar/README.md:39`) is true only
  among writers that live; `EveryCallReturns` says what is left. The same
  paragraph has the digest refreshed before the destination is read again;
  the code does it after, which makes no difference under the lock.
- An identity record may be provisional and has no dependencies to name, against
  "A provisional record names at least one known non-validated dependency"
  (`bootstrap/stage2/semantic-events-v1.md:82`); `ReadyStreamIsClosed` says it of
  nodes, references and facts.

## What is not modelled

- Text and binary formats: JSON, percent decoding, `.kif` and manifest layout,
  the trace's rendering. No property is about them.
- The language server's message framing, its pool of source buffers and what its
  queries compute; the JSON codec of a sidecar and the projection from events.
- The byte and relation limits and the text checks of the event stream, beyond
  the failure they cause (`rejected`).
- Memory allocation failure in the compilers and the graph tool: it ends the
  process, which `run_stops` covers for the graph.
- Two runs that share the manifest's temporary name (`incremental_graph.c:191`):
  below the grain of a rename; see the hazard's note.
- The compilers, the command-line framework and the drivers: sequential
  translators without state that outlives a call.
- The standard library is written in Kofun; its containers are candidates for
  bounded checks against reference definitions.

## Plan

Done: `ScopedParallel` and `ParContract`, `KofunHttp`, `IncrementalGraph`,
`LanguageServer`, `SemanticEvents`, `SidecarWriter` and `SidecarContract`, each with
the proofs of all its safety properties. Next, in this order:

1. `ObjectCache` (`semantic-objects.sh`, `verify-cc-wrapper.sh`): builders that
   publish by rename and reclaim through tombstones, with signals between any
   two commands; a consumer sees one complete bundle.
2. `WasmArena` (`wasi_command_memory.h`): the emitted allocator in arithmetic
   modulo 2^32, objects disjoint and inside memory, growth to the ceiling; a
   module that can be proved about.
3. The `.kif` write transaction as a refinement of the one-step rename that
   `IncrementalGraph` assumes.

Theorems, in order of worth:

1. The safety half of the liveness arguments: the rank of a call of the sidecar
   writer falls at each of its steps, as do the units that an HTTP client and its
   connection still owe each other, and the tasks that `FairSpec` must run.
2. That some step of the HTTP loop has its guards true in every serving state, which
   is why `LoopRuns` may stand for weak fairness.
3. An abstract HTTP server, request by request, that `KofunHttp` implements but for
   the 413 of a full buffer; an abstract build, module by module, that one run of
   `IncrementalGraph` implements.
