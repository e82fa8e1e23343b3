--------------------------- MODULE SemanticEvents ---------------------------
(***************************************************************************)
(* The semantic event stream of bootstrap/stage2/semantic_events.c: the     *)
(* reference sink that a producer calls record by record, the canonical     *)
(* validation that replays a finished stream into a fresh one, and the      *)
(* commit of its bytes to a file.                                           *)
(*                                                                          *)
(* A stream is a value and an event a function on streams, because the code *)
(* runs the same callbacks twice: once for the producer and once for the    *)
(* bytes, where all that it knows of the first run is what was serialized.  *)
(* A list in canonical order is a set, a text is TRUE when it is not empty; *)
(* a record that is wrong in a way that no other record tells is malformed. *)
(***************************************************************************)
EXTENDS Integers, Sequences, SequencesExt

CONSTANTS
    NodeRecords, IdentityRecords, ReferenceRecords, FactRecords,
    DiagnosticRecords,            \* the records that a producer may send
    ExitClasses,                  \* the exit classes of the compiler
    KOFUN_SEMANTIC_MAX_EVENTS,    \* with the first and the last event
    Absent, Prior, Other          \* what else may be at the destination

ASSUME LimitIsANumber == KOFUN_SEMANTIC_MAX_EVENTS \in Nat \ {0, 1}

\* Every callback takes a record type of its own, and the first one refuses
\* an exit class above 3.
ASSUME RecordsAreOfTheirKind ==
    /\ ExitClasses \subseteq 0 .. 3
    /\ \A r \in NodeRecords : r.kind = "node"
    /\ \A r \in IdentityRecords : r.kind = "identity"
    /\ \A r \in ReferenceRecords : r.kind = "reference"
    /\ \A r \in FactRecords : r.kind = "fact"
    /\ \A r \in DiagnosticRecords : r.kind = "diagnostic"

Statuses == {"validated", "provisional", "error", "unavailable"}

\* The identity kinds that a reference of each namespace may name.
reference_kind_matches_namespace(space, kind) ==
    <<space, kind>> \in {<<"value", "binding">>, <<"value", "symbol">>,
                         <<"type", "type">>, <<"constructor", "constructor">>}

-----------------------------------------------------------------------------
(* The stream *)

NewStream ==
    [phase |-> 0, began |-> FALSE, ended |-> FALSE, ready |-> FALSE,
     failed |-> FALSE, cancelled |-> FALSE, exit |-> 0, status |-> "none",
     records |-> <<>>]

Records(s) == ToSet(s.records)
OfKind(s, kind) == {r \in Records(s) : r.kind = kind}
NodeIds(s) == {r.id : r \in OfKind(s, "node")}
Diagnosed(s) == {r.id : r \in OfKind(s, "diagnostic")}
HasErrorDiagnostic(s) == \E r \in OfKind(s, "diagnostic") : r.severity = "error"

\* Mutant: a begin on a finished stream leaves its bytes on offer.
set_error_stays_ready(s) == [s EXCEPT !.failed = TRUE]

set_error(s) == [s EXCEPT !.failed = TRUE, !.ready = FALSE]

\* Mutant: an event is still taken by a stream that has failed.
ensure_event_failed(s, phase, next) ==
    IF s.ended THEN s
    ELSE IF \/ ~s.began
            \/ phase < 7 /\ Len(s.records) >= KOFUN_SEMANTIC_MAX_EVENTS - 2
            \/ s.phase > phase
         THEN set_error(s) ELSE [next EXCEPT !.phase = phase]

\* A failed or ended stream ignores events; the others fail on a record that
\* comes before the source, out of phase or beyond the limit.
ensure_event(s, phase, next) ==
    IF s.failed \/ s.ended THEN s
    ELSE IF \/ ~s.began
            \/ phase < 7 /\ Len(s.records) >= KOFUN_SEMANTIC_MAX_EVENTS - 2
            \/ s.phase > phase
         THEN set_error(s) ELSE [next EXCEPT !.phase = phase]

\* Append r if it is valid.
Event(s, phase, valid, r) ==
    ensure_event(s, phase,
        IF valid THEN [s EXCEPT !.records = Append(@, r)] ELSE set_error(s))

valid_relations(s, r) ==
    /\ ~(s.cancelled /\ r.status = "validated")
    /\ r.status = "error" => r.diagnostics # {}
    /\ r.status = "provisional" => r.dependencies # {}

Begin(s, exit) ==
    IF s.began \/ s.ended \/ s.failed \/ s.cancelled THEN set_error(s)
    ELSE [s EXCEPT !.began = TRUE, !.phase = 1, !.exit = exit]

Node(s, r) ==
    Event(s, 2, r.id \notin NodeIds(s) /\ valid_relations(s, r), r)

Identity(s, r) ==
    Event(s, 3,
          /\ r.status # "error"
          /\ r.owner \in NodeIds(s)
          /\ ~(s.cancelled /\ r.status = "validated")
          /\ \A i \in OfKind(s, "identity") :
                i.sub = r.sub => i.owner # r.owner /\ i.id # r.id,
          r)

\* A reference has no dependencies of its own.
Reference(s, r) ==
    Event(s, 4,
          /\ r.id \notin {x.id : x \in OfKind(s, "reference")}
          /\ r.owner \in NodeIds(s)
          /\ valid_relations(s, r)
          /\ r.reason = ~r.visible
          /\ \/ reference_kind_matches_namespace(r.space, r.target.sub)
             \/ ~r.visible /\ r.target.sub = "none"
          /\ IF r.visible
             THEN \E i \in OfKind(s, "identity") :
                     /\ i.sub = r.target.sub /\ i.id = r.target.id
                     /\ r.status = "validated" => i.status = "validated"
             ELSE r.status # "validated",
          r)

\* Facts come in the order of their kinds.
Fact(s, r) ==
    Event(s, 5,
          /\ r.owner \in NodeIds(s)
          /\ \A f \in OfKind(s, "fact") : f.sub <= r.sub
          /\ valid_relations(s, r)
          /\ r.status = "unavailable" => r.reason /\ ~r.display
          /\ r.status = "validated" => r.display
          /\ \A f \in OfKind(s, "fact") : f.sub = r.sub => f.owner # r.owner,
          r)

Diagnostic(s, r) ==
    Event(s, 6,
          /\ r.id \notin Diagnosed(s)
          /\ r.affected \subseteq
                NodeIds(s) \cup {x.id : x \in OfKind(s, "reference")},
          r)

StatusOf(s, id) == (CHOOSE r \in OfKind(s, "node") : r.id = id).status

\* Mutant: a provisional record need not wait for anything.
validate_closure_unfounded(s) ==
    \A r \in OfKind(s, "node") \cup OfKind(s, "reference") \cup OfKind(s, "fact") :
        /\ r.dependencies \subseteq NodeIds(s)
        /\ r.status = "validated" =>
              \A d \in r.dependencies : StatusOf(s, d) = "validated"
        /\ r.diagnostics \subseteq Diagnosed(s)
        /\ r.status = "unavailable" /\ r.kind # "node" => r.reason

validate_closure(s) ==
    \A r \in OfKind(s, "node") \cup OfKind(s, "reference") \cup OfKind(s, "fact") :
        /\ r.dependencies \subseteq NodeIds(s)
        /\ LET open == {d \in r.dependencies : StatusOf(s, d) # "validated"}
           IN  /\ r.status = "validated" => open = {}
               /\ r.status = "provisional" => open # {}
        /\ r.diagnostics \subseteq Diagnosed(s)
        /\ r.status = "unavailable" /\ r.kind # "node" => r.reason

\* A checked stream is complete, a failed or cancelled one is partial.
end_is_justified(s, status) ==
    CASE status = "checked" ->
           /\ s.exit = 0 /\ ~HasErrorDiagnostic(s)
           /\ \A r \in Records(s) \ OfKind(s, "diagnostic") : r.status = "validated"
      [] status = "failed" -> HasErrorDiagnostic(s) /\ s.exit \in 1 .. 3
      [] status = "cancelled" -> s.cancelled /\ s.exit = 0

End(s, status) ==
    ensure_event(s, 7,
        IF end_is_justified(s, status) /\ validate_closure(s)
        THEN [s EXCEPT !.ended = TRUE, !.ready = TRUE, !.status = status]
        ELSE set_error(s))

observe_cancellation(s) ==
    IF s.ended \/ s.failed THEN s ELSE [s EXCEPT !.cancelled = TRUE]

-----------------------------------------------------------------------------
(* The bytes and their replay *)

\* What a finished stream serializes: not when a cancellation was observed.
Bytes(s) == [exit |-> s.exit, records |-> s.records, status |-> s.status]

Emit(s, r) ==
    CASE r.kind = "node" -> Node(s, r)
      [] r.kind = "identity" -> Identity(s, r)
      [] r.kind = "reference" -> Reference(s, r)
      [] r.kind = "fact" -> Fact(s, r)
      [] r.kind = "diagnostic" -> Diagnostic(s, r)

\* The sink after n of the decoded records.
after(bytes) ==
    LET sink[n \in 0 .. Len(bytes.records)] ==
            IF n = 0 THEN Begin(NewStream, bytes.exit)
            ELSE Emit(sink[n - 1], bytes.records[n])
    IN  sink

\* Mutant: a decoded cancelled end does not tell the sink first.
replay_unobserved(bytes) == End(after(bytes)[Len(bytes.records)], bytes.status)

\* emit_parsed_event for every frame, into a fresh stream.
replay(bytes) ==
    LET decoded == after(bytes)[Len(bytes.records)]
    IN  End(IF bytes.status = "cancelled" THEN observe_cancellation(decoded)
            ELSE decoded,
            bytes.status)

kofun_semantic_validate_stream(bytes) ==
    LET decoded == replay(bytes)
    IN  decoded.ready /\ Bytes(decoded) = bytes

-----------------------------------------------------------------------------
VARIABLES
    stream,        \* the stream of this process
    destination,   \* what is at the destination of the commit
    temporary,     \* the temporary file that this process named
    commit         \* how far kofun_semantic_stream_commit has got

files == <<destination, temporary>>
vars  == <<stream, files, commit>>

Init ==
    /\ stream = NewStream
    /\ destination \in {Absent, Prior, Other}
    /\ temporary = Absent
    /\ commit = "idle"

\* The producer calls the sink.
calls(s) ==
    /\ commit = "idle"
    /\ stream' = s
    /\ UNCHANGED <<files, commit>>

begin == \E exit \in ExitClasses : calls(Begin(stream, exit))
node == \E r \in NodeRecords : calls(Node(stream, r))
identity == \E r \in IdentityRecords : calls(Identity(stream, r))
reference == \E r \in ReferenceRecords : calls(Reference(stream, r))
fact == \E r \in FactRecords : calls(Fact(stream, r))
diagnostic == \E r \in DiagnosticRecords : calls(Diagnostic(stream, r))
end == \E status \in {"checked", "failed", "cancelled"} : calls(End(stream, status))
cancellation_observed == calls(observe_cancellation(stream))

\* A malformed record, or no memory for a good one.
rejected == ~stream.ended /\ calls(set_error(stream))

\* A new stream does not know which stream was committed before it.
Seen(file) == IF file \in {Absent, Prior, Other} THEN file ELSE Prior

\* The stream is destroyed and another one created.
recreate ==
    /\ commit = "idle"
    /\ stream' = NewStream
    /\ destination' = Seen(destination)
    /\ UNCHANGED <<temporary, commit>>

-----------------------------------------------------------------------------
(* kofun_semantic_stream_commit *)

commit_fails ==
    /\ stream' = set_error(stream)
    /\ commit' = "idle"
    /\ temporary' = Absent
    /\ UNCHANGED <<destination>>

commit_starts ==
    /\ commit = "idle" /\ stream.ready
    /\ IF kofun_semantic_validate_stream(Bytes(stream)) /\ destination # Other
       THEN commit' = "checked" /\ UNCHANGED <<stream, files>>
       ELSE commit_fails

\* Mutant: the destination itself is created and written.
creates_temporary_in_place ==
    /\ commit = "checked"
    /\ temporary' = <<>> /\ commit' = "created"
    /\ destination' = <<>>
    /\ UNCHANGED <<stream>>

\* fopen(..., "wbx") of a name that no file has yet, with the process in it.
creates_temporary ==
    /\ commit = "checked"
    /\ temporary' = <<>> /\ commit' = "created"
    /\ UNCHANGED <<stream, destination>>

writes_temporary ==
    /\ commit = "created"
    /\ temporary' = Bytes(stream) /\ commit' = "written"
    /\ UNCHANGED <<stream, destination>>

\* Any of the calls after the first checks may fail.
io_fails == commit # "idle" /\ commit_fails

renames ==
    /\ commit = "written"
    /\ destination' = temporary
    /\ temporary' = Absent /\ commit' = "idle"
    /\ UNCHANGED <<stream>>

\* The process dies in the commit, and the next one names another temporary.
crash ==
    /\ commit # "idle"
    /\ temporary' = Absent /\ commit' = "idle"
    /\ stream' = NewStream
    /\ destination' = Seen(destination)

Next ==
    \/ begin \/ node \/ identity \/ reference \/ fact \/ diagnostic \/ end
    \/ cancellation_observed \/ rejected \/ recreate
    \/ commit_starts \/ creates_temporary \/ writes_temporary \/ io_fails
    \/ renames \/ crash

Spec == Init /\ [][Next]_vars

-----------------------------------------------------------------------------
AllRecords == NodeRecords \cup IdentityRecords \cup ReferenceRecords
                \cup FactRecords \cup DiagnosticRecords

\* The type invariant.
TypeOK ==
    /\ stream.phase \in 0 .. 7 /\ stream.exit \in 0 .. 3
    /\ stream.status \in {"none", "checked", "failed", "cancelled"}
    /\ Records(stream) \subseteq AllRecords
    /\ Len(stream.records) <= KOFUN_SEMANTIC_MAX_EVENTS - 2
    /\ stream.ready => stream.ended /\ stream.began /\ ~stream.failed
    /\ commit \in {"idle", "checked", "created", "written"}
    /\ commit # "idle" => stream.ready

(* Safety *)

\* A set of nodes whose dependencies stay in it, all of them validated.
IsFirmGround(T) ==
    \A r \in OfKind(stream, "node") :
        r.id \in T => r.status = "validated" /\ r.dependencies \subseteq T

RestsOnValidated(r) ==
    \E T \in SUBSET NodeIds(stream) : r.dependencies \subseteq T /\ IsFirmGround(T)

\* What a finished stream promises to those who read one record of it: a
\* validated record rests on validated nodes through any chain of
\* dependencies, cycles included, and a provisional one does not; no
\* dependency, diagnostic, owner, target or affected subject that a record
\* names is missing, though a dependency and a diagnostic may have come
\* later; a visible reference has exactly one target.
ReadyStreamIsClosed ==
    stream.ready =>
        /\ \A r \in Records(stream) :
             r.kind \in {"node", "reference", "fact"} =>
                /\ r.diagnostics \subseteq Diagnosed(stream)
                /\ r.dependencies \subseteq NodeIds(stream)
                /\ r.status = "validated" => RestsOnValidated(r)
                /\ r.status = "provisional" => ~RestsOnValidated(r)
        /\ \A r \in Records(stream) :
             r.kind \in {"identity", "reference", "fact"} =>
                r.owner \in NodeIds(stream)
        /\ \A r \in OfKind(stream, "diagnostic") :
             r.affected \subseteq
                NodeIds(stream) \cup {x.id : x \in OfKind(stream, "reference")}
        /\ \A r \in OfKind(stream, "reference") :
             r.visible =>
                \E i \in OfKind(stream, "identity") :
                    /\ r.status = "validated" => i.status = "validated"
                    /\ \A j \in OfKind(stream, "identity") :
                          j.sub = r.target.sub /\ j.id = r.target.id <=> j = i
        /\ stream.status = "checked" =>
              {r \in Records(stream) : r.kind # "diagnostic"
                                          /\ r.status # "validated"} = {}

\* The bytes of a finished stream are accepted by the replay that everyone
\* reads them with, though they do not say when, or whether, a cancellation
\* was observed: a stream that is ready can be committed.
ReplayReproduces ==
    stream.ready => kofun_semantic_validate_stream(Bytes(stream))

\* No call changes a record that was accepted, none adds one to a stream that
\* has failed or ended, none makes a failed stream ready, and none adds a
\* validated one after a cancellation was observed.
AcceptedRecordsStay ==
    [][stream' # NewStream =>
          /\ IsPrefix(stream.records, stream'.records)
          /\ stream.failed \/ stream.ended => stream'.records = stream.records
          /\ stream.failed => stream'.failed /\ ~stream'.ready
          /\ stream.cancelled =>
                \A r \in Records(stream') \ Records(stream) :
                    r.kind = "diagnostic" \/ r.status # "validated"]_vars

\* The destination goes from one whole file to another, whatever fails and
\* wherever the process dies, and only to a stream that every reader accepts.
DestinationIsReplacedWhole ==
    [][destination' \notin {destination, Seen(destination)} =>
          /\ destination # Other
          /\ stream.ready /\ destination' = Bytes(stream)
          /\ kofun_semantic_validate_stream(destination')]_vars
=============================================================================
